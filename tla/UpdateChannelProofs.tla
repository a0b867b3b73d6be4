------------------------ MODULE UpdateChannelProofs ------------------------
(***************************************************************************)
(* Proofs about UpdateChannel, for any clients, any number of updates in a *)
(* flush, and any of the events: a flush that returned has its updates on  *)
(* the disks, an acknowledged update is kept, and updates are applied once *)
(* and in order.                                                           *)
(*                                                                         *)
(* The argument.  What was received is in one sequence, Route: applied,    *)
(* then the batch that is on its way, then what is pending.  Steps of the  *)
(* threads move the borders within it and nothing else; only a new update, *)
(* later than all of its sender, is put at its end.  The ping waits for    *)
(* the last two parts to be empty; what is applied then and not written    *)
(* yet is written before the monitor counts its loop the next time.        *)
(***************************************************************************)
EXTENDS UpdateChannel, SequenceTheorems, TLAPS

\* While the monitor passes a batch back it is in the queue, and applied.
Passing == mon \in {"pass_back", "clear"}
Batch == IF Passing THEN <<>> ELSE queue
Route == applied \o (Batch \o pending)

\* The monitor has seen a batch, and nobody else empties the queue.
TakenIsThere == mon \in {"apply", "pass_back", "clear"} => queue # <<>>
\* While the manager looks at the metadata, or has seen the lists empty, they are.
QueueRests == mgr \in {"manage", "accept", "serve", "ping_count", "ping_wait"} => queue = <<>>
PendingRests == mgr \in {"ping_count", "ping_wait"} => pending = <<>>

\* Of one sender the earlier update comes first.
Sorted(s) == \A i, j \in DOMAIN s : i < j /\ s[i][1] = s[j][1] => s[i][2] < s[j][2]
\* What a client has still to hear of was not received.
Received(u) ==
    u[1] \in Client => /\ u[2] <= sent[u[1]]
                       /\ inbox[u[1]] = u[2] => mgr = "dead"
RouteInOrder == Sorted(Route) /\ \A i \in DOMAIN Route : Received(Route[i])

\* What a client has sent: it waits for one answer at a time.
Flushing(c) ==
    /\ client[c] = "start" => sent[c] = 0 /\ inbox[c] = NoMessage
    /\ client[c] = "ready" => inbox[c] = NoMessage
    /\ client[c] = "waiting" => sent[c] \in 1..PerFlush /\ inbox[c] = sent[c]
    /\ client[c] = "pinging" => sent[c] = PerFlush /\ inbox[c] = Ping
    /\ client[c] = "done" /\ mgr # "dead" => inbox[c] = NoMessage
    /\ client[c] = "failed" /\ mgr # "dead" => inbox[c] = NoMessage
Answered(c) ==
    CASE client[c] = "waiting" -> \A n \in 1..PerFlush : n < sent[c] => <<c, n>> \in acked
      [] client[c] \in {"ready", "pinging"} -> \A n \in 1..PerFlush : n <= sent[c] => <<c, n>> \in acked
      [] OTHER -> TRUE
PingIsHeld == mgr \in {"ping_queue", "ping_count", "ping_wait"} => serving \in Client /\ client[serving] = "pinging"
Alive == mon = "dead" <=> mgr = "dead"

\* What is on the disks is what was applied, but for the moment before it is written.
Written == /\ disk \subseteq ToSet(applied)
           /\ mon \in {"select", "check", "apply", "act"} => disk = ToSet(applied)
\* A ping that comes in that moment has the whole count before it.
NotYetCounted == mgr = "ping_wait" /\ mon = "sync" => togo = 3
AckedOnRoute == Serving => acked \subseteq ToSet(Route)


Control == /\ TypeOK /\ Alive /\ TakenIsThere /\ QueueRests /\ PendingRests
           /\ (\A c \in Client : Flushing(c)) /\ PingIsHeld
Kept == Written /\ NotYetCounted /\ (\A c \in Client : Answered(c)) /\ AckedOnRoute /\ FlushedIsWritten
ChannelInv == Control /\ RouteInOrder /\ Kept

-----------------------------------------------------------------------------
(* Control: who may do what with the lists.                                 *)

\* The channel is empty at the start, and nobody is in it.
LEMMA InitControl == Init => Control
<1> SUFFICES ASSUME Init PROVE Control  OBVIOUS
<1> USE ClientAssumption, PerFlushAssumption DEF Init, NoMessage, NoClient
<1>1. TypeOK
  <2>1. <<>> \in Seq(Update)  BY EmptySeq
  <2>2. sigMon \in BOOLEAN /\ sigMgr \in BOOLEAN /\ emptied \in BOOLEAN /\ sigterm \in BOOLEAN
    OBVIOUS
  <2>3. /\ client \in [Client -> {"start", "ready", "waiting", "pinging", "done", "failed"}]
        /\ sent \in [Client -> 0..PerFlush] /\ inbox \in [Client -> 0..NoMessage]
    OBVIOUS
  <2>4. /\ pending = <<>> /\ queue = <<>> /\ handled = <<>> /\ applied = <<>>
        /\ disk = {} /\ acked = {} /\ mon = "check" /\ mgr = "top" /\ serving = NoClient /\ togo = 0
    OBVIOUS
  <2>5. QED
    <3> HIDE DEF Init
    <3>1. QED  BY <2>1, <2>2, <2>3, <2>4 DEF TypeOK
<1>2. Alive /\ TakenIsThere /\ QueueRests /\ PendingRests /\ PingIsHeld
  BY DEF Alive, TakenIsThere, QueueRests, PendingRests, PingIsHeld
<1>3. \A c \in Client : Flushing(c)  BY DEF Flushing
<1>4. QED  BY <1>1, <1>2, <1>3 DEF Control

\* The monitor's steps keep it: it empties the queue only after it saw a batch there.
LEMMA MonitorControl == Control /\ (MonitorStep \/ Notified) => Control'
<1> SUFFICES ASSUME Control, MonitorStep \/ Notified PROVE Control'  OBVIOUS
<1> USE DEF Control, lists, store, monVars, mgrVars, cliVars, MonitorGoes
<1>1. TypeOK'
  <2>1. CASE Select  BY <2>1 DEF Select, TypeOK, Counted
  <2>2. CASE Signalled
    <3>1. sigMon' \in BOOLEAN  BY <2>2 DEF Signalled
    <3>2. /\ UNCHANGED <<lists, store, mgr, emptied, sigMgr, serving, sigterm, cliVars>>
          /\ mon' = "check" /\ Counted
      BY <2>2 DEF Signalled
    <3>3. QED  BY <3>1, <3>2 DEF TypeOK, Counted
  <2>3. CASE Notified  BY <2>3 DEF Notified, TypeOK, Counted
  <2>4. CASE CheckQueue  BY <2>4 DEF CheckQueue, TypeOK
  <2>5. CASE Apply
    <3>1. applied \o queue \in Seq(Update)  BY ConcatProperties DEF TypeOK
    <3>2. QED  BY <2>5, <3>1 DEF Apply, TypeOK
  <2>6. CASE PassBack  BY <2>6 DEF PassBack, TypeOK
  <2>7. CASE Clear  BY <2>7, EmptySeq DEF Clear, TypeOK
  <2>8. CASE SyncMetadata
    <3>1. ToSet(applied) \subseteq Update  BY DEF TypeOK, ToSet
    <3>2. QED  BY <3>1, <2>8 DEF SyncMetadata, TypeOK
  <2>9. QED  BY <2>1, <2>2, <2>3, <2>4, <2>5, <2>6, <2>7, <2>8 DEF MonitorStep
<1>2. /\ UNCHANGED <<mgr, pending, serving, client, sent, inbox>>
      /\ mon # "dead" /\ mon' # "dead"
      /\ queue' = queue \/ (queue' = <<>> /\ mon' = "sync")
      /\ mon' \in {"apply", "pass_back", "clear"} => queue' # <<>>
  BY DEF MonitorStep, Select, Signalled, Notified, CheckQueue, Apply, PassBack, Clear, SyncMetadata, TakenIsThere
<1>3. (Alive /\ TakenIsThere /\ QueueRests /\ PendingRests /\ PingIsHeld)'
  BY <1>2 DEF Alive, TakenIsThere, QueueRests, PendingRests, PingIsHeld, Connected
<1>4. ASSUME NEW c \in Client PROVE Flushing(c)'
  BY <1>2 DEF Flushing, NoMessage
<1>5. QED  BY <1>1, <1>3, <1>4

\* The manager's steps keep it: it looks at the metadata only after it saw the queue
\* empty, and fills it only elsewhere.
LEMMA ManagerControl == Control /\ ManagerStep => Control'
<1> SUFFICES ASSUME Control, ManagerStep PROVE Control'  OBVIOUS
<1> USE ClientAssumption, PerFlushAssumption
    DEF Control, lists, store, monVars, mgrVars, cliVars, ManagerGoes, ListsEmpty
<1> USE DEF Alive, TakenIsThere, QueueRests, PendingRests, PingIsHeld
<1>0. TypeOK  OBVIOUS
<1>1. CASE Top
  <2>1. mgr' \in {"manage", "push"} /\ (mgr' = "manage" => queue = <<>>)  BY <1>1 DEF Top
  <2>2. UNCHANGED <<lists, store, monVars, emptied, sigMgr, serving, togo, sigterm, cliVars>> /\ mgr = "top"
    BY <1>1 DEF Top
  <2>3. QED  BY <1>0, <2>1, <2>2 DEF TypeOK, Flushing, NoMessage
<1>2. CASE Manage
  <2>1. OwnUpdate \in Update  BY DEF OwnUpdate, Update
  <2>2. pending' \in Seq(Update)
    <3>1. Append(pending, OwnUpdate) \in Seq(Update) /\ <<OwnUpdate>> \in Seq(Update)
      BY <2>1 DEF TypeOK
    <3>2. pending' \in {pending, Append(pending, OwnUpdate), <<OwnUpdate>>}
      BY <1>2 DEF Manage, Queued
    <3>3. QED  BY <3>1, <3>2 DEF TypeOK
  <2>3. /\ UNCHANGED <<queue, handled, store, monVars, emptied, sigMgr, serving, togo, sigterm, cliVars>>
        /\ mgr = "manage" /\ mgr' \in {"accept", "update_wait"}
    BY <1>2 DEF Manage
  <2>4. QED  BY <1>0, <2>2, <2>3 DEF TypeOK, Flushing, NoMessage
<1>3. CASE Accept
  BY <1>0, <1>3 DEF Accept, TypeOK, Flushing, NoMessage
<1>4. CASE HandleUpdate
  <2>1. serving \in Client /\ <<serving, inbox[serving]>> \in Update
    BY <1>0, <1>4 DEF HandleUpdate, TypeOK, Update
  <2>2. pending' \in Seq(Update) /\ acked' \subseteq Update
    <3>1. /\ pending' \in {pending, Append(pending, <<serving, inbox[serving]>>)}
          /\ acked' = acked \cup {<<serving, inbox[serving]>>}
      BY <1>4 DEF HandleUpdate, Queued
    <3>2. pending \in Seq(Update) /\ acked \subseteq Update  BY <1>0 DEF TypeOK
    <3>3. Append(pending, <<serving, inbox[serving]>>) \in Seq(Update)
      BY <2>1, <3>2, AppendProperties
    <3>4. QED  BY <2>1, <3>1, <3>2, <3>3
  <2>3. TypeOK'
    <3>1. /\ UNCHANGED <<queue, handled, store, monVars, mgrVars, sigterm, sent>>
          /\ client' = [client EXCEPT ![serving] = "ready"]
          /\ inbox' = [inbox EXCEPT ![serving] = NoMessage]
      BY <1>4 DEF HandleUpdate, Reply
    <3>2. client' \in [Client -> {"start", "ready", "waiting", "pinging", "done", "failed"}]
      BY <1>0, <3>1 DEF TypeOK
    <3>3. inbox' \in [Client -> 0..NoMessage]
      <4>1. NoMessage \in 0..NoMessage  BY DEF NoMessage
      <4>2. inbox \in [Client -> 0..NoMessage]  BY <1>0 DEF TypeOK
      <4>3. QED  BY <3>1, <4>1, <4>2
    <3>4. QED  BY <1>0, <2>2, <3>1, <3>2, <3>3 DEF TypeOK
  <2>4. ASSUME NEW c \in Client PROVE Flushing(c)'
    <3>1. CASE c = serving
      <4>1. client'[c] = "ready" /\ inbox'[c] = NoMessage
        BY <1>0, <1>4, <3>1 DEF HandleUpdate, Reply, TypeOK
      <4>2. QED  BY <4>1 DEF Flushing
    <3>2. CASE c # serving
      <4>1. client'[c] = client[c] /\ inbox'[c] = inbox[c]
        BY <1>0, <1>4, <3>2 DEF HandleUpdate, Reply, TypeOK
      <4>2. UNCHANGED <<sent, mgr>>  BY <1>4 DEF HandleUpdate
      <4>3. QED  BY <4>1, <4>2 DEF Flushing, NoMessage
    <3>3. QED  BY <3>1, <3>2
  <2>5. QED  BY <1>4, <2>3, <2>4 DEF HandleUpdate
<1>5. CASE HandlePing
  <2>1. serving \in Client /\ client[serving] = "pinging"
    <3>1. serving \in Client /\ inbox[serving] = 0  BY <1>0, <1>5 DEF HandlePing, TypeOK, Ping
    <3>2. Flushing(serving)  BY <3>1
    <3>3. client[serving] \in {"start", "ready", "waiting", "pinging", "done", "failed"}
      BY <1>0, <3>1 DEF TypeOK
    <3>4. mgr # "dead"  BY <1>5 DEF HandlePing
    <3>5. QED  BY <3>1, <3>2, <3>3, <3>4 DEF Flushing, NoMessage
  <2>2. QED  BY <1>0, <1>5, <2>1 DEF HandlePing, TypeOK, Flushing, NoMessage
<1>6. CASE CountLoops
  BY <1>0, <1>6 DEF CountLoops, TypeOK, Flushing, NoMessage
<1>7. CASE AnswerPing
  <2>1. serving \in Client  BY <1>7 DEF AnswerPing
  <2>2. TypeOK'  BY <1>0, <1>7, <2>1 DEF AnswerPing, TypeOK, Reply, NoMessage
  <2>3. ASSUME NEW c \in Client PROVE Flushing(c)'
    <3>1. CASE c = serving
      <4>1. client'[c] = "done" /\ inbox'[c] = NoMessage
        BY <1>0, <1>7, <3>1 DEF AnswerPing, Reply, TypeOK
      <4>2. QED  BY <4>1 DEF Flushing
    <3>2. CASE c # serving
      <4>1. client'[c] = client[c] /\ inbox'[c] = inbox[c]
        BY <1>0, <1>7, <3>2 DEF AnswerPing, Reply, TypeOK
      <4>2. UNCHANGED sent /\ mgr # "dead"  BY <1>7 DEF AnswerPing
      <4>3. QED  BY <4>1, <4>2 DEF Flushing, NoMessage
    <3>3. QED  BY <3>1, <3>2
  <2>4. QED  BY <1>7, <2>2, <2>3 DEF AnswerPing
<1>8. CASE FreeHandled
  BY <1>0, <1>8, EmptySeq DEF FreeHandled, TypeOK, Flushing, NoMessage
<1>9. CASE WaitTurn
  <2>1. queue' \in Seq(Update) /\ pending' \in Seq(Update)
    <3>1. \/ queue' = pending /\ pending' = <<>>
          \/ UNCHANGED <<queue, pending>>
      BY <1>9 DEF WaitTurn, MoveBatch
    <3>2. QED  BY <3>1, EmptySeq DEF TypeOK
  <2>2. queue # <<>> => queue' # <<>>  BY <1>9 DEF WaitTurn, MoveBatch, BatchReady
  <2>3. QED  BY <1>0, <1>9, <2>1, <2>2 DEF WaitTurn, MoveBatch, TypeOK, Flushing, NoMessage, BatchReady
<1>10. CASE WaitEnds
  BY <1>0, <1>10 DEF WaitEnds, TypeOK, Flushing, NoMessage
<1>11. CASE Close
  <2>1. serving \in Client  BY <1>0, <1>11 DEF Close, TypeOK
  <2>2. TypeOK'  BY <1>0, <1>11, <2>1 DEF Close, TypeOK, Reply
  <2>3. ASSUME NEW c \in Client PROVE Flushing(c)'
    <3>1. client'[c] = client[c] \/ (client[c] = "ready" /\ client'[c] = "failed")
      BY <1>0, <1>11 DEF Close, Reply, TypeOK
    <3>2. UNCHANGED <<sent, inbox>> /\ mgr # "dead" /\ mgr' # "dead"  BY <1>11 DEF Close
    <3>3. QED  BY <3>1, <3>2 DEF Flushing, NoMessage
  <2>4. QED  BY <1>11, <2>2, <2>3 DEF Close
<1>12. CASE Push
  <2>1. queue' \in Seq(Update) /\ pending' \in Seq(Update) /\ sigMon' \in BOOLEAN
    BY <1>0, <1>12, EmptySeq DEF Push, MoveBatch, TypeOK, BatchReady
  <2>2. queue # <<>> => queue' # <<>>  BY <1>12 DEF Push, MoveBatch, BatchReady
  <2>3. UNCHANGED <<handled, store, mon, sigMgr, serving, togo, sigterm, cliVars>>
        /\ mgr = "push" /\ mgr' = "choose_wait" /\ emptied' = FALSE
    BY <1>12 DEF Push
  <2>4. QED  BY <1>0, <2>1, <2>2, <2>3 DEF TypeOK, Flushing, NoMessage
<1>13. CASE ChooseWait
  BY <1>0, <1>13 DEF ChooseWait, TypeOK, Flushing, NoMessage
<1>14. CASE Woken
  BY <1>0, <1>14 DEF Woken, TypeOK, Flushing, NoMessage
<1>15. QED
  BY <1>1, <1>2, <1>3, <1>4, <1>5, <1>6, <1>7, <1>8, <1>9, <1>10, <1>11, <1>12, <1>13, <1>14 DEF ManagerStep

\* A client has one message on its way at a time.
LEMMA ClientControl == ASSUME Control, NEW c \in Client, ClientStep(c) PROVE Control'
<1> USE PerFlushAssumption DEF Control, lists, store, monVars, mgrVars, cliVars
<1>0. TypeOK /\ Flushing(c)  OBVIOUS
<1>1. TypeOK'
  <2>1. CASE Connect(c)  BY <1>0, <2>1 DEF Connect, TypeOK
  <2>2. CASE SendUpdate(c)  BY <1>0, <2>2 DEF SendUpdate, TypeOK, NoMessage
  <2>3. CASE SendPing(c)  BY <1>0, <2>3 DEF SendPing, TypeOK, Ping, NoMessage
  <2>4. QED  BY <2>1, <2>2, <2>3 DEF ClientStep
<1>2. Flushing(c)'
  <2>1. CASE Connect(c)
    <3>1. /\ client[c] = "start" /\ client'[c] = IF mgr = "dead" THEN "failed" ELSE "ready"
          /\ UNCHANGED <<sent, inbox, mgr>>
      BY <1>0, <2>1 DEF Connect, TypeOK
    <3>2. QED  BY <1>0, <3>1 DEF Flushing, NoMessage
  <2>2. CASE SendUpdate(c)
    <3>1. client'[c] = "waiting" /\ sent'[c] = sent[c] + 1 /\ inbox'[c] = sent'[c] /\ sent[c] < PerFlush
      BY <1>0, <2>2 DEF SendUpdate, TypeOK
    <3>2. sent[c] \in 0..PerFlush  BY <1>0 DEF TypeOK
    <3>3. QED  BY <3>1, <3>2 DEF Flushing
  <2>3. CASE SendPing(c)
    <3>1. client'[c] = "pinging" /\ sent'[c] = PerFlush /\ inbox'[c] = Ping
      BY <1>0, <2>3 DEF SendPing, TypeOK
    <3>2. QED  BY <3>1 DEF Flushing
  <2>4. QED  BY <2>1, <2>2, <2>3 DEF ClientStep
<1>3. /\ \A d \in Client \ {c} : client'[d] = client[d] /\ sent'[d] = sent[d] /\ inbox'[d] = inbox[d]
      /\ UNCHANGED <<pending, queue, mon, mgr, serving>>
      /\ client[c] # "pinging"
  BY <1>0 DEF ClientStep, Connect, SendUpdate, SendPing, TypeOK
<1>4. ASSUME NEW d \in Client PROVE Flushing(d)'
  BY <1>2, <1>3 DEF Flushing, NoMessage
<1>5. (Alive /\ TakenIsThere /\ QueueRests /\ PendingRests)'
  BY <1>3 DEF Alive, TakenIsThere, QueueRests, PendingRests
<1>6. PingIsHeld'
  BY <1>3 DEF PingIsHeld
<1>7. QED  BY <1>1, <1>4, <1>5, <1>6

\* When mdmon has gone the lists are empty, and nothing is promised any more.
LEMMA EndControl == Control /\ (SigTerm \/ Killed \/ Exit) => Control'
<1> SUFFICES ASSUME Control, SigTerm \/ Killed \/ Exit PROVE Control'  OBVIOUS
<1> USE ClientAssumption, PerFlushAssumption DEF Control, lists, store, monVars, mgrVars, cliVars
<1> USE DEF Alive, TakenIsThere, QueueRests, PendingRests, PingIsHeld
<1>0. TypeOK  OBVIOUS
<1>1. CASE SigTerm
  BY <1>0, <1>1 DEF SigTerm, TypeOK, Flushing, NoMessage
<1>2. CASE Gone
  <2>1. TypeOK'
    <3>1. <<>> \in Seq(Update)  BY EmptySeq
    <3>2. client' \in [Client -> {"start", "ready", "waiting", "pinging", "done", "failed"}]
      BY <1>2 DEF Gone, TypeOK
    <3>3. sigMon' \in BOOLEAN /\ sigMgr' \in BOOLEAN /\ emptied' \in BOOLEAN  BY <1>2 DEF Gone
    <3>4. /\ pending' = <<>> /\ queue' = <<>> /\ handled' = <<>> /\ togo' = 0
          /\ mon' = "dead" /\ mgr' = "dead" /\ serving' = NoClient
          /\ UNCHANGED <<applied, disk, sigterm, sent, inbox, acked>>
      BY <1>2 DEF Gone
    <3>5. QED  BY <3>1, <3>2, <3>3, <3>4 DEF TypeOK
  <2>2. ASSUME NEW c \in Client PROVE Flushing(c)'
    <3>1. client'[c] = CASE client[c] = "pinging" -> "done"
                         [] client[c] \in {"ready", "waiting"} -> "failed"
                         [] OTHER -> client[c]
      BY <1>2 DEF Gone
    <3>2. client[c] \in {"start", "ready", "waiting", "pinging", "done", "failed"}  BY <1>0 DEF TypeOK
    <3>3. client'[c] \in {"start", "done", "failed"} /\ (client'[c] = "start" => client[c] = "start")
      BY <3>1, <3>2
    <3>4. UNCHANGED <<sent, inbox>> /\ mgr' = "dead"  BY <1>2 DEF Gone
    <3>5. QED  BY <3>3, <3>4 DEF Flushing, NoMessage
  <2>3. QED  BY <1>2, <2>1, <2>2 DEF Gone
<1>3. QED  BY <1>1, <1>2 DEF Killed, Exit

-----------------------------------------------------------------------------
(* The route of the updates.                                                *)

\* An element that is put at the end of the last part is at the end of the whole.
LEMMA AppendConcat ==
  ASSUME NEW S, NEW s \in Seq(S), NEW t \in Seq(S), NEW u \in S
  PROVE  s \o Append(t, u) = Append(s \o t, u)
<1>1. Append(t, u) \in Seq(S) /\ s \o t \in Seq(S)  BY ConcatProperties
<1>2. s \o Append(t, u) \in Seq(S) /\ Append(s \o t, u) \in Seq(S)  BY <1>1, ConcatProperties
<1>3. Len(s \o Append(t, u)) = Len(Append(s \o t, u))  BY <1>1, ConcatProperties
<1>4. ASSUME NEW i \in 1..Len(s \o Append(t, u)) PROVE (s \o Append(t, u))[i] = Append(s \o t, u)[i]
  <2>1. /\ Len(s) \in Nat /\ Len(t) \in Nat
        /\ Len(Append(t, u)) = Len(t) + 1 /\ Len(s \o t) = Len(s) + Len(t)
        /\ i \in 1..(Len(s) + Len(t) + 1)
    BY <1>1, ConcatProperties
  <2>2. (s \o Append(t, u))[i] = IF i <= Len(s) THEN s[i] ELSE Append(t, u)[i - Len(s)]
    <3> DEFINE a == Append(t, u)
    <3>1. a \in Seq(S) /\ i \in 1..(Len(s) + Len(a))  BY <1>1, <2>1
    <3> HIDE DEF a
    <3>2. (s \o a)[i] = IF i <= Len(s) THEN s[i] ELSE a[i - Len(s)]  BY <3>1, ConcatProperties
    <3>3. QED  BY <3>2 DEF a
  <2>3. CASE i <= Len(s) + Len(t)
    <3>1. Append(s \o t, u)[i] = (s \o t)[i]  BY <1>1, <2>1, <2>3
    <3>2. (s \o t)[i] = IF i <= Len(s) THEN s[i] ELSE t[i - Len(s)]
      BY <2>1, <2>3, ConcatProperties
    <3>3. i > Len(s) => Append(t, u)[i - Len(s)] = t[i - Len(s)]  BY <2>1, <2>3
    <3>4. QED  BY <2>1, <2>2, <3>1, <3>2, <3>3
  <2>4. CASE i = Len(s) + Len(t) + 1
    <3>1. Append(s \o t, u)[i] = u  BY <1>1, <2>1, <2>4
    <3>2. Append(t, u)[i - Len(s)] = u  BY <2>1, <2>4
    <3>3. QED  BY <2>1, <2>2, <2>4, <3>1, <3>2
  <2>5. QED  BY <2>1, <2>3, <2>4
<1>5. QED  BY <1>2, <1>3, <1>4, SeqEqual

\* What is put at the end, and is later than all of its sender, keeps the order.
LEMMA SortedAppend ==
  ASSUME NEW s \in Seq(Update), NEW u \in Update, Sorted(s),
         \A i \in DOMAIN s : s[i][1] = u[1] => s[i][2] < u[2]
  PROVE  Sorted(Append(s, u))
<1> DEFINE a == Append(s, u)
<1>1. /\ DOMAIN a = 1..(Len(s) + 1) /\ DOMAIN s = 1..Len(s) /\ Len(s) \in Nat
      /\ \A i \in 1..Len(s) : a[i] = s[i]
      /\ a[Len(s) + 1] = u
  OBVIOUS
<1>2. ASSUME NEW i \in DOMAIN a, NEW j \in DOMAIN a, i < j, a[i][1] = a[j][1] PROVE a[i][2] < a[j][2]
  <2> HIDE DEF a
  <2>1. i \in DOMAIN s /\ a[i] = s[i]  BY <1>1, <1>2
  <2>2. CASE j \in DOMAIN s  BY <1>1, <1>2, <2>1, <2>2 DEF Sorted
  <2>3. CASE j = Len(s) + 1  BY <1>1, <1>2, <2>1, <2>3
  <2>4. QED  BY <1>1, <2>2, <2>3
<1>3. QED  BY <1>2 DEF Sorted

\* The elements of a concatenation are those of its parts.
LEMMA ToSetConcat ==
  ASSUME NEW S, NEW s \in Seq(S), NEW t \in Seq(S)
  PROVE  ToSet(s \o t) = ToSet(s) \cup ToSet(t)
<1>1. DOMAIN s = 1..Len(s) /\ DOMAIN t = 1..Len(t) /\ Len(s) \in Nat /\ Len(t) \in Nat
  OBVIOUS
<1>2. s \o t \in Seq(S) /\ DOMAIN (s \o t) = 1..(Len(s) + Len(t))  BY ConcatProperties
<1>3. \A i \in DOMAIN s : i \in DOMAIN (s \o t) /\ (s \o t)[i] = s[i]  BY <1>1, <1>2, ConcatProperties
<1>4. \A i \in DOMAIN t : Len(s) + i \in DOMAIN (s \o t) /\ (s \o t)[Len(s) + i] = t[i]
  BY <1>1, <1>2, ConcatProperties
<1>5. \A i \in DOMAIN (s \o t) : \/ i \in DOMAIN s
                                 \/ i - Len(s) \in DOMAIN t /\ (s \o t)[i] = t[i - Len(s)]
  BY <1>1, <1>2, ConcatProperties
<1>6. ToSet(s \o t) \subseteq ToSet(s) \cup ToSet(t)  BY <1>3, <1>5 DEF ToSet
<1>7. ToSet(s) \subseteq ToSet(s \o t)  BY <1>3 DEF ToSet
<1>8. ToSet(t) \subseteq ToSet(s \o t)
  <2>1. SUFFICES ASSUME NEW i \in DOMAIN t PROVE t[i] \in ToSet(s \o t)  BY DEF ToSet
  <2>2. QED  BY <1>4 DEF ToSet
<1>9. QED  BY <1>6, <1>7, <1>8

\* The same for what is put at the end.
LEMMA ToSetAppend ==
  ASSUME NEW S, NEW s \in Seq(S), NEW u \in S
  PROVE  ToSet(Append(s, u)) = ToSet(s) \cup {u}
<1>1. /\ DOMAIN s = 1..Len(s) /\ DOMAIN Append(s, u) = 1..(Len(s) + 1) /\ Len(s) \in Nat
      /\ \A i \in 1..Len(s) : Append(s, u)[i] = s[i]
      /\ Append(s, u)[Len(s) + 1] = u
  OBVIOUS
<1>2. \A i \in DOMAIN Append(s, u) : i \in DOMAIN s \/ i = Len(s) + 1  BY <1>1
<1>3. QED  BY <1>1, <1>2 DEF ToSet

\* The route is a sequence of updates.
LEMMA RouteType ==
  ASSUME TypeOK
  PROVE  /\ <<>> \in Seq(Update) /\ Batch \in Seq(Update) /\ Batch \o pending \in Seq(Update)
         /\ Route \in Seq(Update)
         /\ ToSet(Route) = ToSet(applied) \cup (ToSet(Batch) \cup ToSet(pending))
<1>0. applied \in Seq(Update) /\ queue \in Seq(Update) /\ pending \in Seq(Update)  BY DEF TypeOK
<1>1. <<>> \in Seq(Update)  BY EmptySeq
<1>2. Batch \in Seq(Update)  BY <1>0, <1>1 DEF Batch
<1> DEFINE rest == Batch \o pending
<1>3. rest \in Seq(Update) /\ applied \o rest \in Seq(Update)
  <2>1. rest \in Seq(Update)  BY <1>0, <1>2, ConcatProperties
  <2> HIDE DEF rest
  <2>2. QED  BY <1>0, <2>1, ConcatProperties
<1>4. ToSet(applied \o rest) = ToSet(applied) \cup ToSet(rest)
  <2> HIDE DEF rest
  <2>1. QED  BY <1>0, <1>3, ToSetConcat
<1>5. ToSet(rest) = ToSet(Batch) \cup ToSet(pending)
  BY <1>0, <1>2, ToSetConcat
<1>6. QED  BY <1>1, <1>2, <1>3, <1>4, <1>5 DEF Route

\* The monitor moves the border between what is applied and the batch.
LEMMA MonitorRoute == Control /\ (MonitorStep \/ Notified) => Route' = Route
<1> SUFFICES ASSUME Control, MonitorStep \/ Notified PROVE Route' = Route  OBVIOUS
<1> USE DEF lists, store, MonitorGoes
<1>0. TypeOK  BY DEF Control
<1>1. CASE Apply
  <2>1. /\ applied' = applied \o queue /\ pending' = pending
        /\ Batch = queue /\ Batch' = <<>>
    BY <1>1 DEF Apply, Batch, Passing
  <2>2. <<>> \o pending = pending  BY <1>0, ConcatEmptySeq DEF TypeOK
  <2>3. (applied \o queue) \o pending = applied \o (queue \o pending)
    <3>1. applied \in Seq(Update) /\ queue \in Seq(Update) /\ pending \in Seq(Update)
      BY <1>0 DEF TypeOK
    <3>2. QED  BY <3>1, ConcatAssociative
  <2>4. QED  BY <2>1, <2>2, <2>3 DEF Route
<1>2. CASE (MonitorStep \/ Notified) /\ ~Apply
  <2>1. /\ UNCHANGED <<applied, pending>>
        /\ Batch' = Batch
    BY <1>1, <1>2 DEF MonitorStep, Select, Signalled, Notified, CheckQueue, PassBack, Clear, SyncMetadata, Batch, Passing
  <2>2. QED  BY <2>1 DEF Route
<1>3. QED  BY <1>1, <1>2

\* The manager moves the border between the batch and what is pending.
LEMMA MoveRoute ==
  ASSUME Control, UNCHANGED <<applied, mon>>,
         \/ BatchReady /\ queue' = pending /\ pending' = <<>>
         \/ UNCHANGED <<queue, pending>>
  PROVE  Route' = Route
<1>0. TypeOK  BY DEF Control
<1>1. CASE UNCHANGED <<queue, pending>>  BY <1>1 DEF Route, Batch, Passing
<1>2. CASE BatchReady /\ queue' = pending /\ pending' = <<>>
  <2>1. ~Passing /\ ~Passing'  BY <1>2 DEF Control, TakenIsThere, Passing, BatchReady
  <2>2. Batch = <<>> /\ Batch' = pending  BY <1>2, <2>1 DEF Batch, BatchReady
  <2>3. <<>> \o pending = pending /\ pending \o <<>> = pending
    BY <1>0, ConcatEmptySeq DEF TypeOK
  <2>4. QED  BY <1>2, <2>2, <2>3 DEF Route
<1>3. QED  BY <1>1, <1>2

\* A new update goes to the end of the route.
LEMMA AppendRoute ==
  ASSUME TypeOK, NEW u \in Update, pending' = Append(pending, u), UNCHANGED <<applied, mon, queue>>
  PROVE  Route' = Append(Route, u)
<1>1. Batch' = Batch  BY DEF Batch, Passing
<1>2. /\ applied \in Seq(Update) /\ pending \in Seq(Update)
      /\ Batch \in Seq(Update) /\ Batch \o pending \in Seq(Update)
  BY RouteType DEF TypeOK
<1> DEFINE rest == Batch \o pending
<1>3. Batch \o Append(pending, u) = Append(rest, u)  BY <1>2, AppendConcat
<1>4. applied \o Append(rest, u) = Append(applied \o rest, u)
  <2>1. rest \in Seq(Update)  BY <1>2
  <2> HIDE DEF rest
  <2>2. QED  BY <1>2, <2>1, AppendConcat
<1>5. QED  BY <1>1, <1>3, <1>4 DEF Route

-----------------------------------------------------------------------------
(* RouteInOrder: once and in order.                                         *)

\* Nothing was received at the start.
LEMMA InitRoute == Init => RouteInOrder
<1> SUFFICES ASSUME Init PROVE RouteInOrder  OBVIOUS
<1>1. Batch = <<>> /\ pending = <<>> /\ applied = <<>>  BY DEF Init, Batch
<1>2. Route = <<>>
  <2>1. <<>> \in Seq(Update)  BY EmptySeq
  <2>2. <<>> \o <<>> = <<>>  BY <2>1, ConcatEmptySeq
  <2>3. QED  BY <1>1, <2>2 DEF Route
<1>3. DOMAIN Route = {}  BY <1>2
<1>4. QED  BY <1>3 DEF RouteInOrder, Sorted

\* A client goes on from what it sent, and takes back no message.
GoesOn(c) == /\ sent[c] <= sent'[c]
             /\ inbox'[c] = inbox[c] \/ inbox'[c] \notin 1..sent[c]
             /\ mgr = "dead" => mgr' = "dead"

\* Received(u) after the step.
ReceivedThen(u) == u[1] \in Client => /\ u[2] <= sent'[u[1]]
                                      /\ inbox'[u[1]] = u[2] => mgr' = "dead"

\* What was received stays so while the clients go on.
LEMMA ReceivedStays ==
  ASSUME TypeOK, \A c \in Client : GoesOn(c), sent' \in [Client -> Nat],
         NEW u \in Update, Received(u)
  PROVE  ReceivedThen(u)
<1> SUFFICES ASSUME u[1] \in Client
             PROVE  u[2] <= sent'[u[1]] /\ (inbox'[u[1]] = u[2] => mgr' = "dead")
  BY DEF ReceivedThen
<1> DEFINE c == u[1]
<1>1. u[2] \in 1..PerFlush  BY ClientAssumption DEF Update
<1>2. sent[c] \in 0..PerFlush /\ sent'[c] \in Nat  BY DEF TypeOK
<1>3. u[2] <= sent[c] /\ (inbox[c] = u[2] => mgr = "dead")  BY DEF Received
<1>4. GoesOn(c)  OBVIOUS
<1> HIDE DEF c
<1>5. u[2] \in 1..sent[c]  BY <1>1, <1>2, <1>3
<1>6. u[2] <= sent'[c]  BY <1>1, <1>2, <1>3, <1>4, PerFlushAssumption DEF GoesOn
<1>7. inbox'[c] = u[2] => mgr' = "dead"  BY <1>3, <1>4, <1>5 DEF GoesOn
<1>8. QED  BY <1>6, <1>7 DEF c

\* The elements of the route are updates, and received.
LEMMA OnRoute ==
  ASSUME TypeOK, RouteInOrder, NEW i \in DOMAIN Route
  PROVE  Route[i] \in Update /\ Received(Route[i])
BY RouteType, LenProperties, ElementOfSeq DEF RouteInOrder

\* A route that stays, or is cut off, is in order while the clients go on.
LEMMA RouteStays ==
  ASSUME TypeOK, RouteInOrder, \A c \in Client : GoesOn(c), sent' \in [Client -> Nat],
         DOMAIN Route' \subseteq DOMAIN Route, \A i \in DOMAIN Route' : Route'[i] = Route[i]
  PROVE  RouteInOrder'
<1>1. Sorted(Route)'  BY DEF RouteInOrder, Sorted
<1>2. ASSUME NEW i \in DOMAIN Route' PROVE ReceivedThen(Route'[i])
  <2>1. Route[i] \in Update /\ Received(Route[i])  BY OnRoute
  <2>2. ReceivedThen(Route[i])  BY <2>1, ReceivedStays
  <2>3. QED  BY <2>2 DEF ReceivedThen
<1>3. QED  BY <1>1, <1>2 DEF RouteInOrder, Received, ReceivedThen

\* So is one that gets a later update of its sender at the end.
LEMMA RouteGrows ==
  ASSUME TypeOK, RouteInOrder, \A c \in Client : GoesOn(c), sent' \in [Client -> Nat],
         NEW u \in Update, Route' = Append(Route, u), ReceivedThen(u),
         \A i \in DOMAIN Route : Route[i][1] = u[1] => Route[i][2] < u[2]
  PROVE  RouteInOrder'
<1>1. Route \in Seq(Update)  BY RouteType
<1>2. Sorted(Append(Route, u))  BY <1>1, SortedAppend DEF RouteInOrder
<1>3. Sorted(Route)'  BY <1>2 DEF Sorted
<1>4. /\ DOMAIN Append(Route, u) = 1..(Len(Route) + 1) /\ DOMAIN Route = 1..Len(Route)
      /\ Len(Route) \in Nat /\ Append(Route, u)[Len(Route) + 1] = u
      /\ \A i \in 1..Len(Route) : Append(Route, u)[i] = Route[i]
  BY <1>1
<1>5. ASSUME NEW i \in DOMAIN Route' PROVE ReceivedThen(Route'[i])
  <2>1. CASE i \in DOMAIN Route
    <3>1. Route[i] \in Update /\ Received(Route[i])  BY <2>1, OnRoute
    <3>2. ReceivedThen(Route[i])  BY <3>1, ReceivedStays
    <3>3. Route'[i] = Route[i]  BY <1>4, <2>1
    <3>4. QED  BY <3>2, <3>3 DEF ReceivedThen
  <2>2. CASE i = Len(Route) + 1
    <3>1. Route'[i] = u  BY <1>4, <2>2
    <3>2. QED  BY <3>1 DEF ReceivedThen
  <2>3. QED  BY <1>4, <2>1, <2>2
<1>6. QED  BY <1>3, <1>5 DEF RouteInOrder, Received, ReceivedThen

\* An update on its way is the last its client sent, and the client waits for its answer.
LEMMA LastSent ==
  ASSUME Control, mgr # "dead", NEW c \in Client, inbox[c] \in 1..PerFlush
  PROVE  client[c] = "waiting" /\ sent[c] = inbox[c]
<1>1. Flushing(c)  BY DEF Control
<1>2. client[c] \in {"start", "ready", "waiting", "pinging", "done", "failed"}
  BY DEF Control, TypeOK
<1>3. inbox[c] # NoMessage /\ inbox[c] # Ping  BY PerFlushAssumption DEF NoMessage, Ping
<1>4. QED  BY <1>1, <1>2, <1>3 DEF Flushing

\* The steps of the monitor.
LEMMA MonitorInOrder == Control /\ RouteInOrder /\ (MonitorStep \/ Notified) => RouteInOrder'
<1> SUFFICES ASSUME Control, RouteInOrder, MonitorStep \/ Notified PROVE RouteInOrder'  OBVIOUS
<1>1. TypeOK /\ Route' = Route  BY MonitorRoute DEF Control
<1>2. UNCHANGED <<client, sent, inbox, mgr>>
  BY DEF MonitorStep, Select, Signalled, Notified, CheckQueue, Apply, PassBack, Clear, SyncMetadata,
         MonitorGoes, mgrVars, cliVars
<1>3. sent \in [Client -> Nat]  BY <1>1, PerFlushAssumption DEF TypeOK
<1>4. \A c \in Client : GoesOn(c)  BY <1>2, <1>3 DEF GoesOn
<1>5. QED  BY <1>1, <1>2, <1>3, <1>4, RouteStays

\* The manager's steps: an update it takes from the socket is the last its client sent.
LEMMA ManagerInOrder == Control /\ RouteInOrder /\ ManagerStep => RouteInOrder'
<1> SUFFICES ASSUME Control, RouteInOrder, ManagerStep PROVE RouteInOrder'  OBVIOUS
<1> USE DEF lists, store, monVars, mgrVars, cliVars, ManagerGoes
<1>1. TypeOK /\ sent \in [Client -> Nat]  BY PerFlushAssumption DEF Control, TypeOK
<1>2. UNCHANGED sent
  BY DEF ManagerStep, Top, Manage, Accept, HandleUpdate, HandlePing, CountLoops, AnswerPing,
         FreeHandled, WaitTurn, WaitEnds, Close, Push, ChooseWait, Woken
<1>3. mgr # "dead"
  BY DEF ManagerStep, Top, Manage, Accept, HandleUpdate, HandlePing, CountLoops, AnswerPing,
         FreeHandled, WaitTurn, WaitEnds, Close, Push, ChooseWait, Woken
<1>4. ASSUME NEW c \in Client PROVE inbox'[c] = inbox[c] \/ inbox'[c] = NoMessage
  <2>1. CASE HandleUpdate  BY <1>1, <2>1 DEF HandleUpdate, TypeOK
  <2>2. CASE AnswerPing  BY <1>1, <2>2 DEF AnswerPing, TypeOK
  <2>3. CASE ~HandleUpdate /\ ~AnswerPing
    <3>1. inbox' = inbox
      BY <2>3 DEF ManagerStep, Top, Manage, Accept, HandlePing, CountLoops,
                  FreeHandled, WaitTurn, WaitEnds, Close, Push, ChooseWait, Woken
    <3>2. QED  BY <3>1
  <2>4. QED  BY <2>1, <2>2, <2>3
<1>5. \A c \in Client : GoesOn(c)
  <2>1. ASSUME NEW c \in Client PROVE sent[c] \in 0..PerFlush  BY <1>1 DEF TypeOK
  <2>2. QED  BY <1>2, <1>3, <1>4, <2>1, PerFlushAssumption DEF GoesOn, NoMessage
<1>6. CASE Manage
  <2>1. UNCHANGED <<applied, mon, queue>>  BY <1>6 DEF Manage
  <2>2. \/ pending' = pending
        \/ HasOwnUpdate /\ pending' = Append(pending, OwnUpdate)
        \/ HasOwnUpdate /\ pending = <<>> /\ pending' = <<OwnUpdate>>
    BY <1>6 DEF Manage, Queued
  <2>3. CASE pending' = pending
    <3>1. Route' = Route  BY <2>1, <2>3 DEF Route, Batch, Passing
    <3>2. QED  BY <1>1, <1>2, <1>5, <3>1, RouteStays
  <2>4. CASE HasOwnUpdate /\ pending' = Append(pending, OwnUpdate)
    <3>1. OwnUpdate \in Update /\ OwnUpdate[1] \notin Client  BY ClientAssumption DEF OwnUpdate, Update
    <3>2. Route' = Append(Route, OwnUpdate)  BY <1>1, <2>1, <2>4, <3>1, AppendRoute
    <3>3. OwnUpdate \notin ToSet(Route)
      <4>1. pending \in Seq(Update) /\ queue \in Seq(Update) /\ applied \in Seq(Update)  BY <1>1 DEF TypeOK
      <4> DEFINE waiting == pending \o queue
      <4>2. waiting \in Seq(Update) /\ ToSet(waiting) = ToSet(pending) \cup ToSet(queue)
        BY <4>1, ConcatProperties, ToSetConcat
      <4>3. ToSet(waiting \o applied) = ToSet(waiting) \cup ToSet(applied)
        <5> HIDE DEF waiting
        <5>1. QED  BY <4>1, <4>2, ToSetConcat
      <4>4. ToSet(Batch) \subseteq ToSet(queue)  BY DEF Batch, ToSet
      <4>5. OwnUpdate \notin ToSet(waiting \o applied)  BY <2>4 DEF HasOwnUpdate
      <4>6. ToSet(Route) = ToSet(applied) \cup (ToSet(Batch) \cup ToSet(pending))  BY <1>1, RouteType
      <4> HIDE DEF waiting
      <4>7. QED  BY <4>2, <4>3, <4>4, <4>5, <4>6
    <3>4. \A i \in DOMAIN Route : Route[i] # OwnUpdate  BY <3>3 DEF ToSet
    <3>5. ASSUME NEW i \in DOMAIN Route, Route[i][1] = OwnUpdate[1] PROVE FALSE
      <4>1. Route[i] \in Update  BY <1>1, OnRoute
      <4>2. Route[i] = OwnUpdate  BY <3>1, <3>5, <4>1 DEF Update, OwnUpdate
      <4>3. QED  BY <3>4, <4>2
    <3>6. ReceivedThen(OwnUpdate)  BY <3>1 DEF ReceivedThen
    <3>7. QED  BY <1>1, <1>2, <1>5, <3>1, <3>2, <3>5, <3>6, RouteGrows
  <2>5. CASE HasOwnUpdate /\ pending = <<>> /\ pending' = <<OwnUpdate>>
    <3>1. pending' = Append(pending, OwnUpdate)  BY <2>5
    <3>2. QED  BY <2>4, <2>5, <3>1
  <2>6. QED  BY <2>2, <2>3, <2>4, <2>5
<1>7. CASE HandleUpdate
  <2>1. UNCHANGED <<applied, mon, queue, sent, mgr>>  BY <1>7 DEF HandleUpdate
  <2> DEFINE u == <<serving, inbox[serving]>>
  <2>2. pending' = pending \/ pending' = Append(pending, u)  BY <1>7 DEF HandleUpdate, Queued
  <2>3. CASE pending' = pending
    <3>1. Route' = Route  BY <2>1, <2>3 DEF Route, Batch, Passing
    <3>2. QED  BY <1>1, <1>2, <1>5, <3>1, RouteStays
  <2>4. CASE pending' = Append(pending, u)
    <3>1. serving \in Client /\ inbox[serving] \in 1..PerFlush  BY <1>1, <1>7 DEF HandleUpdate, TypeOK
    <3>2. u \in Update /\ u[1] = serving /\ u[2] = inbox[serving]  BY <3>1 DEF Update
    <3>3. Route' = Append(Route, u)  BY <1>1, <2>1, <2>4, <3>2, AppendRoute
    <3>4. ASSUME NEW i \in DOMAIN Route, Route[i][1] = u[1] PROVE Route[i][2] < u[2]
      <4>1. Route[i] \in Update /\ Received(Route[i])  BY <1>1, OnRoute
      <4>2. Route[i][2] \in 1..PerFlush  BY <3>1, <3>2, <3>4, <4>1, ClientAssumption DEF Update
      <4>3. Route[i][2] <= sent[serving] /\ inbox[serving] # Route[i][2]
        BY <1>3, <3>1, <3>2, <3>4, <4>1 DEF Received
      <4>4. sent[serving] = inbox[serving]  BY <1>3, <3>1, LastSent DEF Control
      <4>5. QED  BY <3>1, <3>2, <4>2, <4>3, <4>4
    <3>5. ReceivedThen(u)
      <4>1. sent'[serving] = inbox[serving]  BY <1>2, <1>3, <3>1, LastSent DEF Control
      <4>2. inbox'[serving] = NoMessage  BY <1>1, <1>7, <3>1 DEF HandleUpdate, TypeOK
      <4>3. QED  BY <3>1, <3>2, <4>1, <4>2, PerFlushAssumption DEF ReceivedThen, NoMessage
    <3>6. QED
      <4> HIDE DEF u
      <4>1. QED  BY <1>1, <1>2, <1>5, <3>2, <3>3, <3>4, <3>5, RouteGrows
  <2>5. QED  BY <2>2, <2>3, <2>4
<1>8. CASE ~Manage /\ ~HandleUpdate
  <2>1. /\ UNCHANGED <<applied, mon>>
        /\ \/ BatchReady /\ queue' = pending /\ pending' = <<>>
           \/ UNCHANGED <<queue, pending>>
    BY <1>8 DEF ManagerStep, Top, Accept, HandlePing, CountLoops, AnswerPing,
         FreeHandled, WaitTurn, WaitEnds, Close, Push, ChooseWait, Woken, MoveBatch
  <2>2. Route' = Route  BY <2>1, MoveRoute
  <2>3. QED  BY <1>1, <1>2, <1>5, <2>2, RouteStays
<1>9. QED  BY <1>6, <1>7, <1>8

\* The clients' steps: a message has a number that was not used.
LEMMA ClientInOrder ==
  ASSUME Control, RouteInOrder, NEW c \in Client, ClientStep(c) PROVE RouteInOrder'
<1> USE DEF lists, store, monVars, mgrVars, cliVars
<1>1. TypeOK /\ sent \in [Client -> Nat] /\ \A d \in Client : sent[d] \in 0..PerFlush
  BY PerFlushAssumption DEF Control, TypeOK
<1>2. UNCHANGED <<applied, mon, queue, pending, mgr>>
  BY DEF ClientStep, Connect, SendUpdate, SendPing
<1>3. Route' = Route  BY <1>2 DEF Route, Batch, Passing
<1>4. /\ \A d \in Client \ {c} : sent'[d] = sent[d] /\ inbox'[d] = inbox[d]
      /\ \/ sent'[c] = sent[c] /\ inbox'[c] = inbox[c]
         \/ sent'[c] = sent[c] + 1 /\ inbox'[c] = sent[c] + 1
         \/ sent'[c] = sent[c] /\ inbox'[c] = 0
  BY <1>1 DEF ClientStep, Connect, SendUpdate, SendPing, TypeOK, Ping
<1>5. sent' \in [Client -> Nat]
  BY <1>1 DEF ClientStep, Connect, SendUpdate, SendPing
<1>6. ASSUME NEW d \in Client PROVE GoesOn(d)
  <2>1. CASE d = c  BY <1>1, <1>2, <1>4, <2>1 DEF GoesOn
  <2>2. CASE d # c  BY <1>1, <1>2, <1>4, <2>2 DEF GoesOn
  <2>3. QED  BY <2>1, <2>2
<1>7. QED  BY <1>1, <1>3, <1>5, <1>6, RouteStays

\* What is left when mdmon has gone is what was applied.
LEMMA EndInOrder == Control /\ RouteInOrder /\ (SigTerm \/ Killed \/ Exit) => RouteInOrder'
<1> SUFFICES ASSUME Control, RouteInOrder, SigTerm \/ Killed \/ Exit PROVE RouteInOrder'  OBVIOUS
<1> USE DEF lists, store, monVars, mgrVars, cliVars
<1>1. TypeOK /\ sent \in [Client -> Nat]  BY PerFlushAssumption DEF Control, TypeOK
<1>2. UNCHANGED <<applied, sent, inbox>> /\ (mgr = "dead" => mgr' = "dead")
  BY DEF SigTerm, Killed, Exit, Gone
<1>3. \A c \in Client : GoesOn(c)  BY <1>1, <1>2 DEF GoesOn
<1>4. CASE SigTerm
  <2>1. Route' = Route  BY <1>4 DEF SigTerm, Route, Batch, Passing
  <2>2. QED  BY <1>1, <1>2, <1>3, <2>1, RouteStays
<1>5. CASE Gone
  <2>1. applied \in Seq(Update) /\ Batch \o pending \in Seq(Update)  BY <1>1, RouteType DEF TypeOK
  <2>2. Batch' = <<>> /\ pending' = <<>>  BY <1>5 DEF Gone, Batch
  <2>3. Route' = applied
    <3>1. <<>> \o <<>> = <<>> /\ applied \o <<>> = applied
      BY <1>1, <2>1, RouteType, ConcatEmptySeq
    <3>2. QED  BY <1>2, <2>2, <3>1 DEF Route
  <2>4. DOMAIN applied \subseteq DOMAIN Route /\ \A i \in DOMAIN applied : Route[i] = applied[i]
    <3> DEFINE rest == Batch \o pending
    <3>1. rest \in Seq(Update)  BY <2>1
    <3> HIDE DEF rest
    <3>2. /\ applied \o rest \in Seq(Update) /\ Len(applied \o rest) = Len(applied) + Len(rest)
          /\ \A i \in 1 .. Len(applied) + Len(rest) : (applied \o rest)[i] =
                 IF i <= Len(applied) THEN applied[i] ELSE rest[i - Len(applied)]
      BY <2>1, <3>1, ConcatProperties
    <3>3. DOMAIN applied = 1..Len(applied) /\ Len(applied) \in Nat /\ Len(rest) \in Nat
          /\ DOMAIN (applied \o rest) = 1..(Len(applied) + Len(rest))
      BY <2>1, <3>1, <3>2, LenProperties
    <3>4. DOMAIN applied \subseteq DOMAIN (applied \o rest)
          /\ \A i \in DOMAIN applied : (applied \o rest)[i] = applied[i]
      BY <3>2, <3>3
    <3>5. QED  BY <3>4 DEF Route, rest
  <2>5. QED  BY <1>1, <1>2, <1>3, <2>3, <2>4, RouteStays
<1>6. QED  BY <1>4, <1>5 DEF Killed, Exit

-----------------------------------------------------------------------------
(* Kept: what was acknowledged is not lost, what was flushed is on the disks. *)

\* Nothing was acknowledged at the start.
LEMMA InitKept == Init => Kept
<1> SUFFICES ASSUME Init PROVE Kept  OBVIOUS
<1>1. /\ applied = <<>> /\ disk = {} /\ acked = {} /\ mon = "check" /\ mgr = "top"
      /\ client = [c \in Client |-> "start"]
  BY DEF Init
<1>2. Written  BY <1>1 DEF Written, ToSet
<1>3. NotYetCounted /\ AckedOnRoute  BY <1>1 DEF NotYetCounted, AckedOnRoute
<1>4. FlushedIsWritten /\ \A c \in Client : Answered(c)
  BY <1>1 DEF FlushedIsWritten, Answered
<1>5. QED  BY <1>2, <1>3, <1>4 DEF Kept

\* The monitor writes what it applied before it counts its loop.
LEMMA MonitorKept == Control /\ Kept /\ (MonitorStep \/ Notified) => Kept'
<1> SUFFICES ASSUME Control, Kept, MonitorStep \/ Notified PROVE Kept'  OBVIOUS
<1> USE DEF MonitorGoes
<1>1. UNCHANGED <<mgr, sigterm, client, sent, acked>>
  BY DEF MonitorStep, Select, Signalled, Notified, CheckQueue, Apply, PassBack, Clear, SyncMetadata,
         mgrVars, cliVars
<1>2. Written' /\ disk \subseteq disk'
  <2>1. CASE Apply
    <3>1. applied \in Seq(Update) /\ queue \in Seq(Update)  BY DEF Control, TypeOK
    <3>2. ToSet(applied \o queue) = ToSet(applied) \cup ToSet(queue)  BY <3>1, ToSetConcat
    <3>3. applied' = applied \o queue /\ disk' = disk /\ mon' = "pass_back"  BY <2>1 DEF Apply
    <3>4. disk \subseteq ToSet(applied)  BY DEF Kept, Written
    <3>5. ToSet(applied') = ToSet(applied) \cup ToSet(queue)  BY <3>2, <3>3
    <3>6. ToSet(applied)' = ToSet(applied')  BY DEF ToSet
    <3>7. QED  BY <3>3, <3>4, <3>5, <3>6 DEF Written
  <2>2. CASE SyncMetadata
    <3>1. applied' = applied /\ disk' = ToSet(applied)  BY <2>2 DEF SyncMetadata
    <3>2. QED  BY <3>1 DEF Kept, Written
  <2>3. CASE (MonitorStep \/ Notified) /\ ~Apply /\ ~SyncMetadata
    <3>1. UNCHANGED <<applied, disk>>
      BY <2>3 DEF MonitorStep, Select, Signalled, Notified, CheckQueue, PassBack, Clear, store
    <3>2. mon' \in {"select", "check", "apply", "act"} => mon \in {"select", "check", "apply", "act"}
      BY <2>3 DEF MonitorStep, Select, Signalled, Notified, CheckQueue, PassBack, Clear
    <3>3. QED  BY <3>1, <3>2 DEF Kept, Written
  <2>4. QED  BY <2>1, <2>2, <2>3
<1>3. NotYetCounted'
  <2>1. SUFFICES ASSUME mgr = "ping_wait", mon' = "sync" PROVE FALSE
    BY <1>1 DEF NotYetCounted
  <2>2. mon = "clear"
    BY <2>1 DEF MonitorStep, Select, Signalled, Notified, CheckQueue, Apply, PassBack, Clear, SyncMetadata
  <2>3. QED  BY <2>1, <2>2 DEF Control, TakenIsThere, QueueRests
<1>4. AckedOnRoute'
  <2>1. Route' = Route  BY MonitorRoute
  <2>2. mon # "dead"
    BY DEF MonitorStep, Select, Signalled, Notified, CheckQueue, Apply, PassBack, Clear, SyncMetadata
  <2>3. QED  BY <1>1, <2>1, <2>2 DEF Kept, AckedOnRoute, Serving, ToSet
<1>5. FlushedIsWritten'
  <2>1. mon # "dead"
    BY DEF MonitorStep, Select, Signalled, Notified, CheckQueue, Apply, PassBack, Clear, SyncMetadata
  <2>2. QED  BY <1>1, <1>2, <2>1 DEF Kept, FlushedIsWritten, Serving
<1>6. \A c \in Client : Answered(c)'  BY <1>1 DEF Kept, Answered
<1>7. QED  BY <1>2, <1>3, <1>4, <1>5, <1>6 DEF Kept

\* A ping is answered when all that was acknowledged before is on the disks.
LEMMA PingHasWaited ==
  ASSUME Control, Kept, AnswerPing, Serving
  PROVE  \A n \in 1..PerFlush : <<serving, n>> \in disk
<1>1. mgr = "ping_wait" /\ togo = 0  BY DEF AnswerPing, ManagerGoes
<1>2. serving \in Client /\ client[serving] = "pinging"  BY <1>1 DEF Control, PingIsHeld
<1>3. sent[serving] = PerFlush  BY <1>2 DEF Control, Flushing
<1>4. \A n \in 1..PerFlush : <<serving, n>> \in acked
  BY <1>2, <1>3, PerFlushAssumption DEF Kept, Answered
<1>5. queue = <<>> /\ pending = <<>>  BY <1>1 DEF Control, QueueRests, PendingRests
<1>6. ToSet(Route) = ToSet(applied)
  <2>1. Batch = <<>> /\ ToSet(<<>>) = {}  BY <1>5 DEF Batch, ToSet
  <2>2. QED  BY <1>5, <2>1, RouteType DEF Control
<1>7. acked \subseteq ToSet(applied)  BY <1>6 DEF Kept, AckedOnRoute
<1>8. mon # "sync"  BY <1>1 DEF Kept, NotYetCounted
<1>9. mon \notin {"apply", "pass_back", "clear", "dead"}
  BY <1>5 DEF Control, TakenIsThere, Serving
<1>10. mon \in {"select", "check", "act"}  BY <1>8, <1>9 DEF Control, TypeOK
<1>11. QED  BY <1>4, <1>7, <1>10 DEF Kept, Written

\* The manager acknowledges what it has queued, and answers the ping when it is written.
LEMMA ManagerKept == Control /\ Kept /\ ManagerStep => Kept'
<1> SUFFICES ASSUME Control, Kept, ManagerStep PROVE Kept'  OBVIOUS
<1> USE DEF lists, store, monVars, mgrVars, cliVars, ManagerGoes
<1>0. TypeOK  BY DEF Control
<1>1. UNCHANGED <<applied, disk, mon, sent, sigterm>>
  BY DEF ManagerStep, Top, Manage, Accept, HandleUpdate, HandlePing, CountLoops, AnswerPing,
         FreeHandled, WaitTurn, WaitEnds, Close, Push, ChooseWait, Woken
<1>2. Written'  BY <1>1 DEF Kept, Written
<1>3. NotYetCounted'
  <2>1. CASE CountLoops  BY <1>1, <2>1 DEF CountLoops, NotYetCounted
  <2>2. CASE ~CountLoops
    <3>1. mgr' = "ping_wait" => mgr = "ping_wait" /\ togo' = togo
      BY <2>2 DEF ManagerStep, Top, Manage, Accept, HandleUpdate, HandlePing, AnswerPing,
                  FreeHandled, WaitTurn, WaitEnds, Close, Push, ChooseWait, Woken
    <3>2. QED  BY <1>1, <3>1 DEF Kept, NotYetCounted
  <2>3. QED  BY <2>1, <2>2
<1>4. AckedOnRoute'
  <2>1. SUFFICES ASSUME Serving PROVE acked' \subseteq ToSet(Route')
    <3>1. Serving' = Serving  BY <1>1 DEF Serving
    <3>2. ToSet(Route)' = ToSet(Route')  BY DEF ToSet
    <3>3. QED  BY <3>1, <3>2 DEF AckedOnRoute
  <2>2. Route \in Seq(Update) /\ acked \subseteq ToSet(Route)
    BY <1>0, <2>1, RouteType DEF Kept, AckedOnRoute
  <2>3. CASE HandleUpdate
    <3> DEFINE u == <<serving, inbox[serving]>>
    <3>1. serving \in Client /\ inbox[serving] \in 1..PerFlush  BY <1>0, <2>3 DEF HandleUpdate, TypeOK
    <3>2. u \in Update  BY <3>1 DEF Update
    <3>3. pending' = Append(pending, u) /\ UNCHANGED <<applied, mon, queue>> /\ acked' = acked \cup {u}
      BY <2>1, <2>3 DEF HandleUpdate, Queued, Serving
    <3> HIDE DEF u
    <3>4. Route' = Append(Route, u)  BY <1>0, <3>2, <3>3, AppendRoute
    <3>5. ToSet(Append(Route, u)) = ToSet(Route) \cup {u}  BY <2>2, <3>2, ToSetAppend
    <3>6. ToSet(Route') = ToSet(Route) \cup {u}  BY <3>4, <3>5
    <3>7. QED  BY <2>2, <3>3, <3>6
  <2>4. CASE Manage
    <3>1. UNCHANGED <<applied, mon, queue, acked>>  BY <2>4 DEF Manage
    <3>2. pending' = pending \/ pending' = Append(pending, OwnUpdate)
      <4>1. \/ pending' = pending
            \/ pending' = Append(pending, OwnUpdate)
            \/ pending = <<>> /\ pending' = <<OwnUpdate>>
        BY <2>4 DEF Manage, Queued
      <4>2. pending = <<>> => Append(pending, OwnUpdate) = <<OwnUpdate>>  OBVIOUS
      <4>3. QED  BY <4>1, <4>2
    <3>3. CASE pending' = pending
      <4>1. Route' = Route  BY <3>1, <3>3 DEF Route, Batch, Passing
      <4>2. QED  BY <2>2, <3>1, <4>1
    <3>4. CASE pending' = Append(pending, OwnUpdate)
      <4>1. OwnUpdate \in Update  BY DEF OwnUpdate, Update
      <4>2. Route' = Append(Route, OwnUpdate)  BY <1>0, <3>1, <3>4, <4>1, AppendRoute
      <4>3. ToSet(Append(Route, OwnUpdate)) = ToSet(Route) \cup {OwnUpdate}
        BY <2>2, <4>1, ToSetAppend
      <4>4. ToSet(Route') = ToSet(Route) \cup {OwnUpdate}  BY <4>2, <4>3
      <4>5. QED  BY <2>2, <3>1, <4>4
    <3>5. QED  BY <3>2, <3>3, <3>4
  <2>5. CASE ~Manage /\ ~HandleUpdate
    <3>1. /\ UNCHANGED <<applied, mon, acked>>
          /\ \/ BatchReady /\ queue' = pending /\ pending' = <<>>
             \/ UNCHANGED <<queue, pending>>
      BY <2>5 DEF ManagerStep, Top, Accept, HandlePing, CountLoops, AnswerPing,
         FreeHandled, WaitTurn, WaitEnds, Close, Push, ChooseWait, Woken, MoveBatch
    <3>2. Route' = Route  BY <3>1, MoveRoute
    <3>3. QED  BY <2>2, <3>1, <3>2
  <2>6. QED  BY <2>3, <2>4, <2>5
<1>5. FlushedIsWritten'
  <2>1. SUFFICES ASSUME Serving, NEW c \in Client, client'[c] = "done", NEW n \in 1..PerFlush
                 PROVE  <<c, n>> \in disk
    BY <1>1 DEF FlushedIsWritten, Serving
  <2>2. CASE client[c] = "done"  BY <2>1, <2>2 DEF Kept, FlushedIsWritten
  <2>3. CASE client[c] # "done"
    <3>1. AnswerPing /\ c = serving
      BY <1>0, <2>1, <2>3 DEF ManagerStep, Top, Manage, Accept, HandleUpdate, HandlePing, CountLoops,
         AnswerPing, FreeHandled, WaitTurn, WaitEnds, Close, Push, ChooseWait, Woken, Reply, TypeOK
    <3>2. QED  BY <2>1, <3>1, PingHasWaited
  <2>4. QED  BY <2>2, <2>3
<1>6. ASSUME NEW c \in Client PROVE Answered(c)'
  <2>1. CASE HandleUpdate /\ c = serving
    <3>1. mgr # "dead" /\ inbox[c] \in 1..PerFlush  BY <2>1 DEF HandleUpdate
    <3>2. client[c] = "waiting" /\ sent[c] = inbox[c]  BY <3>1, LastSent
    <3>3. acked' = acked \cup {<<c, sent[c]>>} /\ client'[c] = "ready" /\ sent' = sent
      BY <1>0, <2>1, <3>2 DEF HandleUpdate, Reply, TypeOK
    <3>4. \A n \in 1..PerFlush : n < sent[c] => <<c, n>> \in acked  BY <3>2 DEF Kept, Answered
    <3>5. \A n \in 1..PerFlush : n <= sent[c] => <<c, n>> \in acked'
      BY <3>1, <3>2, <3>3, <3>4, PerFlushAssumption
    <3>6. QED  BY <3>3, <3>5 DEF Answered
  <2>2. CASE ~(HandleUpdate /\ c = serving)
    <3>1. acked \subseteq acked' /\ client'[c] \in {client[c], "done", "failed"}
      BY <1>0, <2>2 DEF ManagerStep, Top, Manage, Accept, HandleUpdate, HandlePing, CountLoops,
         AnswerPing, FreeHandled, WaitTurn, WaitEnds, Close, Push, ChooseWait, Woken, Reply, TypeOK
    <3>2. QED  BY <1>1, <3>1 DEF Kept, Answered
  <2>3. QED  BY <2>1, <2>2
<1>7. QED  BY <1>2, <1>3, <1>4, <1>5, <1>6 DEF Kept

\* A client has heard of what it sent before it sends the next.
LEMMA ClientKept == ASSUME Control, Kept, NEW c \in Client, ClientStep(c) PROVE Kept'
<1> USE DEF lists, store, monVars, mgrVars, cliVars
<1>0. TypeOK /\ Flushing(c)  BY DEF Control
<1>1. UNCHANGED <<applied, disk, mon, queue, pending, mgr, togo, sigterm, acked>>
  BY DEF ClientStep, Connect, SendUpdate, SendPing
<1>2. Written' /\ NotYetCounted'  BY <1>1 DEF Kept, Written, NotYetCounted
<1>3. AckedOnRoute'
  <2>1. Route' = Route  BY <1>1 DEF Route, Batch, Passing
  <2>2. QED  BY <1>1, <2>1 DEF Kept, AckedOnRoute, Serving, ToSet
<1>4. \A d \in Client : client'[d] = client[d] \/ client'[d] # "done"
  BY <1>0 DEF ClientStep, Connect, SendUpdate, SendPing, TypeOK
<1>5. FlushedIsWritten'  BY <1>1, <1>4 DEF Kept, FlushedIsWritten, Serving
<1>6. ASSUME NEW d \in Client PROVE Answered(d)'
  <2>1. CASE d # c
    <3>1. client'[d] = client[d] /\ sent'[d] = sent[d]
      BY <1>0, <2>1 DEF ClientStep, Connect, SendUpdate, SendPing, TypeOK
    <3>2. QED  BY <1>1, <3>1 DEF Kept, Answered
  <2>2. CASE d = c
    <3>1. CASE Connect(c)
      <4>1. client'[c] \in {"ready", "failed"} /\ sent'[c] = 0
        BY <1>0, <3>1 DEF Connect, TypeOK, Flushing
      <4>2. QED  BY <2>2, <4>1 DEF Answered
    <3>2. CASE SendUpdate(c)
      <4>1. client[c] = "ready" /\ client'[c] = "waiting" /\ sent'[c] = sent[c] + 1 /\ sent[c] \in 0..PerFlush
        BY <1>0, <3>2 DEF SendUpdate, TypeOK
      <4>2. \A n \in 1..PerFlush : n <= sent[c] => <<c, n>> \in acked  BY <4>1 DEF Kept, Answered
      <4>3. \A n \in 1..PerFlush : n < sent'[c] => <<c, n>> \in acked
        BY <4>1, <4>2, PerFlushAssumption
      <4>4. QED  BY <1>1, <2>2, <4>1, <4>3 DEF Answered
    <3>3. CASE SendPing(c)
      <4>1. client[c] = "ready" /\ client'[c] = "pinging" /\ sent' = sent
        BY <1>0, <3>3 DEF SendPing, TypeOK
      <4>2. QED  BY <1>1, <2>2, <4>1 DEF Kept, Answered
    <3>4. QED  BY <3>1, <3>2, <3>3 DEF ClientStep
  <2>3. QED  BY <2>1, <2>2
<1>7. QED  BY <1>2, <1>3, <1>5, <1>6 DEF Kept

\* When mdmon is to end, nothing is promised any more.
LEMMA EndKept == Control /\ Kept /\ (SigTerm \/ Killed \/ Exit) => Kept'
<1> SUFFICES ASSUME Control, Kept, SigTerm \/ Killed \/ Exit PROVE Kept'  OBVIOUS
<1> USE DEF lists, store, monVars, mgrVars, cliVars
<1>1. UNCHANGED <<applied, disk, sent, acked>> /\ ~Serving'
  <2>1. CASE SigTerm  BY <2>1 DEF SigTerm, Serving
  <2>2. CASE Gone  BY <2>2 DEF Gone, Serving
  <2>3. QED  BY <2>1, <2>2 DEF Killed, Exit
<1>2. Written' /\ NotYetCounted'
  <2>1. (mon' = mon /\ mgr' = mgr /\ togo' = togo) \/ (mon' = "dead" /\ mgr' = "dead")
    BY DEF SigTerm, Killed, Exit, Gone
  <2>2. QED  BY <1>1, <2>1 DEF Kept, Written, NotYetCounted
<1>3. AckedOnRoute' /\ FlushedIsWritten'  BY <1>1 DEF AckedOnRoute, FlushedIsWritten
<1>4. ASSUME NEW c \in Client PROVE Answered(c)'
  <2>1. client'[c] \in {client[c], "done", "failed"}
    <3>1. CASE SigTerm  BY <3>1 DEF SigTerm
    <3>2. CASE Gone
      <4>1. client'[c] = CASE client[c] = "pinging" -> "done"
                           [] client[c] \in {"ready", "waiting"} -> "failed"
                           [] OTHER -> client[c]
        BY <3>2 DEF Gone
      <4>2. QED  BY <4>1
    <3>3. QED  BY <3>1, <3>2 DEF Killed, Exit
  <2>2. QED  BY <1>1, <2>1 DEF Kept, Answered
<1>5. QED  BY <1>2, <1>3, <1>4 DEF Kept

-----------------------------------------------------------------------------

\* The three parts hold in every state.
THEOREM ChannelInvariant == Spec => []ChannelInv
<1>1. Init => ChannelInv  BY InitControl, InitRoute, InitKept DEF ChannelInv
<1>2. ChannelInv /\ [Next]_vars => ChannelInv'
  <2> SUFFICES ASSUME ChannelInv, [Next]_vars PROVE ChannelInv'  OBVIOUS
  <2> USE DEF ChannelInv
  <2>1. CASE MonitorStep \/ Notified  BY <2>1, MonitorControl, MonitorInOrder, MonitorKept
  <2>2. CASE ManagerStep  BY <2>2, ManagerControl, ManagerInOrder, ManagerKept
  <2>3. CASE \E c \in Client : ClientStep(c)  BY <2>3, ClientControl, ClientInOrder, ClientKept
  <2>4. CASE SigTerm \/ Killed \/ Exit  BY <2>4, EndControl, EndInOrder, EndKept
  <2>5. CASE UNCHANGED vars
    <3>1. Control'
      BY <2>5 DEF vars, lists, store, monVars, mgrVars, cliVars, Control, TypeOK, Alive, TakenIsThere,
                  QueueRests, PendingRests, Flushing, PingIsHeld, NoMessage
    <3>2. RouteInOrder'
      <4>1. UNCHANGED <<applied, queue, pending, mon, mgr, sent, inbox>>
        BY <2>5 DEF vars, lists, store, monVars, mgrVars, cliVars
      <4>2. Route' = Route  BY <4>1 DEF Route, Batch, Passing
      <4>3. TypeOK /\ sent \in [Client -> Nat]  BY PerFlushAssumption DEF Control, TypeOK
      <4>4. \A c \in Client : GoesOn(c)  BY <4>1, <4>3 DEF GoesOn
      <4>5. QED  BY <4>1, <4>2, <4>3, <4>4, RouteStays
    <3>3. Kept'
      BY <2>5 DEF vars, lists, store, monVars, mgrVars, cliVars, Kept, Written, NotYetCounted, Answered,
                  AckedOnRoute, Route, Batch, Passing, FlushedIsWritten, Serving, ToSet
    <3>4. QED  BY <3>1, <3>2, <3>3
  <2>6. QED  BY <2>1, <2>2, <2>3, <2>4, <2>5 DEF Next
<1>3. QED  BY <1>1, <1>2, PTL DEF Spec

\* A flush that returned while mdmon serves has its updates on the disks.
THEOREM FlushIsWritten == Spec => []FlushedIsWritten
<1>1. ChannelInv => FlushedIsWritten  BY DEF ChannelInv, Kept
<1>2. QED  BY <1>1, ChannelInvariant, PTL

\* What is applied is the beginning of the route, and in order as the route is.
LEMMA AppliedSorted == ASSUME Control, RouteInOrder PROVE Sorted(applied)
<1>0. TypeOK  BY DEF Control
<1> DEFINE rest == Batch \o pending
<1>1. applied \in Seq(Update) /\ rest \in Seq(Update)  BY <1>0, RouteType DEF TypeOK
<1>2. Route = applied \o rest  BY DEF Route
<1> HIDE DEF rest
<1>3. /\ Len(applied \o rest) = Len(applied) + Len(rest) /\ applied \o rest \in Seq(Update)
      /\ \A i \in 1 .. Len(applied) + Len(rest) : (applied \o rest)[i] =
             IF i <= Len(applied) THEN applied[i] ELSE rest[i - Len(applied)]
  BY <1>1, ConcatProperties
<1>4. DOMAIN applied = 1..Len(applied) /\ Len(applied) \in Nat /\ Len(rest) \in Nat
      /\ DOMAIN (applied \o rest) = 1..(Len(applied) + Len(rest))
  BY <1>1, <1>3, LenProperties
<1>5. \A i \in DOMAIN applied : i \in DOMAIN Route /\ Route[i] = applied[i]
  BY <1>2, <1>3, <1>4
<1>6. QED  BY <1>5 DEF RouteInOrder, Sorted

\* An update that was acknowledged is on its way or applied while mdmon serves, and
\* none is applied twice.
THEOREM AckIsKept == Spec => []AckedIsKept
<1>1. ChannelInv => AckedIsKept
  <2> SUFFICES ASSUME ChannelInv PROVE AckedIsKept  OBVIOUS
  <2>0. TypeOK  BY DEF ChannelInv, Control
  <2>1. applied \in Seq(Update) /\ queue \in Seq(Update) /\ pending \in Seq(Update)
    BY <2>0 DEF TypeOK
  <2>2. ASSUME Serving PROVE acked \subseteq ToSet(pending \o queue \o applied)
    <3> DEFINE waiting == pending \o queue
    <3>1. waiting \in Seq(Update) /\ ToSet(waiting) = ToSet(pending) \cup ToSet(queue)
      BY <2>1, ConcatProperties, ToSetConcat
    <3>2. ToSet(waiting \o applied) = ToSet(waiting) \cup ToSet(applied)
      <4> HIDE DEF waiting
      <4>1. QED  BY <2>1, <3>1, ToSetConcat
    <3>3. acked \subseteq ToSet(Route)  BY <2>2 DEF ChannelInv, Kept, AckedOnRoute
    <3>4. ToSet(Route) = ToSet(applied) \cup (ToSet(Batch) \cup ToSet(pending))  BY <2>0, RouteType
    <3>5. ToSet(Batch) \subseteq ToSet(queue)  BY DEF Batch, ToSet
    <3>6. ToSet(waiting \o applied) = (ToSet(pending) \cup ToSet(queue)) \cup ToSet(applied)
      BY <3>1, <3>2
    <3>7. QED  BY <3>3, <3>4, <3>5, <3>6
  <2>3. ASSUME NEW i \in DOMAIN applied, NEW j \in DOMAIN applied, applied[i] = applied[j] PROVE i = j
    <3>1. Sorted(applied)  BY AppliedSorted DEF ChannelInv
    <3>2. DOMAIN applied = 1..Len(applied) /\ Len(applied) \in Nat  BY <2>1
    <3>3. applied[i] \in Update  BY <2>1, <3>2, ElementOfSeq
    <3>4. applied[i][2] \in Nat  BY <3>3, PerFlushAssumption DEF Update
    <3>5. i \in Nat /\ j \in Nat  BY <3>2
    <3>6. ~(i < j) /\ ~(j < i)  BY <2>3, <3>1, <3>4 DEF Sorted
    <3>7. QED  BY <3>5, <3>6
  <2>4. QED  BY <2>2, <2>3 DEF AckedIsKept
<1>2. QED  BY <1>1, ChannelInvariant, PTL

\* Of one client the update sent first is applied first.
THEOREM AppliesInOrder == Spec => []AppliedInOrder
<1>1. ChannelInv => AppliedInOrder
  <2> SUFFICES ASSUME ChannelInv, NEW i \in DOMAIN applied, NEW j \in DOMAIN applied,
                      applied[i][1] = applied[j][1], applied[i][2] < applied[j][2]
               PROVE  i < j
    BY DEF AppliedInOrder
  <2>1. applied \in Seq(Update)  BY DEF ChannelInv, Control, TypeOK
  <2>2. DOMAIN applied = 1..Len(applied) /\ Len(applied) \in Nat  BY <2>1
  <2>3. applied[i] \in Update /\ applied[j] \in Update  BY <2>1, <2>2, ElementOfSeq
  <2>4. applied[i][2] \in Nat /\ applied[j][2] \in Nat  BY <2>3, PerFlushAssumption DEF Update
  <2>5. i \in Nat /\ j \in Nat /\ i # j  BY <2>2, <2>4
  <2>6. ~(j < i)
    <3>1. Sorted(applied)  BY AppliedSorted DEF ChannelInv
    <3>2. j < i => applied[j][2] < applied[i][2]  BY <3>1 DEF Sorted
    <3>3. QED  BY <2>4, <3>2
  <2>7. QED  BY <2>5, <2>6
<1>2. QED  BY <1>1, ChannelInvariant, PTL

\* The manager looks at the metadata only while the monitor changes nothing in it.
THEOREM ManagesAlone == Spec => []ManagerAlone
<1>1. ChannelInv => ManagerAlone
  BY DEF ChannelInv, Control, QueueRests, TakenIsThere, ManagerAlone
<1>2. QED  BY <1>1, ChannelInvariant, PTL
=============================================================================
