---------------------------- MODULE DashboardHub ----------------------------
(***************************************************************************)
(* The coordinator's live dashboard (internal/observability/dashboard):    *)
(* the hub goroutine that owns the set of WebSocket clients, the read and  *)
(* write goroutines of every client, and the coordinator goroutines that   *)
(* broadcast task events and statistics.  They talk through channels: one  *)
(* buffered broadcast channel, one buffered send channel per client, and   *)
(* the unbuffered register and unregister channels.                        *)
(*                                                                         *)
(* Sending on a closed channel panics, and a panic in any goroutine ends   *)
(* the coordinator process: crashed.                                       *)
(***************************************************************************)
EXTENDS Integers, Sequences, SequencesExt, FiniteSets

CONSTANTS
  Viewers,     \* WebSocket clients (connections; a browser that returns is new)
  Events,      \* task events, each broadcast once, by a goroutine of its own
  SendCap,     \* capacity of Client.send (256 in the code)
  QueueCap,    \* capacity of Hub.broadcast (256 in the code)
  MaxEvents    \* Hub.maxEvents (100 in the code)

ASSUME HubAssumption ==
  /\ {SendCap, QueueCap, MaxEvents} \subseteq Nat \ {0}
  /\ "stats" \notin Events /\ "pong" \notin Events

VARIABLES
  hub,         \* "running", "stopped"
  crashed,     \* the coordinator process died of a panic
  clients,     \* Hub.clients
  queue,       \* Hub.broadcast
  recentEvents,\* Hub.recentEvents
  posted,      \* [Events -> steps of Broadcast already taken]
  conn,        \* [Viewers -> "none", "open", "closed"]
  reader,      \* [Viewers -> state of the readPump goroutine]
  writer,      \* [Viewers -> state of the writePump goroutine]
  send,        \* [Viewers -> contents of Client.send]
  sendClosed,  \* [Viewers -> Client.send was closed]
  \* History, for the properties only.
  got,         \* [Viewers -> events written to the connection]
  skipped      \* [Viewers -> events a full or shortened buffer cost the viewer]

hubLoop == <<hub, clients, queue, recentEvents, posted>>
hubPumps == <<conn, reader, writer, send, sendClosed>>
hubVars == <<hub, crashed, clients, queue, recentEvents, posted, conn, reader,
             writer, send, sendClosed, got, skipped>>

HubTypeOK ==
  /\ hub \in {"running", "stopped"}
  /\ crashed \in BOOLEAN
  /\ clients \subseteq Viewers
  /\ queue \in Seq(Events \cup {"stats"}) /\ Len(queue) <= QueueCap
  /\ recentEvents \in Seq(Events) /\ Len(recentEvents) <= MaxEvents
  /\ posted \in [Events -> 0..2]
  /\ conn \in [Viewers -> {"none", "open", "closed"}]
  /\ reader \in [Viewers -> {"none", "registering", "reading", "leaving", "gone"}]
  /\ writer \in [Viewers -> {"none", "running", "gone"}]
  /\ send \in [Viewers -> Seq(Events \cup {"stats", "pong"})]
  /\ \A v \in Viewers : Len(send[v]) <= SendCap
  /\ sendClosed \in [Viewers -> BOOLEAN]

HubInit ==
  /\ hub = "running"
  /\ crashed = FALSE
  /\ clients = {}
  /\ queue = <<>>
  /\ recentEvents = <<>>
  /\ posted = [e \in Events |-> 0]
  /\ conn = [v \in Viewers |-> "none"]
  /\ reader = [v \in Viewers |-> "none"]
  /\ writer = [v \in Viewers |-> "none"]
  /\ send = [v \in Viewers |-> <<>>]
  /\ sendClosed = [v \in Viewers |-> FALSE]
  /\ got = [v \in Viewers |-> {}]
  /\ skipped = [v \in Viewers |-> {}]

-----------------------------------------------------------------------------
(* Broadcast: a task event is first kept for later viewers, then queued; a *)
(* full queue drops it.  Statistics are only queued.                       *)

BroadcastQueueFirst == <<"queue", "keep">>
BroadcastOrder == <<"keep", "queue">>

\* Every event is kept.
KeepAllEvents(e) ==
  /\ recentEvents' = Append(recentEvents, e)
  /\ UNCHANGED <<queue, skipped>>

\* Keep the last MaxEvents events; a viewer that is not yet registered misses
\* what falls off.
KeepEvent(e) ==
  LET all == Append(recentEvents, e)
      over == Len(all) > MaxEvents
  IN /\ recentEvents' = IF over THEN Tail(all) ELSE all
     /\ skipped' = [v \in Viewers |->
                      IF over /\ v \notin clients
                      THEN skipped[v] \cup {Head(all)} ELSE skipped[v]]
     /\ UNCHANGED queue

QueueEvent(e) ==
  /\ queue' = IF Len(queue) < QueueCap THEN Append(queue, e) ELSE queue
  /\ skipped' = [v \in Viewers |-> IF Len(queue) < QueueCap THEN skipped[v]
                                    ELSE skipped[v] \cup {e}]
  /\ UNCHANGED recentEvents

Broadcast(e) ==
  /\ posted[e] < 2
  /\ posted' = [posted EXCEPT ![e] = @ + 1]
  /\ IF BroadcastOrder[posted[e] + 1] = "keep" THEN KeepEvent(e)
     ELSE QueueEvent(e)
  /\ UNCHANGED <<hub, crashed, clients, hubPumps, got>>

\* One tick of broadcastLoop, which ends with the hub.
BroadcastStats ==
  /\ hub = "running"
  /\ Len(queue) < QueueCap
  /\ queue' = Append(queue, "stats")
  /\ UNCHANGED <<hub, crashed, clients, recentEvents, posted, hubPumps, got,
                 skipped>>

-----------------------------------------------------------------------------
(* Hub.Run: one iteration per received value.                              *)

\* Registration: the viewer enters the map and is sent the recent events, as
\* far as they fit; handleWebSocket then starts the two pumps.
HubRegister(v) ==
  /\ hub = "running"
  /\ reader[v] = "registering"
  /\ clients' = clients \cup {v}
  /\ LET fits == IF Len(recentEvents) <= SendCap THEN recentEvents
                 ELSE SubSeq(recentEvents, 1, SendCap)
     IN /\ send' = [send EXCEPT ![v] = fits]
        /\ skipped' = [skipped EXCEPT ![v] =
                         @ \cup (Range(recentEvents) \ Range(fits))]
  /\ reader' = [reader EXCEPT ![v] = "reading"]
  /\ writer' = [writer EXCEPT ![v] = "running"]
  /\ UNCHANGED <<hub, crashed, queue, recentEvents, posted, conn, sendClosed, got>>

\* The readPump's deferred unregister, received by the hub; the readPump then
\* closes the connection and ends.
HubUnregister(v) ==
  /\ hub = "running"
  /\ reader[v] = "leaving"
  /\ clients' = clients \ {v}
  /\ sendClosed' = [sendClosed EXCEPT ![v] = @ \/ v \in clients]
  /\ reader' = [reader EXCEPT ![v] = "gone"]
  /\ conn' = [conn EXCEPT ![v] = "closed"]
  /\ UNCHANGED <<hub, crashed, queue, recentEvents, posted, writer, send, got,
                 skipped>>

\* A viewer whose buffer is full is closed and stays in the map.
KeepOverflowing(full) == clients
\* A viewer whose buffer is full is closed and removed from the map.
DropOverflowing(full) == clients \ full

\* One message to every client.  Sending on, or closing, a closed channel
\* would panic.
HubBroadcast ==
  LET full == {v \in clients : Len(send[v]) = SendCap}
      m == Head(queue)
  IN /\ hub = "running"
     /\ queue # <<>>
     /\ queue' = Tail(queue)
     /\ crashed' = \E v \in clients : sendClosed[v]
     /\ send' = [v \in Viewers |-> IF v \in clients \ full
                                   THEN Append(send[v], m) ELSE send[v]]
     /\ sendClosed' = [v \in Viewers |-> sendClosed[v] \/ v \in full]
     /\ clients' = DropOverflowing(full)
     /\ UNCHANGED <<hub, recentEvents, posted, conn, reader, writer, got, skipped>>

\* Server.Stop: the hub loop ends, nobody receives any more.
HubStop ==
  /\ hub = "running"
  /\ hub' = "stopped"
  /\ UNCHANGED <<crashed, clients, queue, recentEvents, posted, hubPumps, got,
                 skipped>>

-----------------------------------------------------------------------------
(* The connection and its two goroutines.                                  *)

\* handleWebSocket up to the blocking send on the register channel.
Upgrade(v) ==
  /\ conn[v] = "none"
  /\ conn' = [conn EXCEPT ![v] = "open"]
  /\ reader' = [reader EXCEPT ![v] = "registering"]
  /\ UNCHANGED <<hubLoop, crashed, writer, send, sendClosed, got, skipped>>

\* The peer disconnects, or is silent until the read deadline.
PeerGone(v) ==
  /\ conn[v] = "open"
  /\ conn' = [conn EXCEPT ![v] = "closed"]
  /\ UNCHANGED <<hubLoop, crashed, reader, writer, send, sendClosed, got, skipped>>

\* readPump answers a ping through the send channel; when the channel is full
\* it gives up, when it is closed the send panics.
ReadPing(v) ==
  /\ conn[v] = "open"
  /\ reader[v] = "reading"
  /\ \/ /\ sendClosed[v]
        /\ crashed' = TRUE
        /\ UNCHANGED <<send, reader>>
     \/ /\ ~sendClosed[v] /\ Len(send[v]) < SendCap
        /\ send' = [send EXCEPT ![v] = Append(@, "pong")]
        /\ UNCHANGED <<crashed, reader>>
     \/ /\ ~sendClosed[v] /\ Len(send[v]) = SendCap
        /\ reader' = [reader EXCEPT ![v] = "leaving"]
        /\ UNCHANGED <<crashed, send>>
  /\ UNCHANGED <<hubLoop, conn, writer, sendClosed, got, skipped>>

\* ReadMessage fails: the readPump is about to unregister its client.
ReadError(v) ==
  /\ conn[v] = "closed"
  /\ reader[v] = "reading"
  /\ reader' = [reader EXCEPT ![v] = "leaving"]
  /\ UNCHANGED <<hubLoop, crashed, conn, writer, send, sendClosed, got, skipped>>

\* writePump takes everything that is queued and writes it as one frame, or
\* meets the closed channel, or fails to write (also its periodic ping).  In the
\* last two cases it closes the connection and ends.
WritePump(v) ==
  /\ writer[v] = "running"
  /\ \/ /\ send[v] # <<>> /\ conn[v] = "open"
        /\ send' = [send EXCEPT ![v] = <<>>]
        /\ got' = [got EXCEPT ![v] = @ \cup (Range(send[v]) \cap Events)]
        /\ UNCHANGED <<writer, conn>>
     \/ /\ conn[v] = "closed" \/ (send[v] = <<>> /\ sendClosed[v])
        /\ writer' = [writer EXCEPT ![v] = "gone"]
        /\ conn' = [conn EXCEPT ![v] = "closed"]
        /\ UNCHANGED <<send, got>>
  /\ UNCHANGED <<hubLoop, crashed, reader, sendClosed, skipped>>

HubNext ==
  /\ ~crashed
  /\ \/ \E e \in Events : Broadcast(e)
     \/ BroadcastStats \/ HubBroadcast \/ HubStop
     \/ \E v \in Viewers :
          \/ HubRegister(v) \/ HubUnregister(v) \/ Upgrade(v) \/ PeerGone(v)
          \/ ReadPing(v) \/ ReadError(v) \/ WritePump(v)

\* The goroutines run: the hub serves every channel it selects on, the pumps
\* notice a dead connection.  Peers, viewers and broadcasters owe nothing.
HubFairness ==
  \A v \in Viewers :
    /\ WF_hubVars(~crashed /\ HubUnregister(v))
    /\ WF_hubVars(~crashed /\ ReadError(v))
    /\ WF_hubVars(~crashed /\ WritePump(v))

HubSpec == HubInit /\ [][HubNext]_hubVars
HubFairSpec == HubSpec /\ HubFairness

-----------------------------------------------------------------------------

\* The hub closes a send channel exactly when it forgets the client: a client in
\* the map can be sent to and closed without a panic, whichever of unregister and
\* overflow came first, and a started writePump of a forgotten client sees the
\* close and ends.
ChannelsMatchClients ==
  \A v \in Viewers :
    /\ v \in clients => ~sendClosed[v]
    /\ v \notin clients /\ writer[v] # "none" => sendClosed[v]

\* A registered viewer has, or is still going to get, every task event that was
\* broadcast: an event is kept for later viewers before it is queued for the
\* present ones, so that one who registers in between sees it (twice, even).
\* Excepted is what a full buffer or the limit on kept events costs.
NoEventMissed ==
  \A v \in clients, e \in Events :
    posted[e] = 2 =>
      e \in got[v] \cup Range(send[v]) \cup Range(queue) \cup skipped[v]

\* A viewer whose connection is gone does not stay in the hub's map: either pump
\* notices, and the readPump unregisters.  Stopping the hub or a panic ends this.
GoneViewersForgotten ==
  \A v \in Viewers :
    (v \in clients /\ conn[v] = "closed")
      ~> (v \notin clients \/ hub = "stopped" \/ crashed)

\* A slow viewer costs itself the connection, never the coordinator: no
\* goroutine sends on a channel the hub has closed.
SlowViewerHarmless == ~crashed

=============================================================================
