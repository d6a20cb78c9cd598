----------------------------- MODULE WebSocketHub -----------------------------
(***************************************************************************)
(* The WebSocket hub: workers and the alert service broadcast messages,    *)
(* one hub goroutine copies them to the Send channel of every registered   *)
(* connection, and each connection has a goroutine that writes to the      *)
(* client and one that reads from it to learn that it is gone.             *)
(*                                                                         *)
(* Messages are numbered in the order in which the broadcast channel       *)
(* accepted them; one that finds the channel full is dropped and changes   *)
(* nothing. register and unregister are unbuffered channels: the hub meets *)
(* a goroutine that waits to send.                                         *)
(***************************************************************************)
EXTENDS Integers, Sequences, FiniteSets

CONSTANTS
  Conns,        \* connections
  HubBuffer,    \* capacity of the broadcast channel (256 in the code)
  SendBuffer,   \* capacity of a connection's Send channel (256 in the code)
  MaxMessages   \* bound: messages accepted

ASSUME HubAssumption ==
  HubBuffer \in Nat \ {0} /\ SendBuffer \in Nat \ {0} /\ MaxMessages \in Nat

VARIABLES
  done,         \* the context of the hub is cancelled
  hub,          \* where the hub goroutine is
  connections,  \* the registered connections
  pending,      \* connections the running broadcast has not come to yet
  broadcast,    \* the broadcast channel
  dispatched,   \* number of the last message the hub took from it
  handler,      \* where HandleWebSocket is with a connection
  writer,       \* where the writePump of a connection is
  reader,       \* where its readPump is
  open,         \* the network connection can be used
  send,         \* the Send channel
  sendClosed,   \* the Send channel is closed
  batch,        \* queued messages the writePump still adds to its frame
  last,         \* history: last message taken by the writePump; at first, the
                \* last one that was dispatched before the connection came
  counting,     \* somebody is in GetConnectionCount, with the read lock
  panicked      \* a closed channel was closed again or sent to

loopVars == <<done, hub, connections, pending, broadcast, dispatched>>
connVars == <<handler, writer, reader, open>>
sendVars == <<send, sendClosed, batch, last>>
hubVars == <<loopVars, connVars, sendVars, counting, panicked>>

InitHub ==
  /\ done = FALSE
  /\ hub = "select"
  /\ connections = {}
  /\ pending = {}
  /\ broadcast = <<>>
  /\ dispatched = 0
  /\ handler = [c \in Conns |-> "none"]
  /\ writer = [c \in Conns |-> "off"]
  /\ reader = [c \in Conns |-> "off"]
  /\ open = [c \in Conns |-> FALSE]
  /\ send = [c \in Conns |-> <<>>]
  /\ sendClosed = [c \in Conns |-> FALSE]
  /\ batch = [c \in Conns |-> 0]
  /\ last = [c \in Conns |-> 0]
  /\ counting = FALSE
  /\ panicked = FALSE

accepted == dispatched + Len(broadcast)

-----------------------------------------------------------------------------
(* Callers of the hub.                                                     *)

(* BroadcastHealthCheckUpdate and BroadcastAlert.                          *)
Broadcast ==
  /\ Len(broadcast) < HubBuffer
  /\ accepted < MaxMessages
  /\ broadcast' = Append(broadcast, accepted + 1)
  /\ UNCHANGED <<done, hub, connections, pending, dispatched, connVars,
                 sendVars, counting, panicked>>

(* HandleWebSocket upgrades the request and offers the connection.         *)
Connect(c) ==
  /\ handler[c] = "none"
  /\ handler' = [handler EXCEPT ![c] = "registering"]
  /\ open' = [open EXCEPT ![c] = TRUE]
  /\ UNCHANGED <<loopVars, writer, reader, sendVars, counting, panicked>>

StartCount ==
  /\ ~counting
  /\ counting' = TRUE
  /\ UNCHANGED <<loopVars, connVars, sendVars, panicked>>

EndCount ==
  /\ counting
  /\ counting' = FALSE
  /\ UNCHANGED <<loopVars, connVars, sendVars, panicked>>

(* Manager.Stop, or the end of the program's context.                      *)
Stop ==
  /\ ~done
  /\ done' = TRUE
  /\ UNCHANGED <<hub, connections, pending, broadcast, dispatched, connVars,
                 sendVars, counting, panicked>>

-----------------------------------------------------------------------------
(* The hub goroutine: Run.                                                 *)

CloseSend(c) ==
  /\ sendClosed' = [sendClosed EXCEPT ![c] = TRUE]
  /\ panicked' = (panicked \/ sendClosed[c])

(* The network connections are closed; nothing is unregistered.            *)
Shutdown ==
  /\ hub = "select" /\ done /\ ~counting
  /\ hub' = "stopped"
  /\ open' = [c \in Conns |-> open[c] /\ c \notin connections]
  /\ UNCHANGED <<done, connections, pending, broadcast, dispatched, handler,
                 writer, reader, sendVars, counting, panicked>>

(* The hub takes the connection in and HandleWebSocket starts its pumps.   *)
Register(c) ==
  /\ hub = "select" /\ ~counting
  /\ handler[c] = "registering"
  /\ connections' = connections \union {c}
  /\ handler' = [handler EXCEPT ![c] = "returned"]
  /\ writer' = [writer EXCEPT ![c] = "select"]
  /\ reader' = [reader EXCEPT ![c] = "reading"]
  /\ last' = [last EXCEPT ![c] = dispatched]
  /\ UNCHANGED <<done, hub, pending, broadcast, dispatched, open, send,
                 sendClosed, batch, counting, panicked>>

(* Mutant of Unregister: Send is closed whether the hub still has the      *)
(* connection or not.                                                      *)
UnregisterBlindly(c) ==
  /\ hub = "select" /\ ~counting
  /\ reader[c] = "unregistering"
  /\ connections' = connections \ {c}
  /\ CloseSend(c)
  /\ reader' = [reader EXCEPT ![c] = "dead"]
  /\ open' = [open EXCEPT ![c] = FALSE]
  /\ UNCHANGED <<done, hub, pending, broadcast, dispatched, handler, writer,
                 send, batch, last, counting>>

(* The readPump offers its connection, and closes the network connection.  *)
Unregister(c) ==
  /\ hub = "select" /\ ~counting
  /\ reader[c] = "unregistering"
  /\ IF c \in connections
       THEN connections' = connections \ {c} /\ CloseSend(c)
       ELSE UNCHANGED <<connections, sendClosed, panicked>>
  /\ reader' = [reader EXCEPT ![c] = "dead"]
  /\ open' = [open EXCEPT ![c] = FALSE]
  /\ UNCHANGED <<done, hub, pending, broadcast, dispatched, handler, writer,
                 send, batch, last, counting>>

Take ==
  /\ hub = "select"
  /\ broadcast # <<>>
  /\ broadcast' = Tail(broadcast)
  /\ dispatched' = Head(broadcast)
  /\ pending' = connections
  /\ hub' = "sending"
  /\ UNCHANGED <<done, connections, connVars, sendVars, counting, panicked>>

(* Mutants of SendTo: a full channel only loses the message; the hub waits *)
(* for room in it.                                                         *)
SendToLossy(c) ==
  /\ hub = "sending" /\ c \in pending
  /\ pending' = pending \ {c}
  /\ panicked' = (panicked \/ sendClosed[c])
  /\ send' = IF Len(send[c]) < SendBuffer
               THEN [send EXCEPT ![c] = Append(@, dispatched)] ELSE send
  /\ UNCHANGED <<done, hub, connections, broadcast, dispatched, connVars,
                 sendClosed, batch, last, counting>>

SendToBlocking(c) ==
  /\ hub = "sending" /\ c \in pending
  /\ Len(send[c]) < SendBuffer
  /\ pending' = pending \ {c}
  /\ send' = [send EXCEPT ![c] = Append(@, dispatched)]
  /\ panicked' = (panicked \/ sendClosed[c])
  /\ UNCHANGED <<done, hub, connections, broadcast, dispatched, connVars,
                 sendClosed, batch, last, counting>>

(* One turn of the loop over the connections, in any order: the message is *)
(* queued, or the connection is given up because its channel is full.      *)
SendTo(c) ==
  /\ hub = "sending" /\ c \in pending
  /\ pending' = pending \ {c}
  /\ IF Len(send[c]) < SendBuffer
       THEN /\ send' = [send EXCEPT ![c] = Append(@, dispatched)]
            /\ panicked' = (panicked \/ sendClosed[c])
            /\ UNCHANGED <<connections, sendClosed>>
       ELSE /\ connections' = connections \ {c}
            /\ CloseSend(c)
            /\ UNCHANGED send
  /\ UNCHANGED <<done, hub, broadcast, dispatched, connVars, batch, last, counting>>

Sent ==
  /\ hub = "sending" /\ pending = {}
  /\ hub' = "select"
  /\ UNCHANGED <<done, connections, pending, broadcast, dispatched, connVars,
                 sendVars, counting, panicked>>

-----------------------------------------------------------------------------
(* The pumps of a connection.                                              *)

WriterEnds(c) ==
  /\ writer' = [writer EXCEPT ![c] = "dead"]
  /\ open' = [open EXCEPT ![c] = FALSE]
  /\ UNCHANGED <<loopVars, handler, reader, send, sendClosed, counting, panicked>>

(* A message, and the count of those queued behind it, is taken.           *)
WriteMessage(c) ==
  /\ writer[c] = "select"
  /\ send[c] # <<>>
  /\ send' = [send EXCEPT ![c] = Tail(@)]
  /\ last' = [last EXCEPT ![c] = Head(send[c])]
  /\ batch' = [batch EXCEPT ![c] = Len(send[c]) - 1]
  /\ writer' = [writer EXCEPT ![c] = "writing"]
  /\ UNCHANGED <<loopVars, handler, reader, open, sendClosed, counting, panicked>>

(* Mutant of WriteQueued: the queue is drained beyond what was counted.    *)
WriteQueuedAhead(c) ==
  /\ writer[c] = "writing"
  /\ send[c] # <<>>
  /\ send' = [send EXCEPT ![c] = Tail(@)]
  /\ last' = [last EXCEPT ![c] = Head(send[c])]
  /\ UNCHANGED <<loopVars, connVars, sendClosed, batch, counting, panicked>>

WriteQueued(c) ==
  /\ writer[c] = "writing"
  /\ batch[c] > 0
  /\ send[c] # <<>>
  /\ send' = [send EXCEPT ![c] = Tail(@)]
  /\ last' = [last EXCEPT ![c] = Head(send[c])]
  /\ batch' = [batch EXCEPT ![c] = @ - 1]
  /\ UNCHANGED <<loopVars, connVars, sendClosed, counting, panicked>>

(* The frame is flushed.                                                   *)
FinishWrite(c) ==
  /\ writer[c] = "writing"
  /\ batch[c] = 0 /\ open[c]
  /\ writer' = [writer EXCEPT ![c] = "select"]
  /\ UNCHANGED <<loopVars, handler, reader, open, sendVars, counting, panicked>>

(* NextWriter, the flush or a ping fails, on a connection that is gone or  *)
(* within its deadline of ten seconds.                                     *)
WriteFails(c) ==
  /\ \/ writer[c] = "writing"
     \/ writer[c] = "select"
  /\ batch' = [batch EXCEPT ![c] = 0]
  /\ UNCHANGED last
  /\ WriterEnds(c)

(* Mutant of WriteClose: the goroutine ends, the network connection stays. *)
WriteCloseOnly(c) ==
  /\ writer[c] = "select"
  /\ send[c] = <<>> /\ sendClosed[c]
  /\ writer' = [writer EXCEPT ![c] = "dead"]
  /\ UNCHANGED <<loopVars, handler, reader, open, sendVars, counting, panicked>>

(* The hub has closed the channel, and what it had queued is written.      *)
WriteClose(c) ==
  /\ writer[c] = "select"
  /\ send[c] = <<>> /\ sendClosed[c]
  /\ UNCHANGED <<batch, last>>
  /\ WriterEnds(c)

(* The client goes away, or is silent for sixty seconds.                   *)
PeerGone(c) ==
  /\ reader[c] = "reading" /\ open[c]
  /\ open' = [open EXCEPT ![c] = FALSE]
  /\ UNCHANGED <<loopVars, handler, writer, reader, sendVars, counting, panicked>>

ReadFails(c) ==
  /\ reader[c] = "reading" /\ ~open[c]
  /\ reader' = [reader EXCEPT ![c] = "unregistering"]
  /\ UNCHANGED <<loopVars, handler, writer, open, sendVars, counting, panicked>>

-----------------------------------------------------------------------------
Run ==
  \/ Shutdown \/ Take \/ Sent
  \/ \E c \in Conns : Register(c) \/ Unregister(c) \/ SendTo(c)

WritePump(c) ==
  \/ WriteMessage(c) \/ WriteQueued(c) \/ FinishWrite(c)
  \/ WriteFails(c) \/ WriteClose(c)

HubNext ==
  \/ Broadcast \/ StartCount \/ EndCount \/ Stop
  \/ Run
  \/ \E c \in Conns :
       Connect(c) \/ WritePump(c) \/ PeerGone(c) \/ ReadFails(c)

HubSpec == InitHub /\ [][HubNext]_hubVars

(* Goroutines that can move do: the hub's select finds a ready case, reads *)
(* and pings on a dead connection fail, and a write ends by its deadline.  *)
(* Fairness of the hub is strong because a sync.RWMutex keeps new readers  *)
(* out while a writer waits: one GetConnectionCount after the other cannot *)
(* hold it up. A client need not go away, and a live connection need not   *)
(* fail.                                                                   *)
HubFairness ==
  /\ WF_hubVars(EndCount)
  /\ SF_hubVars(Run)
  /\ \A c \in Conns :
       /\ WF_hubVars(WriteMessage(c) \/ WriteQueued(c) \/ FinishWrite(c) \/ WriteClose(c))
       /\ WF_hubVars(WriteFails(c) /\ ~open[c])
       /\ WF_hubVars(ReadFails(c))

FairHubSpec == HubSpec /\ HubFairness

-----------------------------------------------------------------------------
(* The hub's and the connections' states.                                  *)
HubTypeOK ==
  /\ done \in BOOLEAN
  /\ hub \in {"select", "sending", "stopped"}
  /\ connections \in SUBSET Conns
  /\ pending \in SUBSET Conns
  /\ broadcast \in Seq(Nat) /\ Len(broadcast) <= HubBuffer
  /\ dispatched \in Nat
  /\ handler \in [Conns -> {"none", "registering", "returned"}]
  /\ writer \in [Conns -> {"off", "select", "writing", "dead"}]
  /\ reader \in [Conns -> {"off", "reading", "unregistering", "dead"}]
  /\ open \in [Conns -> BOOLEAN]
  /\ send \in [Conns -> Seq(Nat)] /\ \A c \in Conns : Len(send[c]) <= SendBuffer
  /\ sendClosed \in [Conns -> BOOLEAN]
  /\ batch \in [Conns -> Nat]
  /\ last \in [Conns -> Nat]
  /\ counting \in BOOLEAN
  /\ panicked \in BOOLEAN

(* Neither the loop over the connections nor an unregistration that comes  *)
(* after it ever sends to or closes a closed Send channel, in whatever     *)
(* order slow, failing and leaving clients are dealt with.                 *)
NoPanic == ~panicked

(* A client gets every message accepted since it came, in order and        *)
(* without a gap, until the hub gives it up: what it was sent, what is     *)
(* queued for it, and what is still to be dispatched are successive        *)
(* numbers.                                                                *)
NoGaps ==
  /\ \A i \in DOMAIN broadcast : broadcast[i] = dispatched + i
  /\ \A c \in Conns :
       /\ \A i \in DOMAIN send[c] : send[c][i] = last[c] + i
       /\ c \in connections =>
            last[c] + Len(send[c]) = IF c \in pending THEN dispatched - 1 ELSE dispatched

(* The messages a writePump has counted behind its first one are there to  *)
(* be taken, even if the hub closes the channel meanwhile: it never writes *)
(* what a closed empty channel returns, and never waits in its frame.      *)
BatchIsQueued ==
  \A c \in Conns : writer[c] = "writing" => batch[c] <= Len(send[c])

(* A connection with a live writePump is registered, or its channel is     *)
(* closed so that the pump will end: none is forgotten.                    *)
NoneForgotten ==
  \A c \in Conns :
    handler[c] = "returned" => (c \in connections <=> ~sendClosed[c])

(* A slow client never holds up the others: what was accepted is given to  *)
(* every registered connection, unless the hub is stopped.                 *)
EverythingDispatched ==
  \A n \in 1..MaxMessages :
    accepted >= n ~> (dispatched >= n /\ pending = {}) \/ hub = "stopped"

Ended(c) == writer[c] = "dead" /\ reader[c] = "dead" /\ c \notin connections

(* A client that is gone or was given up leaves nothing behind as long as  *)
(* the hub runs: both goroutines end and the hub has forgotten it.         *)
PumpsEnd ==
  \A c \in Conns :
    (reader[c] = "reading" /\ (~open[c] \/ sendClosed[c])) ~> Ended(c) \/ hub = "stopped"

(* Messages and goroutines both come to their end.                         *)
HubProgress == EverythingDispatched /\ PumpsEnd
=============================================================================
