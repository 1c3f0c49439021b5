------------------------------ MODULE GatewayHub ------------------------------
(***************************************************************************)
(* The WebSocket fan-out of the Go backend: the hub and its clients        *)
(* (gui_system/backend/internal/gateway/hub.go, client.go) and the         *)
(* goroutines of the fanout (fanout.go) that broadcast through it.         *)
(* A producer is a goroutine that stamps a message with the next sequence  *)
(* number and broadcasts it under the read lock; every client has a write  *)
(* pump and a reader, either of which removes the client under the write   *)
(* lock.  Every channel operation, lock operation and atomic flag is a     *)
(* step of its own.  Envelopes are abstracted to their producer (one per   *)
(* message type) and sequence number.                                      *)
(***************************************************************************)
EXTENDS Naturals, Sequences

CONSTANTS
  Clients,            \* browsers that may connect, once each
  CriticalProducers,  \* runMission, runStatus
  LatestProducers,    \* runPose, runTelemetry, runPlannedPath, ...
  CriticalCap,        \* capacity of Client.critical (64)
  MaxSeq              \* bound: messages broadcast in all

Producers == CriticalProducers \cup LatestProducers

NoMessage == [from |-> "none", seq |-> 0]
Nobody == "none"

ASSUME HubAssumption ==
  /\ CriticalProducers \cap LatestProducers = {}
  /\ NoMessage.from \notin Producers
  /\ Nobody \notin Clients
  /\ CriticalCap \in Nat \ {0}
  /\ MaxSeq \in Nat

VARIABLES
  seq,         \* Fanout.seq
  task,        \* what each producer is doing
  message,     \* the message each producer holds
  todo,        \* clients its range over h.clients has still to visit
  current,     \* the client it is visiting
  registered,  \* h.clients
  conn,        \* is the connection of a client open
  closed,      \* Client.closed, and with it both channels
  critical,    \* Client.critical
  latest,      \* Client.latest, at most one message
  pump,        \* where the write pump of a client is
  hand,        \* the message its write pump has taken
  reader,      \* where the reader of a client is
  wire,        \* what was written to the connection, by the channel it came from
  due,         \* history: the critical messages that broadcasts had for a client
  panicked     \* a goroutine sent on a closed channel: the process is gone

producerVars == <<seq, task, message, todo, current>>
clientVars == <<registered, conn, closed, critical, latest, pump, hand, reader,
                wire, due>>
vars == <<producerVars, clientVars, panicked>>
-----------------------------------------------------------------------------
\* Steps of a broadcast: waiting for a message, holding one, ranging over the
\* clients under RLock, past the closed test, and the three selects of
\* pushLatest (the first of which is also the only one of pushCritical).
Tasks == {"idle", "stamped", "ranging", "push", "drop", "retry", "close"}

\* Steps of a goroutine of a client: not started, running, at h.mu.Lock() in
\* remove, past Unlock, returned.
Stages == {"none", "running", "writing", "locking", "closing", "done"}

\* The two channels of a client, and the one a message goes through.
Channels == {"critical", "latest"}

IsCritical(m) == m.from \in CriticalProducers

Channel(m) == IF IsCritical(m) THEN "critical" ELSE "latest"

Init ==
  /\ seq = 0
  /\ task = [p \in Producers |-> "idle"]
  /\ message = [p \in Producers |-> NoMessage]
  /\ todo = [p \in Producers |-> {}]
  /\ current = [p \in Producers |-> Nobody]
  /\ registered = {}
  /\ conn = [c \in Clients |-> FALSE]
  /\ closed = [c \in Clients |-> FALSE]
  /\ critical = [c \in Clients |-> <<>>]
  /\ latest = [c \in Clients |-> <<>>]
  /\ pump = [c \in Clients |-> "none"]
  /\ hand = [c \in Clients |-> NoMessage]
  /\ reader = [c \in Clients |-> "none"]
  /\ wire = [c \in Clients |-> [k \in Channels |-> <<>>]]
  /\ due = [c \in Clients |-> <<>>]
  /\ panicked = FALSE

\* h.mu: broadcasts hold it for reading from the first to the last client.  A
\* goroutine waiting for the write lock keeps new readers out (sync.RWMutex).
Reading == {p \in Producers : task[p] \notin {"idle", "stamped"}}
WriterWaits == \E c \in Clients : pump[c] = "locking" \/ reader[c] = "locking"

Goto(p, t) == task' = [task EXCEPT ![p] = t]
-----------------------------------------------------------------------------
(* Producers *)

\* env(): the sequence number is taken before the lock is.
Stamp(p) ==
  /\ task[p] = "idle"
  /\ seq < MaxSeq
  /\ seq' = seq + 1
  /\ message' = [message EXCEPT ![p] = [from |-> p, seq |-> seq + 1]]
  /\ Goto(p, "stamped")
  /\ UNCHANGED <<todo, current, clientVars, panicked>>

\* BroadcastLatest, BroadcastCritical: RLock, and the range over the clients.
StartRange(p) ==
  /\ task[p] = "stamped"
  /\ ~WriterWaits
  /\ todo' = [todo EXCEPT ![p] = registered]
  /\ Goto(p, "ranging")
  /\ UNCHANGED <<seq, message, current, clientVars, panicked>>

\* The next client of the range; a closed one is passed over.
Visit(p, c) ==
  /\ task[p] = "ranging"
  /\ c \in todo[p]
  /\ todo' = [todo EXCEPT ![p] = @ \ {c}]
  /\ current' = [current EXCEPT ![p] = IF closed[c] THEN Nobody ELSE c]
  /\ Goto(p, IF closed[c] THEN "ranging" ELSE "push")
  /\ UNCHANGED <<seq, message, clientVars, panicked>>

\* RUnlock.
EndRange(p) ==
  /\ task[p] = "ranging"
  /\ todo[p] = {}
  /\ message' = [message EXCEPT ![p] = NoMessage]
  /\ Goto(p, "idle")
  /\ UNCHANGED <<seq, todo, current, clientVars, panicked>>

\* A send on a channel that was closed after the closed test.
SendOnClosed(p) ==
  /\ task[p] \in {"push", "retry"}
  /\ closed[current[p]]
  /\ panicked' = TRUE
  /\ UNCHANGED <<producerVars, clientVars>>

Visited(p) ==
  /\ current' = [current EXCEPT ![p] = Nobody]
  /\ Goto(p, "ranging")

\* Where pushCritical goes when the buffer is full.  Mutants: the message is
\* dropped; the client is removed from the hub on the spot, which waits for the
\* read lock that the broadcast itself holds (no step leaves "remove").
FullDrops == "ranging"

FullRemoves == "remove"

FullCloses == "close"

\* Mutant: the buffer grows by one.
RoomForOneMore(c) == Len(critical[c]) <= CriticalCap

HasRoom(c) == Len(critical[c]) < CriticalCap

\* pushCritical: into the buffer, or to close the client when it is full.
PushCritical(p) ==
  LET c == current[p]
  IN  /\ p \in CriticalProducers
      /\ task[p] = "push"
      /\ ~closed[c]
      /\ due' = [due EXCEPT ![c] = Append(@, message[p])]
      /\ IF HasRoom(c)
         THEN /\ critical' = [critical EXCEPT ![c] = Append(@, message[p])]
              /\ Visited(p)
         ELSE /\ Goto(p, FullCloses)
              /\ UNCHANGED <<critical, current>>
      /\ UNCHANGED <<seq, message, todo, registered, conn, closed, latest, pump,
                     hand, reader, wire, panicked>>

\* Client.close(): the flag, the connection and both channels; closeOnce makes
\* a second call wait for the first and then do nothing.  Mutant: the
\* connection stays open.
CloseChannelsOnly(c) ==
  /\ closed' = [closed EXCEPT ![c] = TRUE]
  /\ UNCHANGED conn

Close(c) ==
  /\ closed' = [closed EXCEPT ![c] = TRUE]
  /\ conn' = [conn EXCEPT ![c] = FALSE]

CloseSlowClient(p) ==
  /\ task[p] = "close"
  /\ Close(current[p])
  /\ Visited(p)
  /\ UNCHANGED <<seq, message, todo, registered, critical, latest, pump, hand,
                 reader, wire, due, panicked>>

\* pushLatest: send, else discard what waits and send again, else give up.
PushLatest(p) ==
  LET c == current[p]
  IN  /\ p \in LatestProducers
      /\ task[p] \in {"push", "retry"}
      /\ ~closed[c]
      /\ \/ /\ latest[c] = <<>>
            /\ latest' = [latest EXCEPT ![c] = <<message[p]>>]
            /\ Visited(p)
         \/ /\ latest[c] # <<>>
            /\ task[p] = "push"
            /\ Goto(p, "drop")
            /\ UNCHANGED <<latest, current>>
         \/ /\ latest[c] # <<>>
            /\ task[p] = "retry"
            /\ Visited(p)
            /\ UNCHANGED latest
      /\ UNCHANGED <<seq, message, todo, registered, conn, closed, critical,
                     pump, hand, reader, wire, due, panicked>>

DropOldest(p) ==
  /\ task[p] = "drop"
  /\ latest' = [latest EXCEPT ![current[p]] = <<>>]
  /\ Goto(p, "retry")
  /\ UNCHANGED <<seq, message, todo, current, registered, conn, closed,
                 critical, pump, hand, reader, wire, due, panicked>>
-----------------------------------------------------------------------------
(* Clients *)

\* HandleWS: upgrade, add (under Lock), start the write pump and the reader.
Connect(c) ==
  /\ pump[c] = "none"
  /\ Reading = {}
  /\ registered' = registered \cup {c}
  /\ conn' = [conn EXCEPT ![c] = TRUE]
  /\ pump' = [pump EXCEPT ![c] = "running"]
  /\ reader' = [reader EXCEPT ![c] = "running"]
  /\ UNCHANGED <<producerVars, closed, critical, latest, hand, wire, due, panicked>>

\* The browser goes away, or the network does.
Disconnect(c) ==
  /\ conn[c]
  /\ conn' = [conn EXCEPT ![c] = FALSE]
  /\ UNCHANGED <<producerVars, registered, closed, critical, latest, pump, hand,
                 reader, wire, due, panicked>>

\* What a receive takes from a channel, and what it leaves.  Mutant: the newest
\* message is taken first.
NewestTaken(q) == <<q[Len(q)], SubSeq(q, 1, Len(q) - 1)>>

Taken(q) == <<Head(q), Tail(q)>>

\* writePump's select takes from either channel that has a message.
TakeCritical(c) ==
  /\ pump[c] = "running"
  /\ critical[c] # <<>>
  /\ hand' = [hand EXCEPT ![c] = Taken(critical[c])[1]]
  /\ critical' = [critical EXCEPT ![c] = Taken(@)[2]]
  /\ pump' = [pump EXCEPT ![c] = "writing"]
  /\ UNCHANGED <<producerVars, registered, conn, closed, latest, reader, wire,
                 due, panicked>>

TakeLatest(c) ==
  /\ pump[c] = "running"
  /\ latest[c] # <<>>
  /\ hand' = [hand EXCEPT ![c] = Head(latest[c])]
  /\ latest' = [latest EXCEPT ![c] = <<>>]
  /\ pump' = [pump EXCEPT ![c] = "writing"]
  /\ UNCHANGED <<producerVars, registered, conn, closed, critical, reader, wire,
                 due, panicked>>

\* WriteJSON.
Write(c) ==
  /\ pump[c] = "writing"
  /\ conn[c]
  /\ wire' = [wire EXCEPT ![c][Channel(hand[c])] = Append(@, hand[c])]
  /\ hand' = [hand EXCEPT ![c] = NoMessage]
  /\ pump' = [pump EXCEPT ![c] = "running"]
  /\ UNCHANGED <<producerVars, registered, conn, closed, critical, latest,
                 reader, due, panicked>>

\* A write, or the ping, finds the connection gone: h.remove(c).
WriteFails(c) ==
  /\ pump[c] \in {"running", "writing"}
  /\ ~conn[c]
  /\ pump' = [pump EXCEPT ![c] = "locking"]
  /\ UNCHANGED <<producerVars, registered, conn, closed, critical, latest, hand,
                 reader, wire, due, panicked>>

\* A closed and empty channel ends the write pump, which removes nothing.
PumpReturns(c) ==
  /\ pump[c] = "running"
  /\ closed[c]
  /\ critical[c] = <<>> \/ latest[c] = <<>>
  /\ pump' = [pump EXCEPT ![c] = "done"]
  /\ UNCHANGED <<producerVars, registered, conn, closed, critical, latest, hand,
                 reader, wire, due, panicked>>

\* The reader's NextReader fails: h.remove(c).
ReadFails(c) ==
  /\ reader[c] = "running"
  /\ ~conn[c]
  /\ reader' = [reader EXCEPT ![c] = "locking"]
  /\ UNCHANGED <<producerVars, registered, conn, closed, critical, latest, pump,
                 hand, wire, due, panicked>>

\* remove: the client leaves the registry under Lock, and is closed after Unlock.
Unregister(c) ==
  /\ Reading = {}
  /\ \/ pump[c] = "locking" /\ pump' = [pump EXCEPT ![c] = "closing"] /\ UNCHANGED reader
     \/ reader[c] = "locking" /\ reader' = [reader EXCEPT ![c] = "closing"] /\ UNCHANGED pump
  /\ registered' = registered \ {c}
  /\ UNCHANGED <<producerVars, conn, closed, critical, latest, hand, wire, due,
                 panicked>>

CloseRemoved(c) ==
  /\ \/ pump[c] = "closing" /\ pump' = [pump EXCEPT ![c] = "done"] /\ UNCHANGED reader
     \/ reader[c] = "closing" /\ reader' = [reader EXCEPT ![c] = "done"] /\ UNCHANGED pump
  /\ Close(c)
  /\ UNCHANGED <<producerVars, registered, critical, latest, hand, wire, due,
                 panicked>>
-----------------------------------------------------------------------------
Produce(p) ==
  \/ Stamp(p) \/ StartRange(p) \/ EndRange(p)
  \/ \E c \in Clients : Visit(p, c)
  \/ PushCritical(p) \/ CloseSlowClient(p) \/ PushLatest(p) \/ DropOldest(p)
  \/ SendOnClosed(p)

Pump(c) ==
  \/ TakeCritical(c) \/ TakeLatest(c) \/ Write(c)
  \/ WriteFails(c) \/ PumpReturns(c)

Leave(c) == Unregister(c) \/ CloseRemoved(c)

Serve(c) == Pump(c) \/ ReadFails(c) \/ Leave(c)

Next ==
  /\ ~panicked
  /\ \/ \E p \in Producers : Produce(p)
     \/ \E c \in Clients : Connect(c) \/ Disconnect(c) \/ Serve(c)

Spec == Init /\ [][Next]_vars

\* Every goroutine gets to run, but a write may block for as long as the browser
\* does not read, and nothing makes messages or browsers come.
FairSpec ==
  /\ Spec
  /\ \A p \in Producers : WF_vars(~panicked /\ task[p] # "idle" /\ Produce(p))
  /\ \A c \in Clients : WF_vars(~panicked /\ ReadFails(c))
                        /\ WF_vars(~panicked /\ Leave(c))
-----------------------------------------------------------------------------
Messages == [from : Producers, seq : 1..MaxSeq]

TypeOK ==
  /\ seq \in 0..MaxSeq
  /\ task \in [Producers -> Tasks]
  /\ message \in [Producers -> Messages \cup {NoMessage}]
  /\ todo \in [Producers -> SUBSET Clients]
  /\ current \in [Producers -> Clients \cup {Nobody}]
  /\ registered \subseteq Clients
  /\ conn \in [Clients -> BOOLEAN]
  /\ closed \in [Clients -> BOOLEAN]
  /\ critical \in [Clients -> Seq(Messages)]
  /\ latest \in [Clients -> Seq(Messages)]
  /\ \A c \in Clients : Len(critical[c]) <= CriticalCap /\ Len(latest[c]) <= 1
  /\ pump \in [Clients -> Stages]
  /\ hand \in [Clients -> Messages \cup {NoMessage}]
  /\ reader \in [Clients -> Stages \ {"writing"}]
  /\ wire \in [Clients -> [Channels -> Seq(Messages)]]
  /\ due \in [Clients -> Seq(Messages)]
  /\ panicked \in BOOLEAN

\* What has gone or will go through channel k of a client: written, in the hand
\* of the write pump, waiting.
InHand(c, k) ==
  IF hand[c] # NoMessage /\ Channel(hand[c]) = k THEN <<hand[c]>> ELSE <<>>

Waiting(c, k) == IF k = "critical" THEN critical[c] ELSE latest[c]

Line(c, k) == wire[c][k] \o InHand(c, k) \o Waiting(c, k)

AboutToClose(c) == \E p \in Producers : task[p] = "close" /\ current[p] = c

\* Critical messages are never dropped from under an open client: what it was
\* sent, what its pump holds and what waits for it are, in order and without a
\* gap, all the critical messages broadcast to it, unless a full buffer is about
\* to cost it the connection.
NoSilentLoss ==
  \A c \in Clients :
    closed[c] \/ AboutToClose(c)
    \/ Line(c, "critical") = due[c]

\* A browser sees the messages of one type in the order in which the fanout
\* numbered them, whatever was dropped and whoever else broadcasts.
TypeOrder ==
  \A c \in Clients, k \in Channels : \A i, j \in 1..Len(wire[c][k]) :
    i < j /\ wire[c][k][i].from = wire[c][k][j].from
      => wire[c][k][i].seq < wire[c][k][j].seq

\* A broadcast always ends: no lock, channel or client stops it, not even when
\* it closes a client itself.
BroadcastEnds ==
  \A p \in Producers : task[p] # "idle" ~> task[p] = "idle" \/ panicked

\* A client that was closed leaves the registry, so it can reconnect afresh and
\* broadcasts do not go on visiting it.
ClosedClientLeaves ==
  \A c \in Clients : closed[c] ~> c \notin registered \/ panicked

\* hub.go:58-59 says that a client that falls behind is closed so that it
\* reconnects.  A second broadcast that has already passed the closed test sends
\* on the closed channel, and the panic takes the process down.
NoSendOnClosed == ~panicked
=============================================================================
