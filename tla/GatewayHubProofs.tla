---------------------------- MODULE GatewayHubProofs ----------------------------
(***************************************************************************)
(* Theorems about GatewayHub, for any clients, producers, capacity and     *)
(* number of messages, and every interleaving of their goroutines: what a  *)
(* client is sent is in order, and no state change is lost in silence.     *)
(***************************************************************************)
EXTENDS GatewayHub, TLAPS

\* The message of producer p has not yet been pushed to client c by its broadcast.
Fresh(p, c) ==
  \/ task[p] = "stamped"
  \/ c \in todo[p]
  \/ task[p] \in {"push", "drop", "retry"} /\ current[p] = c

Busy == {"push", "drop", "retry", "close"}

\* What the step of a goroutine says of its other variables.  A client that is
\* being visited is no longer to be visited, so no broadcast pushes twice.
ProducerInv(p) ==
  /\ task[p] \in {"idle", "stamped"} => todo[p] = {}
  /\ task[p] \in Busy => current[p] \in Clients \ todo[p]
  /\ task[p] \in {"drop", "retry"} => p \in LatestProducers
  /\ task[p] = "close" => p \in CriticalProducers
  /\ task[p] # "idle" => /\ message[p] \in Messages
                         /\ message[p].from = p
                         /\ message[p].seq <= seq

\* The write pump holds a message while it writes, and none before.
HandInv ==
  \A c \in Clients :
    /\ pump[c] \in {"none", "running"} => hand[c] = NoMessage
    /\ pump[c] = "writing" => hand[c] \in Messages

\* Where a message m of the line of channel k stands: not younger than what its
\* producer broadcasts now, and older than that until that is pushed here too.
Placed(c, k, m) ==
  /\ Channel(m) = k
  /\ m.seq <= seq
  /\ task[m.from] # "idle" =>
       /\ m.seq <= message[m.from].seq
       /\ Fresh(m.from, c) => m.seq < message[m.from].seq

Ordered(s) ==
  \A i, j \in 1..Len(s) : i < j /\ s[i].from = s[j].from => s[i].seq < s[j].seq

LineInv(c, k) ==
  /\ Ordered(Line(c, k))
  /\ \A i \in 1..Len(Line(c, k)) : Placed(c, k, Line(c, k)[i])

\* The inductive invariant.  TypeOrder alone is not inductive: it speaks of what
\* was written, and what waits must be in order too, and older than what comes.
IInv ==
  /\ TypeOK
  /\ \A p \in Producers : ProducerInv(p)
  /\ HandInv
  /\ \A c \in Clients, k \in Channels : LineInv(c, k)
  /\ NoSilentLoss
-----------------------------------------------------------------------------
(* Lines *)

\* The parts of a line are sequences of messages, and so is the line.
LEMMA LineType ==
  ASSUME TypeOK, NEW c \in Clients, NEW k \in Channels
  PROVE  /\ wire[c][k] \in Seq(Messages)
         /\ InHand(c, k) \in Seq(Messages)
         /\ Waiting(c, k) \in Seq(Messages)
         /\ Line(c, k) \in Seq(Messages)
<1>1. wire[c][k] \in Seq(Messages) /\ Waiting(c, k) \in Seq(Messages)
  BY DEF TypeOK, Waiting
<1>2. InHand(c, k) \in Seq(Messages)
  <2>1. CASE hand[c] = NoMessage
    BY <2>1 DEF InHand
  <2>2. CASE hand[c] # NoMessage
    <3>1. hand[c] \in Messages
      BY <2>2 DEF TypeOK
    <3> QED
      BY <3>1 DEF InHand
  <2> QED
    BY <2>1, <2>2
<1> QED
  BY <1>1, <1>2 DEF Line

\* NoMessage is not a message, and the kinds of producers go through one channel each.
LEMMA ChannelOf ==
  /\ NoMessage \notin Messages
  /\ \A m \in Messages : m.from \in Producers /\ m.seq \in Nat
  /\ \A m \in Messages : /\ m.from \in CriticalProducers => Channel(m) = "critical"
                         /\ m.from \in LatestProducers => Channel(m) = "latest"
<1>1. NoMessage \notin Messages
  <2> SUFFICES ASSUME NoMessage \in Messages PROVE FALSE
    OBVIOUS
  <2>1. NoMessage.from \in Producers
    BY DEF Messages
  <2> QED
    BY <2>1, HubAssumption
<1>2. \A m \in Messages : m.from \in Producers /\ m.seq \in Nat
  BY HubAssumption DEF Messages
<1> QED
  BY <1>1, <1>2, HubAssumption DEF Channel, IsCritical, Producers

\* A message moved from the hand to the end of what was written changes no line.
LEMMA MoveWritten ==
  ASSUME NEW S, NEW w \in Seq(S), NEW m \in S, NEW q \in Seq(S)
  PROVE  Append(w, m) \o <<>> \o q = w \o <<m>> \o q
OBVIOUS

\* Nor does one moved from the head of the channel into the empty hand.
LEMMA MoveTaken ==
  ASSUME NEW S, NEW w \in Seq(S), NEW q \in Seq(S), q # <<>>
  PROVE  /\ Head(q) \in S /\ Tail(q) \in Seq(S)
         /\ w \o <<Head(q)>> \o Tail(q) = w \o <<>> \o q
<1>1. Head(q) \in S /\ Tail(q) \in Seq(S) /\ q = <<Head(q)>> \o Tail(q)
  OBVIOUS
<1> DEFINE h == Head(q) t == Tail(q)
<1> HIDE DEF h, t
<1>2. h \in S /\ t \in Seq(S) /\ q = <<h>> \o t
  BY <1>1 DEF h, t
<1>3. w \o <<h>> \o t = w \o <<>> \o (<<h>> \o t)
  BY <1>2
<1> QED
  BY <1>1, <1>2, <1>3 DEF h, t

\* A message appended to the channel is appended to the line.
LEMMA MoveQueued ==
  ASSUME NEW S, NEW w \in Seq(S), NEW h \in Seq(S), NEW q \in Seq(S), NEW m \in S
  PROVE  w \o h \o Append(q, m) = Append(w \o h \o q, m)
OBVIOUS

\* A channel emptied leaves the beginning of the line.
LEMMA MoveDropped ==
  ASSUME NEW S, NEW w \in Seq(S), NEW h \in Seq(S), NEW q \in Seq(S)
  PROVE  LET new == w \o h \o <<>>
             old == w \o h \o q
         IN  Len(new) <= Len(old) /\ \A i \in 1..Len(new) : new[i] = old[i]
OBVIOUS
\* One more message in the buffer of one client, and one buffer emptied.
LEMMA BufferType ==
  ASSUME NEW C, NEW S, NEW f \in [C -> Seq(S)], NEW c \in C, NEW m \in S,
         NEW most \in Nat, \A d \in C : Len(f[d]) <= most
  PROVE  /\ [f EXCEPT ![c] = Append(@, m)] \in [C -> Seq(S)]
         /\ [f EXCEPT ![c] = <<m>>] \in [C -> Seq(S)]
         /\ [f EXCEPT ![c] = <<>>] \in [C -> Seq(S)]
         /\ Len(f[c]) < most =>
              \A d \in C : Len([f EXCEPT ![c] = Append(@, m)][d]) <= most
         /\ most >= 1 => \A d \in C : Len([f EXCEPT ![c] = <<m>>][d]) <= most
         /\ \A d \in C : Len([f EXCEPT ![c] = <<>>][d]) <= most
<1>1. /\ Append(f[c], m) \in Seq(S) /\ <<m>> \in Seq(S) /\ <<>> \in Seq(S)
      /\ Len(Append(f[c], m)) = Len(f[c]) + 1 /\ Len(<<m>>) = 1 /\ Len(<<>>) = 0
      /\ Len(f[c]) \in Nat
  OBVIOUS
<1>2. /\ [f EXCEPT ![c] = Append(@, m)] \in [C -> Seq(S)]
      /\ [f EXCEPT ![c] = <<m>>] \in [C -> Seq(S)]
      /\ [f EXCEPT ![c] = <<>>] \in [C -> Seq(S)]
  BY <1>1
<1>3. \A d \in C :
        /\ [f EXCEPT ![c] = Append(@, m)][d] = IF d = c THEN Append(f[c], m) ELSE f[d]
        /\ [f EXCEPT ![c] = <<m>>][d] = IF d = c THEN <<m>> ELSE f[d]
        /\ [f EXCEPT ![c] = <<>>][d] = IF d = c THEN <<>> ELSE f[d]
  OBVIOUS
<1> QED
  BY <1>1, <1>2, <1>3
-----------------------------------------------------------------------------
(* Steps *)

\* The first states satisfy the inductive invariant.
LEMMA InitIInv == Init => IInv
<1> SUFFICES ASSUME Init PROVE IInv
  OBVIOUS
<1>1. TypeOK
  <2>1. <<>> \in Seq(Messages) /\ Len(<<>>) = 0
    OBVIOUS
  <2>2. 0 \in 0..MaxSeq /\ CriticalCap >= 0
    BY HubAssumption
  <2>3. wire \in [Clients -> [Channels -> Seq(Messages)]]
    BY <2>1 DEF Init
  <2>4. /\ critical \in [Clients -> Seq(Messages)]
        /\ latest \in [Clients -> Seq(Messages)]
        /\ due \in [Clients -> Seq(Messages)]
        /\ \A c \in Clients : Len(critical[c]) <= CriticalCap /\ Len(latest[c]) <= 1
    BY <2>1, <2>2 DEF Init
  <2> QED
    BY <2>2, <2>3, <2>4 DEF Init, TypeOK, Tasks, Stages
<1>2. ASSUME NEW c \in Clients, NEW k \in Channels
      PROVE  Line(c, k) = <<>>
  BY <1>2 DEF Init, Line, InHand, Waiting
<1>3. \A p \in Producers : ProducerInv(p)
  BY DEF Init, ProducerInv, Busy
<1>4. HandInv
  BY DEF Init, HandInv
<1>5. \A c \in Clients, k \in Channels : LineInv(c, k)
  BY <1>2 DEF LineInv, Ordered
<1>6. NoSilentLoss
  BY <1>2 DEF Init, NoSilentLoss, Channels
<1> QED
  BY <1>1, <1>3, <1>4, <1>5, <1>6 DEF IInv

\* A broadcast keeps the types.
LEMMA ProduceType ==
  ASSUME IInv, NEW p \in Producers, Produce(p)
  PROVE  TypeOK'
<1> USE DEF TypeOK, IInv
<1>1. CASE Stamp(p)
  <2>1. [from |-> p, seq |-> seq + 1] \in Messages /\ seq + 1 \in 0..MaxSeq
    BY <1>1, HubAssumption DEF Stamp, Messages
  <2> QED
    BY <1>1, <2>1 DEF Stamp, Goto, clientVars, Tasks
<1>2. CASE StartRange(p)
  BY <1>2 DEF StartRange, Goto, clientVars, Tasks
<1>3. CASE EndRange(p)
  BY <1>3 DEF EndRange, Goto, clientVars, Tasks
<1>4. ASSUME NEW c \in Clients, Visit(p, c) PROVE TypeOK'
  BY <1>4 DEF Visit, Goto, clientVars, Tasks
<1>5. CASE PushCritical(p)
  <2> DEFINE c == current[p]
  <2>1. c \in Clients /\ message[p] \in Messages
    BY <1>5 DEF PushCritical, ProducerInv, Busy
  <2>2. task' \in [Producers -> Tasks] /\ current' \in [Producers -> Clients \cup {Nobody}]
    BY <1>5 DEF PushCritical, Goto, Visited, FullCloses, Tasks
  <2>3. /\ critical' \in [Clients -> Seq(Messages)]
        /\ \A d \in Clients : Len(critical'[d]) <= CriticalCap
    <3>1. CASE HasRoom(c)
      <4>1. critical' = [critical EXCEPT ![c] = Append(@, message[p])]
        BY <1>5, <3>1 DEF PushCritical
      <4>2. Len(critical[c]) < CriticalCap /\ CriticalCap \in Nat
        BY <3>1, HubAssumption DEF HasRoom
      <4>3. \A d \in Clients : Len(critical[d]) <= CriticalCap
        OBVIOUS
      <4> HIDE DEF c
      <4> QED
        BY <2>1, <4>1, <4>2, <4>3, BufferType
    <3>2. CASE ~HasRoom(c)
      BY <1>5, <3>2 DEF PushCritical
    <3> QED
      BY <3>1, <3>2
  <2>4. due' \in [Clients -> Seq(Messages)]
    BY <1>5, <2>1 DEF PushCritical
  <2> QED
    BY <1>5, <2>2, <2>3, <2>4 DEF PushCritical
<1>6. CASE CloseSlowClient(p)
  BY <1>6 DEF CloseSlowClient, Close, Visited, Goto, Tasks
<1>7. CASE PushLatest(p)
  <2>1. current[p] \in Clients /\ message[p] \in Messages
    BY <1>7 DEF PushLatest, ProducerInv, Busy
  <2>2. task' \in [Producers -> Tasks] /\ current' \in [Producers -> Clients \cup {Nobody}]
    BY <1>7 DEF PushLatest, Goto, Visited, Tasks
  <2>3. /\ latest' \in [Clients -> Seq(Messages)]
        /\ \A d \in Clients : Len(latest'[d]) <= 1
    <3> DEFINE c == current[p]
    <3>1. latest' = latest \/ latest' = [latest EXCEPT ![c] = <<message[p]>>]
      BY <1>7 DEF PushLatest
    <3>2. \A d \in Clients : Len(latest[d]) <= 1
      OBVIOUS
    <3> HIDE DEF c
    <3>3. c \in Clients
      BY <2>1 DEF c
    <3>4. CASE latest' = [latest EXCEPT ![c] = <<message[p]>>]
      BY <2>1, <3>2, <3>3, <3>4, BufferType
    <3> QED
      BY <3>1, <3>2, <3>4
  <2> QED
    BY <1>7, <2>2, <2>3 DEF PushLatest
<1>8. CASE DropOldest(p)
  <2>1. current[p] \in Clients /\ latest \in [Clients -> Seq(Messages)]
    BY <1>8 DEF DropOldest, ProducerInv, Busy
  <2>2. /\ latest' \in [Clients -> Seq(Messages)]
        /\ \A d \in Clients : Len(latest'[d]) <= 1
    <3>1. latest' = [latest EXCEPT ![current[p]] = <<>>]
      BY <1>8 DEF DropOldest
    <3>2. <<>> \in Seq(Messages) /\ Len(<<>>) = 0
      OBVIOUS
    <3> QED
      BY <2>1, <3>1, <3>2
  <2>3. task' \in [Producers -> Tasks]
    BY <1>8 DEF DropOldest, Goto, Tasks
  <2> QED
    BY <1>8, <2>2, <2>3 DEF DropOldest
<1>9. CASE SendOnClosed(p)
  BY <1>9 DEF SendOnClosed, producerVars, clientVars
<1> QED
  BY <1>1, <1>2, <1>3, <1>4, <1>5, <1>6, <1>7, <1>8, <1>9 DEF Produce

\* A client's goroutines keep the types.
LEMMA ServeType ==
  ASSUME IInv, NEW c \in Clients, Connect(c) \/ Disconnect(c) \/ Serve(c)
  PROVE  TypeOK'
<1> USE DEF TypeOK, IInv, producerVars, Stages
<1>1. CASE Connect(c)
  BY <1>1 DEF Connect
<1>2. CASE Disconnect(c)
  BY <1>2 DEF Disconnect
<1>3. CASE TakeCritical(c)
  <2>1. Head(critical[c]) \in Messages /\ Tail(critical[c]) \in Seq(Messages)
        /\ Len(Tail(critical[c])) <= CriticalCap
    BY <1>3, HubAssumption DEF TakeCritical
  <2> QED
    BY <1>3, <2>1 DEF TakeCritical, Taken
<1>4. CASE TakeLatest(c)
  <2>1. Head(latest[c]) \in Messages
    BY <1>4 DEF TakeLatest
  <2> QED
    BY <1>4, <2>1 DEF TakeLatest
<1>5. CASE Write(c)
  <2> DEFINE k == Channel(hand[c])
  <2>1. hand[c] \in Messages /\ k \in Channels
    BY <1>5 DEF Write, Channel, Channels, HandInv
  <2> QED
    BY <1>5, <2>1 DEF Write
<1>6. CASE WriteFails(c)
  BY <1>6 DEF WriteFails
<1>7. CASE PumpReturns(c)
  BY <1>7 DEF PumpReturns
<1>8. CASE ReadFails(c)
  BY <1>8 DEF ReadFails
<1>9. CASE Unregister(c)
  <2>1. pump' \in [Clients -> Stages] /\ reader' \in [Clients -> Stages \ {"writing"}]
    <3>1. CASE pump' = [pump EXCEPT ![c] = "closing"] /\ UNCHANGED reader
      BY <3>1
    <3>2. CASE reader' = [reader EXCEPT ![c] = "closing"] /\ UNCHANGED pump
      BY <3>2
    <3> QED
      BY <1>9, <3>1, <3>2 DEF Unregister
  <2>2. registered' \subseteq Clients
    BY <1>9 DEF Unregister
  <2> QED
    BY <1>9, <2>1, <2>2 DEF Unregister
<1>10. CASE CloseRemoved(c)
  BY <1>10 DEF CloseRemoved, Close
<1> QED
  BY <1>1, <1>2, <1>3, <1>4, <1>5, <1>6, <1>7, <1>8, <1>9, <1>10
     DEF Serve, Pump, Leave

\* What a step makes of a broadcast: it ends, or it begins with the next number, or
\* it goes on with its message, and is pushed to no client twice.
Onward(q) ==
  /\ seq <= seq'
  /\ \/ task'[q] = "idle"
     \/ task[q] = "idle" /\ seq' = seq + 1 /\ message'[q].seq = seq'
     \/ /\ task[q] # "idle"
        /\ message'[q] = message[q]
        /\ \A c \in Clients : Fresh(q, c)' => Fresh(q, c)

\* The step of another producer leaves a broadcast alone.
LEMMA OtherProducer ==
  ASSUME IInv, NEW p \in Producers, Produce(p), NEW q \in Producers, q # p
  PROVE  ProducerInv(q)' /\ Onward(q)
<1> USE DEF IInv, TypeOK
<1>1. /\ task'[q] = task[q] /\ message'[q] = message[q]
      /\ todo'[q] = todo[q] /\ current'[q] = current[q]
  BY DEF Produce, Stamp, StartRange, EndRange, Visit, PushCritical, CloseSlowClient,
         PushLatest, DropOldest, SendOnClosed, Goto, Visited, producerVars
<1>2. seq \in Nat /\ seq' \in Nat /\ seq <= seq'
  BY HubAssumption
     DEF Produce, Stamp, StartRange, EndRange, Visit, PushCritical, CloseSlowClient,
         PushLatest, DropOldest, SendOnClosed, Goto, Visited, producerVars
<1>3. ProducerInv(q)
  OBVIOUS
<1>4. message[q] \in Messages => message[q].seq \in Nat
  BY ChannelOf
<1>5. ProducerInv(q)'
  BY <1>1, <1>2, <1>3, <1>4 DEF ProducerInv
<1> QED
  BY <1>1, <1>2, <1>5 DEF Onward, Fresh

\* A producer's own step keeps its invariant.
LEMMA OwnStep ==
  ASSUME IInv, NEW p \in Producers, Produce(p)
  PROVE  ProducerInv(p)' /\ Onward(p)
<1> USE DEF IInv, TypeOK
<1>0. ProducerInv(p) /\ seq \in Nat
  BY HubAssumption
<1>1. CASE Stamp(p)
  <2>1. /\ task'[p] = "stamped" /\ task[p] = "idle" /\ todo'[p] = todo[p]
        /\ seq' = seq + 1 /\ seq < MaxSeq
        /\ message'[p] = [from |-> p, seq |-> seq + 1]
    BY <1>1 DEF Stamp, Goto
  <2>2. message'[p] \in Messages /\ message'[p].from = p /\ message'[p].seq = seq'
    BY <1>0, <2>1, HubAssumption DEF Messages
  <2> QED
    BY <1>0, <2>1, <2>2 DEF ProducerInv, Onward, Busy
<1>2. CASE StartRange(p)
  <2>1. /\ task'[p] = "ranging" /\ task[p] = "stamped" /\ seq' = seq
        /\ message'[p] = message[p]
    BY <1>2 DEF StartRange, Goto
  <2> QED
    BY <1>0, <2>1 DEF ProducerInv, Onward, Busy, Fresh
<1>3. CASE EndRange(p)
  <2>1. task'[p] = "idle" /\ todo[p] = {} /\ todo'[p] = {} /\ seq' = seq
    BY <1>3 DEF EndRange, Goto
  <2> QED
    BY <1>0, <2>1 DEF ProducerInv, Onward, Busy
<1>4. ASSUME NEW c \in Clients, Visit(p, c) PROVE ProducerInv(p)' /\ Onward(p)
  <2>1. /\ task[p] = "ranging" /\ c \in todo[p] /\ todo'[p] = todo[p] \ {c}
        /\ task'[p] = IF closed[c] THEN "ranging" ELSE "push"
        /\ current'[p] = IF closed[c] THEN Nobody ELSE c
        /\ seq' = seq /\ message'[p] = message[p]
    BY <1>4 DEF Visit, Goto
  <2>2. ProducerInv(p)'
    BY <1>0, <1>4, <2>1 DEF ProducerInv, Busy
  <2>3. \A d \in Clients : Fresh(p, d)' => Fresh(p, d)
    BY <2>1 DEF Fresh
  <2> QED
    BY <1>0, <2>1, <2>2, <2>3 DEF Onward
<1>5. CASE PushCritical(p)
  <2>1. /\ task[p] = "push" /\ p \in CriticalProducers /\ todo'[p] = todo[p]
        /\ seq' = seq /\ message'[p] = message[p]
    BY <1>5 DEF PushCritical
  <2>2. \/ task'[p] = "ranging"
        \/ task'[p] = "close" /\ current'[p] = current[p]
    <3>1. CASE HasRoom(current[p])
      BY <1>5, <3>1 DEF PushCritical, Goto, Visited
    <3>2. CASE ~HasRoom(current[p])
      BY <1>5, <3>2 DEF PushCritical, Goto, FullCloses
    <3> QED
      BY <3>1, <3>2
  <2> QED
    BY <1>0, <2>1, <2>2 DEF ProducerInv, Onward, Busy, Fresh
<1>6. CASE CloseSlowClient(p)
  <2>1. /\ task[p] = "close" /\ task'[p] = "ranging" /\ todo'[p] = todo[p]
        /\ seq' = seq /\ message'[p] = message[p]
    BY <1>6 DEF CloseSlowClient, Goto, Visited
  <2> QED
    BY <1>0, <2>1 DEF ProducerInv, Onward, Busy, Fresh
<1>7. CASE PushLatest(p)
  <2>1. /\ task[p] \in {"push", "retry"} /\ p \in LatestProducers /\ todo'[p] = todo[p]
        /\ seq' = seq /\ message'[p] = message[p]
    BY <1>7 DEF PushLatest
  <2>2. \/ Visited(p)
        \/ Goto(p, "drop") /\ UNCHANGED current
    BY <1>7 DEF PushLatest
  <2>3. \/ task'[p] = "ranging"
        \/ task'[p] = "drop" /\ current'[p] = current[p]
    BY <2>2 DEF Goto, Visited
  <2> QED
    BY <1>0, <2>1, <2>3 DEF ProducerInv, Onward, Busy, Fresh
<1>8. CASE DropOldest(p)
  <2>1. /\ task[p] = "drop" /\ task'[p] = "retry" /\ todo'[p] = todo[p]
        /\ seq' = seq /\ message'[p] = message[p] /\ current'[p] = current[p]
    BY <1>8 DEF DropOldest, Goto
  <2> QED
    BY <1>0, <2>1 DEF ProducerInv, Onward, Busy, Fresh
<1>9. CASE SendOnClosed(p)
  BY <1>0, <1>9 DEF SendOnClosed, producerVars, ProducerInv, Onward, Fresh
<1> QED
  BY <1>1, <1>2, <1>3, <1>4, <1>5, <1>6, <1>7, <1>8, <1>9 DEF Produce

\* The goroutines of the clients leave every broadcast alone.
LEMMA ClientsKeepProducers ==
  ASSUME IInv, UNCHANGED producerVars, NEW q \in Producers
  PROVE  ProducerInv(q)' /\ Onward(q)
<1>1. ProducerInv(q) /\ seq \in Nat
  BY HubAssumption DEF IInv, TypeOK
<1> QED
  BY <1>1 DEF producerVars, ProducerInv, Onward, Fresh

\* The write pump keeps what it says of its hand.
LEMMA HandStep ==
  ASSUME IInv, NEW c \in Clients, Connect(c) \/ Disconnect(c) \/ Serve(c)
  PROVE  HandInv'
<1> USE DEF IInv, TypeOK, HandInv
<1>1. CASE TakeCritical(c)
  <2>1. Head(critical[c]) \in Messages
    BY <1>1 DEF TakeCritical
  <2> QED
    BY <1>1, <2>1 DEF TakeCritical, Taken
<1>2. CASE TakeLatest(c)
  <2>1. Head(latest[c]) \in Messages
    BY <1>2 DEF TakeLatest
  <2> QED
    BY <1>2, <2>1 DEF TakeLatest
<1>3. CASE Write(c)
  BY <1>3 DEF Write
<1>4. CASE ~(TakeCritical(c) \/ TakeLatest(c) \/ Write(c))
  <2>1. /\ hand' = hand
        /\ \A d \in Clients \ {c} : pump'[d] = pump[d]
        /\ \/ pump'[c] = pump[c]
           \/ pump'[c] = "running" /\ pump[c] = "none"
           \/ pump'[c] \notin {"none", "running", "writing"}
    BY <1>4 DEF Connect, Disconnect, Serve, Pump, Leave, WriteFails, PumpReturns,
                ReadFails, Unregister, CloseRemoved
  <2> QED
    BY <2>1
<1> QED
  BY <1>1, <1>2, <1>3, <1>4
-----------------------------------------------------------------------------
(* What the steps make of the lines *)

\* The beginning of line s is what is left of it in t.
Begins(t, s) == Len(t) <= Len(s) /\ \A i \in 1..Len(t) : t[i] = s[i]

\* The message of p comes to the end of a line that p had not pushed it to.
Pushed(p, c, k) ==
  /\ Line(c, k)' = Append(Line(c, k), message[p])
  /\ Channel(message[p]) = k
  /\ task[p] # "idle" /\ task'[p] # "idle"
  /\ message'[p] = message[p]
  /\ Fresh(p, c) /\ ~Fresh(p, c)'

\* A line whose parts stay stays.
LEMMA QuietLine ==
  ASSUME NEW c, NEW k, wire'[c][k] = wire[c][k], hand'[c] = hand[c],
         k = "critical" => critical'[c] = critical[c],
         k # "critical" => latest'[c] = latest[c]
  PROVE  Line(c, k)' = Line(c, k)
BY DEF Line, InHand, Waiting

\* A line that changes nowhere begins as it did.
LEMMA SameBegins ==
  ASSUME NEW S, NEW s \in Seq(S)
  PROVE  Begins(s, s)
BY DEF Begins

\* A broadcast on the critical channel appends to one line, or gives up its client.
LEMMA PushCriticalLine ==
  ASSUME IInv, NEW p \in Producers, PushCritical(p),
         NEW c \in Clients, NEW k \in Channels
  PROVE  /\ Line(c, k)' = Line(c, k) \/ Pushed(p, c, k)
         /\ \/ AboutToClose(c)'
            \/ Line(c, "critical")' = Line(c, "critical") /\ due'[c] = due[c]
            \/ /\ Line(c, "critical")' = Append(Line(c, "critical"), message[p])
               /\ due'[c] = Append(due[c], message[p])
<1> USE DEF IInv
<1>1. /\ task[p] = "push" /\ p \in CriticalProducers /\ ProducerInv(p)
      /\ current[p] \in Clients /\ current[p] \notin todo[p]
      /\ message[p] \in Messages /\ Channel(message[p]) = "critical"
  BY ChannelOf DEF PushCritical, ProducerInv, Busy
<1>2. wire' = wire /\ hand' = hand /\ latest' = latest /\ todo' = todo /\ message' = message
  BY DEF PushCritical
<1>3. CASE c # current[p]
  <2>1. critical'[c] = critical[c] /\ due'[c] = due[c]
    BY <1>3 DEF PushCritical, TypeOK
  <2>2. \A h \in Channels : Line(c, h)' = Line(c, h)
    BY <1>2, <2>1, QuietLine
  <2> QED
    BY <2>1, <2>2 DEF Channels
<1>4. CASE c = current[p] /\ HasRoom(c)
  <2>1. /\ critical'[c] = Append(critical[c], message[p])
        /\ due'[c] = Append(due[c], message[p])
        /\ task'[p] = "ranging"
    BY <1>4 DEF PushCritical, TypeOK, Visited, Goto
  <2>2. Line(c, "latest")' = Line(c, "latest")
    BY <1>2, QuietLine
  <2>3. Line(c, "critical")' = Append(Line(c, "critical"), message[p])
    <3>1. Line(c, "critical")'
            = wire[c]["critical"] \o InHand(c, "critical") \o Append(critical[c], message[p])
      BY <1>2, <2>1 DEF Line, InHand, Waiting
    <3>2. /\ wire[c]["critical"] \in Seq(Messages)
          /\ InHand(c, "critical") \in Seq(Messages)
          /\ critical[c] \in Seq(Messages)
      BY LineType DEF Channels, Waiting
    <3>3. Line(c, "critical") = wire[c]["critical"] \o InHand(c, "critical") \o critical[c]
      BY DEF Line, Waiting
    <3> DEFINE w == wire[c]["critical"] h == InHand(c, "critical") q == critical[c] m == message[p]
    <3>4. w \in Seq(Messages) /\ h \in Seq(Messages) /\ q \in Seq(Messages) /\ m \in Messages
      BY <1>1, <3>2
    <3>5. w \o h \o Append(q, m) = Append(w \o h \o q, m)
      <4> HIDE DEF w, h, q, m
      <4> QED
        BY <3>4, MoveQueued
    <3> QED
      BY <3>1, <3>3, <3>5
  <2>4. Fresh(p, c) /\ ~Fresh(p, c)'
    BY <1>1, <1>2, <1>4, <2>1 DEF Fresh
  <2> QED
    BY <1>1, <1>2, <2>1, <2>2, <2>3, <2>4 DEF Pushed, Channels
<1>5. CASE c = current[p] /\ ~HasRoom(c)
  <2>1. critical' = critical /\ task'[p] = "close" /\ current'[p] = c
    BY <1>5 DEF PushCritical, TypeOK, Goto, FullCloses
  <2>2. Line(c, k)' = Line(c, k)
    BY <1>2, <2>1, QuietLine
  <2> QED
    BY <2>1, <2>2 DEF AboutToClose
<1> QED
  BY <1>3, <1>4, <1>5

\* A broadcast on the other channel appends to one line of its own kind.
LEMMA PushLatestLine ==
  ASSUME IInv, NEW p \in Producers, PushLatest(p),
         NEW c \in Clients, NEW k \in Channels
  PROVE  /\ Line(c, k)' = Line(c, k) \/ Pushed(p, c, k)
         /\ Line(c, "critical")' = Line(c, "critical")
<1> USE DEF IInv
<1>1. /\ task[p] \in {"push", "retry"} /\ p \in LatestProducers
      /\ current[p] \in Clients /\ current[p] \notin todo[p]
      /\ message[p] \in Messages /\ Channel(message[p]) = "latest"
  BY ChannelOf DEF PushLatest, ProducerInv, Busy
<1>2. /\ wire' = wire /\ hand' = hand /\ critical' = critical /\ todo' = todo
      /\ message' = message
  BY DEF PushLatest
<1>3. Line(c, "critical")' = Line(c, "critical")
  BY <1>2, QuietLine
<1>4. CASE latest'[c] = latest[c]
  <2>1. Line(c, k)' = Line(c, k)
    BY <1>2, <1>4, QuietLine
  <2> QED
    BY <1>3, <2>1
<1>5. CASE latest'[c] # latest[c]
  <2>1. /\ c = current[p] /\ latest[c] = <<>>
        /\ latest' = [latest EXCEPT ![c] = <<message[p]>>] /\ Visited(p)
    BY <1>5 DEF PushLatest, TypeOK
  <2>2. latest'[c] = <<message[p]>> /\ task'[p] = "ranging"
    BY <2>1 DEF TypeOK, Visited, Goto
  <2>3. Line(c, "latest")' = Append(Line(c, "latest"), message[p])
    <3>1. Line(c, "latest")'
            = wire[c]["latest"] \o InHand(c, "latest") \o Append(latest[c], message[p])
      <4>1. latest'[c] = Append(latest[c], message[p])
        BY <1>1, <2>1, <2>2
      <4> QED
        BY <1>2, <4>1 DEF Line, InHand, Waiting
    <3>2. /\ wire[c]["latest"] \in Seq(Messages)
          /\ InHand(c, "latest") \in Seq(Messages)
          /\ latest[c] \in Seq(Messages)
      BY LineType DEF Channels, Waiting
    <3>3. Line(c, "latest") = wire[c]["latest"] \o InHand(c, "latest") \o latest[c]
      BY DEF Line, Waiting
    <3> DEFINE w == wire[c]["latest"] h == InHand(c, "latest") q == latest[c] m == message[p]
    <3>4. w \in Seq(Messages) /\ h \in Seq(Messages) /\ q \in Seq(Messages) /\ m \in Messages
      BY <1>1, <3>2
    <3>5. w \o h \o Append(q, m) = Append(w \o h \o q, m)
      <4> HIDE DEF w, h, q, m
      <4> QED
        BY <3>4, MoveQueued
    <3> QED
      BY <3>1, <3>3, <3>5
  <2>4. Fresh(p, c) /\ ~Fresh(p, c)'
    BY <1>1, <1>2, <2>1, <2>2 DEF Fresh
  <2>5. k = "critical" \/ k = "latest"
    BY DEF Channels
  <2> QED
    BY <1>1, <1>2, <1>3, <2>2, <2>3, <2>4, <2>5 DEF Pushed
<1> QED
  BY <1>4, <1>5

\* The retry of a sample begins by emptying one channel.
LEMMA DropOldestLine ==
  ASSUME IInv, NEW p \in Producers, DropOldest(p),
         NEW c \in Clients, NEW k \in Channels
  PROVE  /\ Begins(Line(c, k)', Line(c, k))
         /\ Line(c, "critical")' = Line(c, "critical")
<1>1. wire' = wire /\ hand' = hand /\ critical' = critical
  BY DEF DropOldest
<1>2. Line(c, "critical")' = Line(c, "critical")
  BY <1>1, QuietLine
<1>3. Line(c, k) \in Seq(Messages)
  BY LineType DEF IInv
<1>4. CASE k = "critical" \/ latest'[c] = latest[c]
  <2>1. Line(c, k)' = Line(c, k)
    BY <1>1, <1>4, QuietLine
  <2> QED
    BY <1>2, <1>3, <2>1, SameBegins
<1>5. CASE k = "latest" /\ latest'[c] # latest[c]
  <2>1. latest'[c] = <<>>
    BY <1>5 DEF DropOldest, IInv, TypeOK
  <2> DEFINE w == wire[c][k] h == InHand(c, k) q == Waiting(c, k)
  <2>2. w \in Seq(Messages) /\ h \in Seq(Messages) /\ q \in Seq(Messages)
    BY LineType DEF IInv
  <2>3. Line(c, k)' = w \o h \o <<>> /\ Line(c, k) = w \o h \o q
    BY <1>1, <1>5, <2>1 DEF Line, InHand, Waiting
  <2> HIDE DEF w, h, q
  <2> QED
    BY <1>2, <2>2, <2>3, MoveDropped DEF Begins
<1> QED
  BY <1>4, <1>5 DEF Channels

\* A message that the write pump takes from one channel keeps its place.
LEMMA TakeLine ==
  ASSUME IInv, NEW c \in Clients, NEW from \in Channels, NEW k \in Channels,
         wire' = wire, hand[c] = NoMessage, hand'[c] = Head(Waiting(c, from)),
         Waiting(c, from) # <<>>, Waiting(c, from)' = Tail(Waiting(c, from)),
         \A o \in Channels \ {from} : Waiting(c, o)' = Waiting(c, o)
  PROVE  Line(c, k)' = Line(c, k)
<1> DEFINE s == wire[c][from] r == Waiting(c, from) m == Head(Waiting(c, from))
<1>1. s \in Seq(Messages) /\ r \in Seq(Messages) /\ r # <<>> /\ m = Head(r)
  BY LineType DEF IInv
<1>2. \A o \in Channels : InHand(c, o) = <<>>
  BY DEF InHand
<1>3. m \in Messages /\ m # NoMessage /\ Channel(m) = from
  <2>1. Line(c, from) = s \o <<>> \o r
    BY <1>2 DEF Line
  <2>2. \A i \in 1..Len(Line(c, from)) : Channel(Line(c, from)[i]) = from
    BY DEF IInv, LineInv, Placed
  <2> HIDE DEF s, r, m
  <2>3. /\ m \in Messages
        /\ Len(s) + 1 \in 1..Len(Line(c, from))
        /\ Line(c, from)[Len(s) + 1] = m
    BY <1>1, <2>1
  <2> QED
    BY <2>2, <2>3, ChannelOf
<1>4. CASE k # from
  <2>1. InHand(c, k)' = <<>>
    BY <1>3, <1>4 DEF InHand
  <2> QED
    BY <1>2, <1>4, <2>1 DEF Line
<1>5. CASE k = from
  <2>1. InHand(c, k)' = <<m>>
    BY <1>3, <1>5 DEF InHand
  <2>2. Line(c, k)' = s \o <<m>> \o Tail(r) /\ Line(c, k) = s \o <<>> \o r
    BY <1>2, <1>5, <2>1 DEF Line
  <2> HIDE DEF s, r, m
  <2> QED
    BY <1>1, <2>2, MoveTaken
<1> QED
  BY <1>4, <1>5

\* The write pump takes and writes without changing a line.
LEMMA PumpLine ==
  ASSUME IInv, NEW d \in Clients, TakeCritical(d) \/ TakeLatest(d) \/ Write(d),
         NEW c \in Clients, NEW k \in Channels
  PROVE  Line(c, k)' = Line(c, k)
<1> DEFINE w == wire[c][k] h == InHand(c, k) q == Waiting(c, k)
<1>0. w \in Seq(Messages) /\ h \in Seq(Messages) /\ q \in Seq(Messages)
  BY LineType DEF IInv
<1>1. CASE c # d
  <2>1. /\ wire'[c] = wire[c] /\ hand'[c] = hand[c]
        /\ critical'[c] = critical[c] /\ latest'[c] = latest[c]
    BY <1>1 DEF TakeCritical, TakeLatest, Write, IInv, TypeOK
  <2> QED
    BY <2>1, QuietLine
<1>2. CASE c = d /\ TakeCritical(c)
  <2>1. /\ wire' = wire /\ latest' = latest /\ hand[c] = NoMessage /\ critical[c] # <<>>
        /\ hand'[c] = Head(critical[c]) /\ critical'[c] = Tail(critical[c])
    <3>1. hand[c] = NoMessage
      BY <1>2 DEF TakeCritical, IInv, HandInv
    <3>2. c \in DOMAIN hand /\ c \in DOMAIN critical
      BY DEF IInv, TypeOK
    <3> QED
      BY <1>2, <3>1, <3>2 DEF TakeCritical, Taken
  <2>2. /\ "critical" \in Channels /\ Waiting(c, "critical") = critical[c]
        /\ Waiting(c, "critical")' = critical'[c]
        /\ \A o \in Channels \ {"critical"} : Waiting(c, o)' = Waiting(c, o)
    BY <2>1 DEF Waiting, Channels
  <2> QED
    BY <2>1, <2>2, TakeLine
<1>3. CASE c = d /\ TakeLatest(c)
  <2>1. /\ wire' = wire /\ critical' = critical /\ hand[c] = NoMessage /\ latest[c] # <<>>
        /\ hand'[c] = Head(latest[c]) /\ latest'[c] = <<>>
    <3>1. hand[c] = NoMessage
      BY <1>3 DEF TakeLatest, IInv, HandInv
    <3>2. c \in DOMAIN hand /\ c \in DOMAIN latest
      BY DEF IInv, TypeOK
    <3> QED
      BY <1>3, <3>1, <3>2 DEF TakeLatest
  <2>2. Tail(latest[c]) = <<>>
    <3>1. latest[c] \in Seq(Messages) /\ Len(latest[c]) <= 1
      BY DEF IInv, TypeOK
    <3> QED
      BY <2>1, <3>1
  <2>3. /\ "latest" \in Channels /\ Waiting(c, "latest") = latest[c]
        /\ Waiting(c, "latest")' = latest'[c]
        /\ \A o \in Channels \ {"latest"} : Waiting(c, o)' = Waiting(c, o)
    BY <2>1 DEF Waiting, Channels
  <2> QED
    BY <2>1, <2>2, <2>3, TakeLine
<1>4. CASE c = d /\ Write(c)
  <2> DEFINE m == hand[c]
  <2>1. /\ m \in Messages /\ m # NoMessage /\ hand'[c] = NoMessage
        /\ critical' = critical /\ latest' = latest
    BY <1>4, ChannelOf DEF Write, IInv, TypeOK, HandInv
  <2>2. InHand(c, k)' = <<>> /\ Waiting(c, k)' = Waiting(c, k)
    BY <2>1 DEF InHand, Waiting
  <2>3. CASE Channel(m) = k
    <3>1. wire'[c][k] = Append(w, m) /\ InHand(c, k) = <<m>>
      BY <1>4, <2>1, <2>3 DEF Write, InHand, IInv, TypeOK
    <3>2. Line(c, k)' = Append(w, m) \o <<>> \o q /\ Line(c, k) = w \o <<m>> \o q
      BY <2>2, <3>1 DEF Line
    <3> HIDE DEF w, q, m
    <3> QED
      BY <1>0, <2>1, <3>2, MoveWritten
  <2>4. CASE Channel(m) # k
    <3>1. wire'[c][k] = w /\ InHand(c, k) = <<>>
      BY <1>4, <2>1, <2>4 DEF Write, InHand, IInv, TypeOK
    <3> QED
      BY <2>2, <3>1 DEF Line
  <2> QED
    BY <2>3, <2>4
<1> QED
  BY <1>1, <1>2, <1>3, <1>4

\* What a step makes of the line of channel k of client c: it is left as it began, or
\* one message is pushed to its end; and what the client was due grows with its
\* critical line, unless it is about to be closed.
LineMoves(c, k) ==
  /\ \/ Begins(Line(c, k)', Line(c, k))
     \/ \E p \in Producers : Pushed(p, c, k)
  /\ \/ AboutToClose(c)'
     \/ Line(c, "critical")' = Line(c, "critical") /\ due'[c] = due[c]
     \/ \E p \in Producers :
          /\ Line(c, "critical")' = Append(Line(c, "critical"), message[p])
          /\ due'[c] = Append(due[c], message[p])

\* Lines that stay move so.
LEMMA QuietMoves ==
  ASSUME IInv, NEW c \in Clients, NEW k \in Channels, due'[c] = due[c],
         \A h \in Channels : Line(c, h)' = Line(c, h)
  PROVE  LineMoves(c, k)
<1>1. Begins(Line(c, k), Line(c, k))
  BY LineType, SameBegins DEF IInv
<1> QED
  BY <1>1 DEF LineMoves, Channels

\* Every step moves the lines so.
LEMMA LineStep ==
  ASSUME IInv, Next, NEW c \in Clients, NEW k \in Channels
  PROVE  LineMoves(c, k)
<1>1. CASE /\ wire' = wire /\ hand' = hand /\ critical' = critical
           /\ latest' = latest /\ due' = due
  BY <1>1, QuietLine, QuietMoves
<1>2. ASSUME NEW p \in Producers, PushCritical(p) PROVE LineMoves(c, k)
  <2>1. Line(c, k)' = Line(c, k) => Begins(Line(c, k)', Line(c, k))
    BY LineType, SameBegins DEF IInv
  <2> QED
    BY <1>2, <2>1, PushCriticalLine DEF LineMoves
<1>3. ASSUME NEW p \in Producers, PushLatest(p) PROVE LineMoves(c, k)
  <2>1. Line(c, k)' = Line(c, k) => Begins(Line(c, k)', Line(c, k))
    BY LineType, SameBegins DEF IInv
  <2>2. due' = due
    BY <1>3 DEF PushLatest
  <2> QED
    BY <1>3, <2>1, <2>2, PushLatestLine DEF LineMoves
<1>4. ASSUME NEW p \in Producers, DropOldest(p) PROVE LineMoves(c, k)
  <2>1. due' = due
    BY <1>4 DEF DropOldest
  <2> QED
    BY <1>4, <2>1, DropOldestLine DEF LineMoves
<1>5. ASSUME NEW p \in Producers, Produce(p),
             ~(PushCritical(p) \/ PushLatest(p) \/ DropOldest(p))
      PROVE  LineMoves(c, k)
  BY <1>1, <1>5 DEF Produce, Stamp, StartRange, EndRange, Visit, CloseSlowClient,
                    SendOnClosed, clientVars
<1>6. ASSUME NEW d \in Clients, TakeCritical(d) \/ TakeLatest(d) \/ Write(d)
      PROVE  LineMoves(c, k)
  <2>1. due' = due
    BY <1>6 DEF TakeCritical, TakeLatest, Write
  <2> QED
    BY <1>6, <2>1, PumpLine, QuietMoves
<1>7. ASSUME NEW d \in Clients, Connect(d) \/ Disconnect(d) \/ Serve(d),
             ~(TakeCritical(d) \/ TakeLatest(d) \/ Write(d))
      PROVE  LineMoves(c, k)
  BY <1>1, <1>7 DEF Connect, Disconnect, Serve, Pump, Leave, WriteFails, PumpReturns,
                    ReadFails, Unregister, CloseRemoved
<1> QED
  BY <1>2, <1>3, <1>4, <1>5, <1>6, <1>7 DEF Next
-----------------------------------------------------------------------------
(* The invariant *)

\* A message keeps its place in a line while the broadcast of its producer goes on.
LEMMA PlacedStep ==
  ASSUME IInv, TypeOK', NEW c \in Clients, NEW k \in Channels, NEW m \in Messages,
         Placed(c, k, m), \A q \in Producers : ProducerInv(q) /\ Onward(q)
  PROVE  Placed(c, k, m)'
<1> DEFINE q == m.from
<1>1. /\ q \in Producers /\ m.seq \in Nat /\ seq \in Nat /\ seq' \in Nat
      /\ message[q] \in Messages => message[q].seq \in Nat
  BY ChannelOf, HubAssumption DEF IInv, TypeOK
<1>2. Onward(q) /\ ProducerInv(q)
  BY <1>1
<1>3. seq <= seq' /\ m.seq <= seq'
  BY <1>1, <1>2 DEF Onward, Placed
<1>4. CASE task'[q] = "idle"
  BY <1>3, <1>4 DEF Placed, Channel, IsCritical
<1>5. CASE task[q] = "idle" /\ seq' = seq + 1 /\ message'[q].seq = seq'
  BY <1>1, <1>3, <1>5 DEF Placed, Channel, IsCritical
<1>6. CASE /\ task[q] # "idle" /\ message'[q] = message[q]
           /\ \A d \in Clients : Fresh(q, d)' => Fresh(q, d)
  <2>1. message[q].seq \in Nat
    BY <1>1, <1>2, <1>6 DEF ProducerInv
  <2> QED
    BY <1>1, <1>3, <1>6, <2>1 DEF Placed, Channel, IsCritical
<1> QED
  BY <1>2, <1>4, <1>5, <1>6 DEF Onward

\* A line stays ordered, with every message in its place.
LEMMA LineStays ==
  ASSUME IInv, TypeOK', NEW c \in Clients, NEW k \in Channels, LineMoves(c, k),
         \A q \in Producers : ProducerInv(q) /\ Onward(q) /\ ProducerInv(q)'
  PROVE  LineInv(c, k)'
<1> DEFINE s == Line(c, k) t == Line(c, k)'
<1>1. /\ s \in Seq(Messages) /\ Ordered(s)
      /\ \A i \in 1..Len(s) : Placed(c, k, s[i]) /\ s[i] \in Messages
  BY LineType DEF IInv, LineInv
<1>2. \A m \in Messages : Placed(c, k, m) => Placed(c, k, m)'
  BY PlacedStep
<1> HIDE DEF s, t
<1>3. SUFFICES /\ Ordered(t)
               /\ \A i \in 1..Len(t) : \E m \in Messages : m = t[i] /\ Placed(c, k, m)'
  BY DEF LineInv, Placed, t
<1>4. CASE Begins(t, s)
  <2>1. Len(t) <= Len(s) /\ \A i \in 1..Len(t) : t[i] = s[i] /\ i \in 1..Len(s)
    BY <1>1, <1>4 DEF Begins
  <2>2. Ordered(t)
    BY <1>1, <2>1 DEF Ordered
  <2>3. \A i \in 1..Len(t) : \E m \in Messages : m = t[i] /\ Placed(c, k, m)'
    BY <1>1, <1>2, <2>1
  <2> QED
    BY <2>2, <2>3
<1>5. ASSUME NEW p \in Producers, Pushed(p, c, k)
      PROVE  /\ Ordered(t)
             /\ \A i \in 1..Len(t) : \E m \in Messages : m = t[i] /\ Placed(c, k, m)'
  <2> DEFINE n == message[p]
  <2>1. /\ n \in Messages /\ n.from = p /\ n.seq <= seq /\ seq <= seq'
        /\ n.seq \in Nat /\ seq \in Nat /\ seq' \in Nat
    BY <1>5, ChannelOf, HubAssumption DEF Pushed, ProducerInv, Onward, IInv, TypeOK
  <2>2. t = Append(s, n)
    BY <1>5 DEF Pushed, s, t
  <2>3. \A i \in 1..Len(s) : s[i].from = p => s[i].seq < n.seq
    BY <1>1, <1>5 DEF Placed, Pushed
  <2>4. \E m \in Messages : m = n /\ Placed(c, k, m)'
    <3>1. PICK m \in Messages : m = n
      BY <2>1
    <3>2. /\ m.from = p /\ m.seq <= seq' /\ m.seq <= message'[p].seq
          /\ Channel(m) = k /\ Channel(m)' = Channel(m) /\ ~Fresh(p, c)'
      BY <1>5, <2>1, <3>1 DEF Pushed, Channel, IsCritical
    <3>3. Placed(c, k, m)'
      BY <3>2 DEF Placed, Fresh
    <3> QED
      BY <3>1, <3>3
  <2> HIDE DEF n
  <2>5. /\ t \in Seq(Messages) /\ Len(t) = Len(s) + 1 /\ Len(s) \in Nat
        /\ t[Len(s) + 1] = n
        /\ \A i \in 1..Len(s) : t[i] = s[i]
    BY <1>1, <2>1, <2>2
  <2>6. \A i \in 1..Len(t) : i \in 1..Len(s) \/ (t[i] = n /\ i = Len(s) + 1)
    BY <2>5
  <2>7. Ordered(t)
    <3> SUFFICES ASSUME NEW i \in 1..Len(t), NEW j \in 1..Len(t), i < j,
                        t[i].from = t[j].from
                 PROVE  t[i].seq < t[j].seq
      BY DEF Ordered
    <3>1. i \in 1..Len(s)
      BY <2>5
    <3>2. CASE j \in 1..Len(s)
      BY <1>1, <2>5, <3>1, <3>2 DEF Ordered
    <3>3. CASE t[j] = n
      BY <2>1, <2>3, <2>5, <3>1, <3>3
    <3> QED
      BY <2>6, <3>2, <3>3
  <2>8. \A i \in 1..Len(t) : \E m \in Messages : m = t[i] /\ Placed(c, k, m)'
    BY <1>1, <1>2, <2>4, <2>5, <2>6
  <2> QED
    BY <2>7, <2>8
<1> QED
  BY <1>3, <1>4, <1>5 DEF LineMoves, s, t

\* The goroutines of the clients leave the producers alone.
LEMMA ClientsQuiet ==
  ASSUME NEW c \in Clients, Connect(c) \/ Disconnect(c) \/ Serve(c)
  PROVE  UNCHANGED producerVars
BY DEF Serve, Pump, Leave, Connect, Disconnect, TakeCritical, TakeLatest, Write,
       WriteFails, PumpReturns, ReadFails, Unregister, CloseRemoved, producerVars

\* A closed client stays closed, and one that is about to be closed is.
LEMMA ClosedStays ==
  ASSUME IInv, Next, NEW c \in Clients
  PROVE  /\ closed[c] => closed'[c]
         /\ AboutToClose(c) => AboutToClose(c)' \/ closed'[c]
<1> USE DEF IInv, TypeOK
<1>1. closed[c] => closed'[c]
  <2>1. ASSUME NEW d, Close(d) PROVE closed[c] => closed'[c]
    BY <2>1 DEF Close
  <2>2. ASSUME NEW p \in Producers, Produce(p) PROVE closed[c] => closed'[c]
    <3>1. CASE CloseSlowClient(p)
      BY <2>1, <3>1 DEF CloseSlowClient
    <3>2. CASE ~CloseSlowClient(p)
      BY <2>2, <3>2 DEF Produce, Stamp, StartRange, EndRange, Visit, PushCritical,
                        PushLatest, DropOldest, SendOnClosed, clientVars
    <3> QED
      BY <3>1, <3>2
  <2>3. ASSUME NEW d \in Clients, Connect(d) \/ Disconnect(d) \/ Serve(d)
        PROVE  closed[c] => closed'[c]
    <3>1. CASE CloseRemoved(d)
      BY <2>1, <3>1 DEF CloseRemoved
    <3>2. CASE ~CloseRemoved(d)
      BY <2>3, <3>2 DEF Serve, Pump, Leave, Connect, Disconnect, TakeCritical,
                        TakeLatest, Write, WriteFails, PumpReturns, ReadFails, Unregister
    <3> QED
      BY <3>1, <3>2
  <2> QED
    BY <2>2, <2>3 DEF Next
<1>2. ASSUME AboutToClose(c) PROVE AboutToClose(c)' \/ closed'[c]
  <2>1. PICK p \in Producers : task[p] = "close" /\ current[p] = c
    BY <1>2 DEF AboutToClose
  <2>2. CASE task'[p] = task[p] /\ current'[p] = current[p]
    BY <2>1, <2>2 DEF AboutToClose
  <2>3. ASSUME NEW q \in Producers, Produce(q), q # p
        PROVE  task'[p] = task[p] /\ current'[p] = current[p]
    BY <2>3
       DEF Produce, Stamp, StartRange, EndRange, Visit, PushCritical, CloseSlowClient,
           PushLatest, DropOldest, SendOnClosed, Goto, Visited, producerVars
  <2>4. CASE Produce(p)
    <3>1. CloseSlowClient(p)
      BY <2>1, <2>4 DEF Produce, Stamp, StartRange, EndRange, Visit, PushCritical,
                        PushLatest, DropOldest, SendOnClosed
    <3> QED
      BY <2>1, <3>1 DEF CloseSlowClient, Close
  <2>5. ASSUME NEW d \in Clients, Connect(d) \/ Disconnect(d) \/ Serve(d)
        PROVE  task'[p] = task[p] /\ current'[p] = current[p]
    BY <2>5, ClientsQuiet DEF producerVars
  <2> QED
    BY <2>2, <2>3, <2>4, <2>5 DEF Next
<1> QED
  BY <1>1, <1>2

\* Every step keeps the inductive invariant.
LEMMA NextIInv == IInv /\ [Next]_vars => IInv'
<1> SUFFICES ASSUME IInv, [Next]_vars PROVE IInv'
  OBVIOUS
<1>1. CASE Next
  <2>1. TypeOK'
    BY <1>1, ProduceType, ServeType DEF Next
  <2>2. \A q \in Producers : ProducerInv(q)' /\ Onward(q)
    <3>1. ASSUME NEW p \in Producers, Produce(p), NEW q \in Producers
          PROVE  ProducerInv(q)' /\ Onward(q)
      BY <3>1, OwnStep, OtherProducer
    <3>2. ASSUME NEW c \in Clients, Connect(c) \/ Disconnect(c) \/ Serve(c),
                 NEW q \in Producers
          PROVE  ProducerInv(q)' /\ Onward(q)
      BY <3>2, ClientsQuiet, ClientsKeepProducers
    <3> QED
      BY <1>1, <3>1, <3>2 DEF Next
  <2>3. HandInv'
    <3>1. ASSUME NEW p \in Producers, Produce(p) PROVE pump' = pump /\ hand' = hand
      BY <3>1 DEF Produce, Stamp, StartRange, EndRange, Visit, PushCritical,
                  CloseSlowClient, PushLatest, DropOldest, SendOnClosed, clientVars
    <3>2. HandInv
      BY DEF IInv
    <3> QED
      BY <1>1, <3>1, <3>2, HandStep DEF Next, HandInv
  <2>4. \A c \in Clients, k \in Channels : LineInv(c, k)'
    <3>1. \A p \in Producers : ProducerInv(p)
      BY DEF IInv
    <3> QED
      BY <1>1, <2>1, <2>2, <3>1, LineStep, LineStays
  <2>5. NoSilentLoss'
    <3> SUFFICES ASSUME NEW c \in Clients
                 PROVE  \/ closed'[c] \/ AboutToClose(c)'
                        \/ Line(c, "critical")' = due'[c]
      BY DEF NoSilentLoss
    <3>1. closed[c] \/ AboutToClose(c) \/ Line(c, "critical") = due[c]
      BY DEF IInv, NoSilentLoss
    <3>2. LineMoves(c, "critical")
      BY <1>1, LineStep DEF Channels
    <3>3. /\ closed[c] => closed'[c]
          /\ AboutToClose(c) => AboutToClose(c)' \/ closed'[c]
      BY <1>1, ClosedStays
    <3>4. CASE Line(c, "critical") = due[c]
      BY <3>2, <3>4 DEF LineMoves
    <3> QED
      BY <3>1, <3>3, <3>4
  <2> QED
    BY <2>1, <2>2, <2>3, <2>4, <2>5 DEF IInv
<1>2. CASE UNCHANGED vars
  <2> USE <1>2 DEF vars, producerVars, clientVars
  <2>1. TypeOK' /\ HandInv' /\ \A p \in Producers : ProducerInv(p)'
    BY DEF IInv, TypeOK, HandInv, ProducerInv
  <2>2. \A c \in Clients, k \in Channels : Line(c, k)' = Line(c, k)
    BY DEF Line, InHand, Waiting
  <2>3. \A c \in Clients, k \in Channels : LineInv(c, k)'
    BY <2>2 DEF IInv, LineInv, Placed, Fresh, Ordered
  <2>4. NoSilentLoss'
    BY <2>2 DEF IInv, NoSilentLoss, AboutToClose, Channels
  <2> QED
    BY <2>1, <2>3, <2>4 DEF IInv
<1> QED
  BY <1>1, <1>2

\* The inductive invariant holds in every reachable state.
LEMMA Invariance == Spec => []IInv
<1> QED
  BY InitIInv, NextIInv, PTL DEF Spec
-----------------------------------------------------------------------------
\* The hub's state always has its type; in particular no channel of a client ever
\* holds more than its capacity, whatever broadcasts at once.
THEOREM TypeCorrect == Spec => []TypeOK
<1>1. IInv => TypeOK
  BY DEF IInv
<1> QED
  BY <1>1, Invariance, PTL

\* No state change is dropped from under an open client: what it was sent, holds and
\* will be sent is all that was broadcast to it, unless its full buffer is about to
\* cost it the connection (hub.go, pushCritical).
THEOREM NothingLost == Spec => []NoSilentLoss
<1>1. IInv => NoSilentLoss
  BY DEF IInv
<1> QED
  BY <1>1, Invariance, PTL

\* A browser is sent the messages of one type in the order of their numbers, though
\* the number is taken before the lock and every producer broadcasts on its own.
THEOREM InOrder == Spec => []TypeOrder
<1>1. IInv => TypeOrder
  <2> SUFFICES ASSUME IInv, NEW c \in Clients, NEW k \in Channels,
                      NEW i \in 1..Len(wire[c][k]), NEW j \in 1..Len(wire[c][k]),
                      i < j, wire[c][k][i].from = wire[c][k][j].from
               PROVE  wire[c][k][i].seq < wire[c][k][j].seq
    BY DEF TypeOrder
  <2> DEFINE w == wire[c][k] r == InHand(c, k) \o Waiting(c, k) s == Line(c, k)
  <2>1. /\ w \in Seq(Messages) /\ InHand(c, k) \in Seq(Messages)
        /\ Waiting(c, k) \in Seq(Messages)
    BY LineType DEF IInv
  <2>2. r \in Seq(Messages) /\ s = w \o r
    <3> DEFINE h == InHand(c, k) q == Waiting(c, k)
    <3>1. s = w \o h \o q /\ r = h \o q
      BY DEF Line
    <3> HIDE DEF w, h, q, r, s
    <3>2. w \in Seq(Messages) /\ h \in Seq(Messages) /\ q \in Seq(Messages)
      BY <2>1 DEF w, h, q
    <3> QED
      BY <3>1, <3>2
  <2>3. Ordered(s)
    BY DEF IInv, LineInv
  <2> HIDE DEF w, r, s
  <2>4. Len(w) <= Len(s) /\ \A h \in 1..Len(w) : s[h] = w[h] /\ h \in 1..Len(s)
    BY <2>1, <2>2 DEF w
  <2> QED
    BY <2>3, <2>4 DEF Ordered, w
<1> QED
  BY <1>1, Invariance, PTL
=============================================================================
