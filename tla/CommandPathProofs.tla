-------------------------- MODULE CommandPathProofs --------------------------
(***************************************************************************)
(* Theorems about CommandPath: no false acknowledgement, and an emergency  *)
(* stop that holds, for any number of requests, retries and lost           *)
(* connections.                                                            *)
(***************************************************************************)
EXTENDS CommandPath, TLAPS

In(x, s) == \E k \in 1..Len(s) : s[k] = x

\* What is under way or was executed was sent by a request that has arrived.
SentInv ==
  \A r \in Requests :
    /\ pc[r] = "new" => r \notin executed /\ ~In(r, queue) /\ ~In(r, toBridge)
    /\ pc[r] \in {"runner", "launch"} => Kind[r] = "area"

\* The bridge has executed a command with this id.
Acked(i) == \E q \in executed : Id[q] = i

\* Wherever "accepted" is on its way to the operator, the bridge has executed a
\* command with the id, or the command is not for the bridge.
AckInv ==
  /\ \A k \in 1..Len(toBackend) :
       toBackend[k].result = "accepted" => Acked(toBackend[k].id)
  /\ \A i \in Ids : pending[i] # NoRequest => Id[pending[i]] = i
  /\ \A r \in Requests : mailbox[r] = "accepted" => Acked(Id[r])
  /\ \A r \in Requests : outcome[r] = "accepted" /\ Kind[r] # "area" => Acked(Id[r])
  /\ \A i \in Ids :
       idem[i] = "accepted" => Acked(i) \/ \E r \in Requests : Id[r] = i /\ Kind[r] = "area"
  /\ NoFalseAck

\* The bridge is locked from the first stop it executes until it executes a clear
\* or restarts.
LockInv ==
  (\E s \in executed : Kind[s] = "stop") =>
    locked \/ restarts \/ \E c \in executed : Kind[c] = "clear"

IInv == TypeOK /\ SentInv /\ AckInv /\ LockInv

LEMMA InitIInv == Init => IInv
<1> SUFFICES ASSUME Init PROVE IInv
  OBVIOUS
<1>1. queue = <<>> /\ toBridge = <<>> /\ toBackend = <<>>
  BY DEF Init
<1>2. /\ queue \in Seq(Requests) /\ toBridge \in Seq(Requests)
      /\ toBackend \in Seq([id : Ids, result : {"accepted", "rejected"}])
      /\ Len(queue) = 0 /\ Len(toBridge) = 0 /\ Len(toBackend) = 0
  BY <1>1
<1>3. 0 <= QueueCap /\ 0 \in 0..MaxBreaks
  BY CommandAssumption
<1>4. TypeOK
  BY <1>2, <1>3 DEF Init, TypeOK, Stages, Outcomes, Answers, Results
<1>5. SentInv
  BY <1>2 DEF Init, SentInv, In
<1>6. AckInv /\ LockInv
  BY <1>2 DEF Init, AckInv, NoFalseAck, LockInv
<1> QED
  BY <1>4, <1>5, <1>6 DEF IInv
-----------------------------------------------------------------------------
LEMMA NonEmpty ==
  ASSUME NEW S, NEW s \in Seq(S), s # <<>>
  PROVE  /\ Len(s) \in Nat /\ Head(s) \in S /\ In(Head(s), s)
         /\ Tail(s) \in Seq(S) /\ Len(Tail(s)) = Len(s) - 1
         /\ \A k \in 1..Len(Tail(s)) : Tail(s)[k] = s[k + 1] /\ k + 1 \in 1..Len(s)
         /\ \A x : In(x, Tail(s)) => In(x, s)
<1>1. /\ Len(s) \in Nat /\ Len(s) >= 1 /\ Head(s) = s[1] /\ Head(s) \in S
      /\ Tail(s) \in Seq(S) /\ Len(Tail(s)) = Len(s) - 1
      /\ \A k \in 1..Len(Tail(s)) : Tail(s)[k] = s[k + 1] /\ k + 1 \in 1..Len(s)
  OBVIOUS
<1> QED
  BY <1>1 DEF In

LEMMA Appended ==
  ASSUME NEW S, NEW s \in Seq(S), NEW x \in S
  PROVE  /\ Append(s, x) \in Seq(S) /\ Len(Append(s, x)) = Len(s) + 1
         /\ \A k \in 1..Len(Append(s, x)) :
              Append(s, x)[k] = x \/ (k \in 1..Len(s) /\ Append(s, x)[k] = s[k])
         /\ \A y : In(y, Append(s, x)) => y = x \/ In(y, s)
<1>1. /\ Append(s, x) \in Seq(S) /\ Len(Append(s, x)) = Len(s) + 1 /\ Len(s) \in Nat
      /\ \A k \in 1..Len(s) : Append(s, x)[k] = s[k]
      /\ Append(s, x)[Len(s) + 1] = x
  OBVIOUS
<1> QED
  BY <1>1 DEF In

\* The values that AfterSend and the results may take.
LEMMA Returns ==
  ASSUME NEW r \in Requests, NEW result
  PROVE  AfterSend(r, result) \in {"emergency", "reply", "close", "set"}
BY DEF AfterSend

\* The types after a step of a handler that touches neither runner nor queues.
LEMMA HandlerType ==
  ASSUME TypeOK, NEW r \in Requests,
         \/ Arrive(r) \/ Lookup(r) \/ LockRunner(r) \/ Launch(r) \/ StopRunner(r)
  PROVE  TypeOK'
<1>1. /\ pc' \in [Requests -> Stages] /\ answer' \in [Requests -> Answers]
      /\ outcome' \in [Requests -> Outcomes]
  <2> USE DEF TypeOK, Goto, Finish
  <2>1. \A t \in Results \cup {"refused", "failed"} : t \in Answers
    BY DEF Answers, Outcomes, Results
  <2>2. CASE Arrive(r)
    BY <2>1, <2>2 DEF Arrive, Stages
  <2>3. CASE Lookup(r)
    <3>1. idem[Id[r]] \in Answers
      BY <2>1, CommandAssumption
    <3> QED
      BY <2>3, <3>1 DEF Lookup, Stages
  <2>4. CASE LockRunner(r) \/ StopRunner(r)
    BY <2>4 DEF LockRunner, StopRunner, Stages
  <2>5. CASE Launch(r)
    BY <2>1, <2>5 DEF Launch, Stages, Outcomes
  <2> QED
    BY <2>2, <2>3, <2>4, <2>5
<1>2. runner' \in Requests \cup {NoRequest} /\ area' \in Requests \cup {NoRequest}
  BY DEF TypeOK, Arrive, Lookup, LockRunner, StopRunner, Launch, runnerVars
<1>3. UNCHANGED <<idem, cacheVars, clientVars, linkVars, bridgeVars>>
  BY DEF Arrive, Lookup, LockRunner, StopRunner, Launch
<1> QED
  BY <1>1, <1>2, <1>3 DEF TypeOK, cacheVars, clientVars, linkVars, bridgeVars

LEMMA SendType ==
  ASSUME TypeOK, NEW r \in Requests,
         Send(r) \/ Enqueue(r) \/ Receive(r) \/ Deadline(r)
  PROVE  TypeOK'
<1> USE DEF TypeOK, cacheVars, runnerVars, clientVars, linkVars, bridgeVars, Goto
<1>1. CASE Send(r)
  <2>1. pc' \in [Requests -> Stages]
    BY <1>1, Returns DEF Send, Return, Stages
  <2>2. outcome' \in [Requests -> Outcomes]
    BY <1>1 DEF Send, Return, Outcomes
  <2>3. pending' \in [Ids -> Requests \cup {NoRequest}]
    BY <1>1 DEF Send
  <2> QED
    BY <1>1, <2>1, <2>2, <2>3 DEF Send
<1>2. CASE Enqueue(r)
  <2>1. /\ Append(queue, r) \in Seq(Requests) /\ Len(Append(queue, r)) = Len(queue) + 1
        /\ Len(queue) \in Nat /\ QueueCap \in Nat
    BY CommandAssumption
  <2>2. queue' \in Seq(Requests) /\ Len(queue') <= QueueCap
    BY <1>2, <2>1 DEF Enqueue, QueueHasRoom
  <2> QED
    BY <1>2, <2>2 DEF Enqueue, Stages
<1>3. CASE Receive(r)
  BY <1>3, Returns, CommandAssumption DEF Receive, Return, Forget, Stages, Outcomes, Results
<1>4. CASE Deadline(r)
  BY <1>4, Returns, CommandAssumption DEF Deadline, Return, Forget, Stages, Outcomes
<1> QED
  BY <1>1, <1>2, <1>3, <1>4

LEMMA StateType ==
  ASSUME TypeOK, NEW r \in Requests,
         SetEmergency(r) \/ CloseMission(r) \/ OpenMission(r) \/ SetMission(r) \/ Reply(r)
  PROVE  TypeOK'
<1> USE DEF TypeOK, cacheVars, runnerVars, clientVars, linkVars, bridgeVars, Goto, Finish
<1>1. CASE SetEmergency(r) \/ CloseMission(r) \/ OpenMission(r)
  <2>1. pc' \in [Requests -> Stages] /\ emergency' \in BOOLEAN
    BY <1>1 DEF SetEmergency, CloseMission, OpenMission, Stages
  <2>2. rows' \subseteq Requests /\ activeRow' \in Requests \cup {NoRequest}
    BY <1>1 DEF SetEmergency, CloseMission, OpenMission
  <2> QED
    BY <1>1, <2>1, <2>2 DEF SetEmergency, CloseMission, OpenMission
<1>2. CASE SetMission(r)
  <2>1. mission' \in {"pending", "running", "paused", "aborted"}
    BY <1>2, CommandAssumption DEF SetMission, Kinds
  <2>2. emergency' \in BOOLEAN
    BY <1>2 DEF SetMission
  <2> QED
    BY <1>2, <2>1, <2>2 DEF SetMission, Stages
<1>3. CASE Reply(r)
  <2>1. idem' \in [Ids -> Results]
    BY <1>3, CommandAssumption DEF Reply, Stores, Results
  <2> QED
    BY <1>3, <2>1 DEF Reply, Stages, Answers
<1> QED
  BY <1>1, <1>2, <1>3

LEMMA TransportType ==
  ASSUME TypeOK, Transport
  PROVE  TypeOK'
<1> USE DEF TypeOK, apiVars, cacheVars, runnerVars, clientVars, linkVars, bridgeVars
<1>1. CASE Connect
  BY <1>1 DEF Connect
<1>2. CASE Break
  <2>1. \A n \in 0..Len(toBridge) : SubSeq(toBridge, 1, n) \in Seq(Requests)
    OBVIOUS
  <2> QED
    BY <1>2, <2>1, CommandAssumption DEF Break
<1>3. CASE NoticeBreak
  BY <1>3 DEF NoticeBreak
<1>4. CASE WriteNext
  <2>1. queue # <<>> /\ Head(queue) \in Requests /\ Tail(queue) \in Seq(Requests)
        /\ Len(Tail(queue)) = Len(queue) - 1 /\ Len(queue) \in Nat
    BY <1>4, NonEmpty DEF WriteNext
  <2>2. Len(queue') <= QueueCap
    BY <1>4, <2>1, CommandAssumption DEF WriteNext
  <2>3. toBridge' \in Seq(Requests)
    BY <1>4, <2>1 DEF WriteNext
  <2> QED
    BY <1>4, <2>1, <2>2, <2>3 DEF WriteNext
<1>5. CASE Dispatch
  <2> DEFINE Replies == [id : Ids, result : {"accepted", "rejected"}]
  <2>1. toBackend \in Seq(Replies) /\ toBackend # <<>>
    BY <1>5 DEF Dispatch
  <2>2. \A m \in Replies : m.result \in Results
    BY DEF Results
  <2>3. Head(toBackend) \in Replies /\ toBackend' \in Seq(Replies)
    <3> HIDE DEF Replies
    <3>1. Head(toBackend) \in Replies /\ Tail(toBackend) \in Seq(Replies)
      BY <2>1, NonEmpty
    <3> QED
      BY <1>5, <3>1 DEF Dispatch
  <2>4. mailbox' \in [Requests -> Results]
    BY <1>5, <2>2, <2>3 DEF Dispatch
  <2> QED
    BY <1>5, <2>3, <2>4 DEF Dispatch
<1> QED
  BY <1>1, <1>2, <1>3, <1>4, <1>5 DEF Transport

LEMMA RepliesType ==
  ASSUME TypeOK, NEW r \in Requests, NEW result \in {"accepted", "rejected"},
         BridgeReplies(r, result)
  PROVE  toBackend' \in Seq([id : Ids, result : {"accepted", "rejected"}])
<1> DEFINE Replies == [id : Ids, result : {"accepted", "rejected"}]
<1> DEFINE m == [id |-> Id[r], result |-> result]
<1>1. m \in Replies
  BY CommandAssumption
<1>2. toBackend \in Seq(Replies) /\ (toBackend' = toBackend \/ toBackend' = Append(toBackend, m))
  BY DEF TypeOK, BridgeReplies
<1> HIDE DEF Replies, m
<1>3. toBackend' \in Seq(Replies)
  BY <1>1, <1>2, Appended
<1> QED
  BY <1>3 DEF Replies

LEMMA RobotType ==
  ASSUME TypeOK, Robot
  PROVE  TypeOK'
<1> USE DEF TypeOK, apiVars, cacheVars, runnerVars, clientVars, linkVars
<1>1. CASE BridgeHandles
  <2> DEFINE r == Head(toBridge)
  <2>1. toBridge # <<>> /\ r \in Requests /\ Tail(toBridge) \in Seq(Requests)
    BY <1>1, NonEmpty DEF BridgeHandles
  <2>2. toBridge' \in Seq(Requests)
    BY <1>1, <2>1 DEF BridgeHandles
  <2>3. toBackend' \in Seq([id : Ids, result : {"accepted", "rejected"}])
    <3>1. BridgeReplies(r, "accepted") \/ BridgeReplies(r, "rejected")
      BY <1>1 DEF BridgeHandles
    <3> QED
      BY <2>1, <3>1, RepliesType
  <2>4. /\ locked' \in BOOLEAN /\ lastGoal' \in BOOLEAN /\ driving' \in BOOLEAN
        /\ executed' \subseteq Requests
    BY <1>1, <2>1 DEF BridgeHandles, Execute, SendsGoal
  <2> QED
    BY <1>1, <2>2, <2>3, <2>4 DEF BridgeHandles
<1>2. CASE BridgeRestarts
  <2>1. breaks' \in 0..MaxBreaks
    BY <1>2, CommandAssumption DEF BridgeRestarts
  <2>2. toBridge' \in Seq(Requests)
    BY <1>2 DEF BridgeRestarts
  <2>3. /\ UNCHANGED <<apiVars, cacheVars, runnerVars, clientVars>>
        /\ toBackend' = toBackend /\ driving' = driving /\ executed' = executed
    BY <1>2 DEF BridgeRestarts
  <2>4. /\ conn' \in {"down", "up", "broken"} /\ locked' \in BOOLEAN
        /\ lastGoal' \in BOOLEAN /\ restarts' \in BOOLEAN
    BY <1>2 DEF BridgeRestarts
  <2> QED
    BY <2>1, <2>2, <2>3, <2>4
<1>3. CASE GoalEnds
  <2>1. driving' \in BOOLEAN
    BY <1>3 DEF GoalEnds
  <2>2. UNCHANGED <<apiVars, cacheVars, runnerVars, clientVars, linkVars, locked, lastGoal,
                    executed, restarts>>
    BY <1>3 DEF GoalEnds
  <2> QED
    BY <2>1, <2>2
<1>4. CASE AreaEnds
  BY <1>4 DEF AreaEnds, bridgeVars
<1> QED
  BY <1>1, <1>2, <1>3, <1>4 DEF Robot

LEMMA TypeStep ==
  ASSUME TypeOK, [Next]_vars
  PROVE  TypeOK'
<1>1. ASSUME NEW r \in Requests, Arrive(r) \/ Handle(r) PROVE TypeOK'
  BY <1>1, HandlerType, SendType, StateType DEF Handle
<1>2. CASE UNCHANGED vars
  BY <1>2 DEF TypeOK, vars, apiVars, cacheVars, runnerVars, clientVars, linkVars, bridgeVars
<1> QED
  BY <1>1, <1>2, TransportType, RobotType DEF Next
-----------------------------------------------------------------------------
(* What has been sent *)

\* A handler goes on; only an area's goes to the runner.
LEMMA HandlerMoves ==
  ASSUME TypeOK, SentInv, NEW r \in Requests, Arrive(r) \/ Handle(r)
  PROVE  /\ pc'[r] # "new" /\ \A q \in Requests \ {r} : pc'[q] = pc[q]
         /\ pc'[r] \in {"runner", "launch"} => Kind[r] = "area"
         /\ executed' = executed /\ toBridge' = toBridge
         /\ queue' = queue \/ (queue' = Append(queue, r) /\ pc[r] # "new")
<1> USE DEF TypeOK, SentInv, Goto, Finish, clientVars, linkVars, bridgeVars
<1>1. CASE Arrive(r) \/ Lookup(r)
  BY <1>1 DEF Arrive, Lookup
<1>2. CASE LockRunner(r) \/ Launch(r) \/ StopRunner(r)
  BY <1>2 DEF LockRunner, Launch, StopRunner
<1>3. CASE Send(r) \/ Enqueue(r) \/ Receive(r) \/ Deadline(r)
  BY <1>3 DEF Send, Enqueue, Receive, Deadline, Return, AfterSend
<1>4. CASE SetEmergency(r) \/ CloseMission(r) \/ OpenMission(r) \/ SetMission(r) \/ Reply(r)
  BY <1>4 DEF SetEmergency, CloseMission, OpenMission, SetMission, Reply
<1> QED
  BY <1>1, <1>2, <1>3, <1>4 DEF Handle

LEMMA SentStep ==
  ASSUME TypeOK, SentInv, [Next]_vars
  PROVE  SentInv'
<1>1. ASSUME NEW r \in Requests, Arrive(r) \/ Handle(r) PROVE SentInv'
  <2>1. \A q \in Requests : In(q, queue') => q = r \/ In(q, queue)
    <3>1. \A q : In(q, Append(queue, r)) => q = r \/ In(q, queue)
      BY Appended DEF TypeOK
    <3>2. queue' = queue \/ queue' = Append(queue, r)
      BY <1>1, HandlerMoves
    <3> QED
      BY <3>1, <3>2
  <2> QED
    BY <1>1, <2>1, HandlerMoves DEF SentInv
<1>2. ASSUME pc' = pc, \A q : In(q, queue') => In(q, queue),
             \A q \in executed' : q \in executed \/ In(q, toBridge),
             \A q : In(q, toBridge') => In(q, toBridge) \/ In(q, queue)
      PROVE  SentInv'
  BY <1>2 DEF SentInv
<1>3. CASE Transport
  <2>1. pc' = pc /\ executed' = executed
    BY <1>3 DEF Transport, Connect, Break, NoticeBreak, WriteNext, Dispatch, apiVars, bridgeVars
  <2>2. CASE Connect
    <3>1. queue' = queue /\ toBridge' = <<>>
      BY <2>2 DEF Connect, clientVars
    <3>2. \A q : ~In(q, toBridge')
      BY <3>1 DEF In
    <3> QED
      BY <1>2, <2>1, <3>1, <3>2
  <2>3. CASE Break
    <3>1. PICK n \in 0..Len(toBridge) : toBridge' = SubSeq(toBridge, 1, n)
      BY <2>3 DEF Break
    <3>2. toBridge \in Seq(Requests) /\ Len(toBridge) \in Nat
      BY DEF TypeOK
    <3>3. Len(toBridge') = n /\ \A k \in 1..n : toBridge'[k] = toBridge[k] /\ k \in 1..Len(toBridge)
      BY <3>1, <3>2
    <3>4. \A q : In(q, toBridge') => In(q, toBridge)
      BY <3>3 DEF In
    <3> QED
      BY <1>2, <2>1, <2>3, <3>4 DEF Break, clientVars
  <2>4. CASE NoticeBreak \/ Dispatch
    BY <1>2, <2>1, <2>4 DEF NoticeBreak, Dispatch, clientVars
  <2>5. CASE WriteNext
    <3>1. queue \in Seq(Requests) /\ queue # <<>> /\ toBridge \in Seq(Requests)
      BY <2>5 DEF TypeOK, WriteNext
    <3>2. /\ \A q : In(q, queue') => In(q, queue)
          /\ In(Head(queue), queue) /\ Head(queue) \in Requests
      BY <2>5, <3>1, NonEmpty DEF WriteNext
    <3>3. \A q : In(q, toBridge') => In(q, toBridge) \/ q = Head(queue)
      BY <2>5, <3>1, <3>2, Appended DEF WriteNext
    <3> QED
      BY <1>2, <2>1, <3>2, <3>3
  <2> QED
    BY <1>3, <2>2, <2>3, <2>4, <2>5 DEF Transport
<1>4. CASE Robot
  <2>1. CASE BridgeHandles
    <3>1. toBridge \in Seq(Requests) /\ toBridge # <<>>
      BY <2>1 DEF TypeOK, BridgeHandles
    <3>2. In(Head(toBridge), toBridge) /\ \A q : In(q, Tail(toBridge)) => In(q, toBridge)
      BY <3>1, NonEmpty
    <3>3. \A q : In(q, toBridge') => In(q, toBridge)
      BY <2>1, <3>2 DEF BridgeHandles, In
    <3>4. pc' = pc /\ queue' = queue /\ executed' \subseteq executed \cup {Head(toBridge)}
      BY <2>1 DEF BridgeHandles, Execute, apiVars, clientVars
    <3> QED
      BY <1>2, <3>2, <3>3, <3>4
  <2>2. CASE BridgeRestarts \/ GoalEnds \/ AreaEnds
    BY <1>2, <2>2 DEF BridgeRestarts, GoalEnds, AreaEnds, apiVars, clientVars, linkVars,
                      bridgeVars, In
  <2> QED
    BY <1>4, <2>1, <2>2 DEF Robot
<1>5. CASE UNCHANGED vars
  BY <1>2, <1>5 DEF vars, apiVars, clientVars, linkVars, bridgeVars
<1> QED
  BY <1>1, <1>3, <1>4, <1>5 DEF Next
-----------------------------------------------------------------------------
(* Acknowledgements *)

\* A handler keeps AckInv.
LEMMA HandlerAck ==
  ASSUME TypeOK, SentInv, AckInv, NEW r \in Requests, Arrive(r) \/ Handle(r)
  PROVE  AckInv'
<1>1. executed' = executed /\ toBackend' = toBackend /\ mailbox' = mailbox
  BY DEF Handle, Arrive, Lookup, LockRunner, Launch, StopRunner, Send, Enqueue, Receive,
         Deadline, SetEmergency, CloseMission, OpenMission, SetMission, Reply,
         clientVars, linkVars, bridgeVars
<1>2. \A i : Acked(i)' <=> Acked(i)
  BY <1>1 DEF Acked
<1>3. \A i \in Ids : pending'[i] # NoRequest => Id[pending'[i]] = i
  <2>1. \/ pending' = pending \/ pending' = [pending EXCEPT ![Id[r]] = r]
        \/ pending' = [pending EXCEPT ![Id[r]] = NoRequest]
    BY DEF Handle, Arrive, Lookup, LockRunner, Launch, StopRunner, Send, Enqueue, Receive,
           Deadline, SetEmergency, CloseMission, OpenMission, SetMission, Reply, Forget,
           clientVars
  <2> QED
    BY <2>1 DEF AckInv, TypeOK
<1>4. \A q \in Requests : outcome'[q] = "accepted" /\ Kind[q] # "area" => Acked(Id[q])
  <2>1. CASE outcome' = outcome
    BY <2>1 DEF AckInv
  <2>2. CASE Launch(r)
    BY <2>2 DEF Launch, AckInv, SentInv, TypeOK
  <2>3. CASE Send(r) \/ Receive(r) \/ Deadline(r)
    BY <2>3 DEF Send, Receive, Deadline, Return, AckInv, TypeOK
  <2> QED
    BY <2>1, <2>2, <2>3 DEF Handle, Arrive, Lookup, LockRunner, StopRunner, Enqueue,
       SetEmergency, CloseMission, OpenMission, SetMission, Reply
<1>5. \A i \in Ids :
        idem'[i] = "accepted" => Acked(i) \/ \E q \in Requests : Id[q] = i /\ Kind[q] = "area"
  <2>1. CASE idem' = idem
    BY <2>1 DEF AckInv
  <2>2. CASE Reply(r)
    <3>1. \A i \in Ids \ {Id[r]} : idem'[i] = idem[i]
      BY <2>2 DEF Reply, TypeOK
    <3>2. idem'[Id[r]] = idem[Id[r]] \/ idem'[Id[r]] = outcome[r]
      BY <2>2, CommandAssumption DEF Reply, TypeOK
    <3>3. outcome[r] = "accepted" => Acked(Id[r]) \/ Kind[r] = "area"
      BY DEF AckInv
    <3> QED
      BY <3>1, <3>2, <3>3 DEF AckInv
  <2> QED
    BY <2>1, <2>2 DEF Handle, Arrive, Lookup, LockRunner, Launch, StopRunner, Send, Enqueue,
       Receive, Deadline, SetEmergency, CloseMission, OpenMission, SetMission
<1>6. \A q \in Requests : answer'[q] = "accepted" /\ Kind[q] # "area" => Acked(Id[q])
  <2>0. \A q \in Requests : answer[q] = "accepted" /\ Kind[q] # "area" => Acked(Id[q])
    BY DEF AckInv, NoFalseAck, Acked
  <2>1. CASE answer' = answer
    BY <2>0, <2>1
  <2>2. CASE \E text \in {"refused", "failed"} : answer' = [answer EXCEPT ![r] = text]
    BY <2>0, <2>2 DEF TypeOK
  <2>3. CASE answer' = [answer EXCEPT ![r] = idem[Id[r]]]
    <3>1. idem[Id[r]] = "accepted" /\ Kind[r] # "area" => Acked(Id[r])
      BY CommandAssumption DEF AckInv
    <3> QED
      BY <2>0, <2>3, <3>1 DEF TypeOK
  <2>4. CASE answer' = [answer EXCEPT ![r] = outcome[r]]
    <3>1. outcome[r] = "accepted" /\ Kind[r] # "area" => Acked(Id[r])
      BY DEF AckInv
    <3> QED
      BY <2>0, <2>4, <3>1 DEF TypeOK
  <2> QED
    BY <2>1, <2>2, <2>3, <2>4 DEF Handle, Arrive, Lookup, LockRunner, Launch, StopRunner,
       Send, Enqueue, Receive, Deadline, SetEmergency, CloseMission, OpenMission, SetMission,
       Reply, Finish
<1>7. NoFalseAck'
  BY <1>1, <1>6 DEF NoFalseAck, Acked
<1> QED
  BY <1>1, <1>2, <1>3, <1>4, <1>5, <1>7 DEF AckInv

\* Replies under way grow by one of the bridge's only.
LEMMA RobotAck ==
  ASSUME TypeOK, AckInv, Robot
  PROVE  AckInv'
<1>1. executed \subseteq executed'
  BY DEF Robot, BridgeHandles, Execute, BridgeRestarts, GoalEnds, AreaEnds, bridgeVars
<1> DEFINE Now(i) == \E q \in executed' : Id[q] = i
<1>2. \A i : Acked(i) => Now(i)
  BY <1>1 DEF Acked
<1>3. UNCHANGED <<apiVars, clientVars>>
  BY DEF Robot, BridgeHandles, BridgeRestarts, GoalEnds, AreaEnds
<1>4. \A k \in 1..Len(toBackend') :
        toBackend'[k].result = "accepted" => Now(toBackend'[k].id)
  <2>1. CASE toBackend' = toBackend
    BY <1>2, <2>1 DEF AckInv
  <2>2. CASE BridgeHandles
    <3> DEFINE r == Head(toBridge)
               Replies == [id : Ids, result : {"accepted", "rejected"}]
    <3>1. r \in Requests
      BY <2>2, NonEmpty DEF BridgeHandles, TypeOK
    <3>2. PICK result \in {"accepted", "rejected"} :
            BridgeReplies(r, result) /\ (result = "accepted" => r \in executed')
      BY <2>2 DEF BridgeHandles, Execute
    <3> DEFINE m == [id |-> Id[r], result |-> result]
    <3>3. m \in Replies /\ m.id = Id[r] /\ m.result = result
      BY <3>1, CommandAssumption
    <3>4. toBackend' = toBackend \/ toBackend' = Append(toBackend, m)
      BY <3>2 DEF BridgeReplies
    <3>5. toBackend \in Seq(Replies)
      BY DEF TypeOK
    <3>6. m.result = "accepted" => Now(m.id)
      BY <3>2, <3>3
    <3> HIDE DEF m, Replies, Now
    <3>7. CASE toBackend' = Append(toBackend, m)
      BY <1>2, <3>3, <3>5, <3>6, <3>7, Appended DEF AckInv
    <3> QED
      BY <2>1, <3>4, <3>7
  <2> QED
    BY <2>1, <2>2 DEF Robot, BridgeRestarts, GoalEnds, AreaEnds, linkVars
<1>5. NoFalseAck'
  BY <1>1, <1>3 DEF AckInv, NoFalseAck, apiVars
<1> QED
  BY <1>2, <1>3, <1>4, <1>5 DEF AckInv, Acked, apiVars, clientVars

LEMMA TransportAck ==
  ASSUME TypeOK, AckInv, Transport
  PROVE  AckInv'
<1>1. UNCHANGED <<apiVars, pending, executed>>
  BY DEF Transport, Connect, Break, NoticeBreak, WriteNext, Dispatch, clientVars, bridgeVars
<1>2. \A i : Acked(i)' <=> Acked(i)
  BY <1>1 DEF Acked
<1>3. NoFalseAck'
  BY <1>1 DEF AckInv, NoFalseAck, apiVars
<1>4. ASSUME mailbox' = mailbox, toBackend' = toBackend \/ Len(toBackend') = 0 PROVE AckInv'
  BY <1>1, <1>2, <1>3, <1>4 DEF AckInv, apiVars
<1>5. CASE Dispatch
  <2> DEFINE Replies == [id : Ids, result : {"accepted", "rejected"}]
             m == Head(toBackend)
  <2>1. toBackend \in Seq(Replies) /\ toBackend # <<>> /\ toBackend' = Tail(toBackend)
    BY <1>5 DEF Dispatch, TypeOK
  <2>2. \A x \in Replies : x.id \in Ids
    OBVIOUS
  <2> HIDE DEF Replies
  <2>3. m \in Replies /\ In(m, toBackend)
        /\ \A k \in 1..Len(toBackend') : toBackend'[k] = toBackend[k + 1] /\ k + 1 \in 1..Len(toBackend)
    BY <2>1, NonEmpty
  <2>4. m.result = "accepted" => Acked(m.id)
    BY <2>3 DEF AckInv, In
  <2>5. \A q \in Requests : mailbox'[q] = "accepted" => Acked(Id[q])
    <3>1. \A q \in PendingUnder(m.id) : Id[q] = m.id
      BY <2>2, <2>3 DEF AckInv, PendingUnder
    <3>2. \A q \in Requests : mailbox'[q] = mailbox[q]
                              \/ (q \in PendingUnder(m.id) /\ mailbox'[q] = m.result)
      BY <1>5 DEF Dispatch
    <3> QED
      BY <2>4, <3>1, <3>2 DEF AckInv
  <2>6. \A k \in 1..Len(toBackend') :
          toBackend'[k].result = "accepted" => Acked(toBackend'[k].id)
    BY <2>3 DEF AckInv
  <2> QED
    BY <1>1, <1>2, <1>3, <2>5, <2>6 DEF AckInv, apiVars
<1> QED
  BY <1>4, <1>5 DEF Transport, Connect, Break, NoticeBreak, WriteNext, clientVars
-----------------------------------------------------------------------------
(* The bridge's lock *)

\* Only the bridge's turn and its restart touch its lock and what it has executed.
LEMMA BridgeAlone ==
  ASSUME [Next]_vars
  PROVE  BridgeHandles \/ BridgeRestarts \/ GoalEnds \/ UNCHANGED bridgeVars
<1>1. ASSUME NEW r \in Requests, Arrive(r) \/ Handle(r) PROVE UNCHANGED bridgeVars
  BY <1>1 DEF Handle, Arrive, Lookup, LockRunner, Launch, StopRunner, Send, Enqueue, Receive,
     Deadline, SetEmergency, CloseMission, OpenMission, SetMission, Reply
<1>2. CASE Transport
  BY <1>2 DEF Transport, Connect, Break, NoticeBreak, WriteNext, Dispatch
<1>3. CASE Robot
  BY <1>3 DEF Robot, AreaEnds
<1>4. CASE UNCHANGED vars
  BY <1>4 DEF vars
<1> QED
  BY <1>1, <1>2, <1>3, <1>4 DEF Next

LEMMA LockStep ==
  ASSUME TypeOK, LockInv, [Next]_vars
  PROVE  LockInv'
<1>1. CASE BridgeHandles
  <2> DEFINE r == Head(toBridge)
  <2>1. restarts' = restarts
    BY <1>1 DEF BridgeHandles
  <2>2. CASE locked' = locked /\ executed' = executed
    BY <2>1, <2>2 DEF LockInv
  <2>3. CASE Execute(r)
    <3>1. executed' = executed \cup {r}
          /\ locked' = CASE Kind[r] = "stop" -> TRUE [] Kind[r] = "clear" -> FALSE
                         [] OTHER -> locked
      BY <2>3 DEF Execute
    <3>2. CASE Kind[r] = "stop"
      BY <3>1, <3>2 DEF LockInv
    <3>3. CASE Kind[r] = "clear"
      BY <3>1, <3>3 DEF LockInv
    <3>4. CASE Kind[r] # "stop" /\ Kind[r] # "clear"
      <4>1. locked' = locked
        BY <3>1, <3>4
      <4> QED
        BY <2>1, <3>1, <3>4, <4>1 DEF LockInv
    <3> QED
      BY <3>2, <3>3, <3>4
  <2> QED
    BY <1>1, <2>2, <2>3 DEF BridgeHandles
<1>2. CASE BridgeRestarts
  BY <1>2 DEF BridgeRestarts, LockInv
<1>3. CASE GoalEnds \/ UNCHANGED bridgeVars
  BY <1>3 DEF GoalEnds, bridgeVars, LockInv
<1> QED
  BY <1>1, <1>2, <1>3, BridgeAlone

LEMMA Invariance == Spec => []IInv
<1>1. IInv /\ [Next]_vars => IInv'
  <2> SUFFICES ASSUME IInv, [Next]_vars PROVE IInv'
    OBVIOUS
  <2>1. AckInv'
    <3>1. CASE UNCHANGED vars
      BY <3>1 DEF IInv, AckInv, NoFalseAck, Acked, vars, apiVars, clientVars, linkVars, bridgeVars
    <3> QED
      BY <3>1, HandlerAck, TransportAck, RobotAck DEF IInv, Next
  <2> QED
    BY <2>1, TypeStep, SentStep, LockStep DEF IInv
<1> QED
  BY <1>1, InitIInv, PTL DEF Spec

\* Every variable stays in its set: the write queue in its capacity, and replies
\* under way have ids of requests.
THEOREM TypeCorrect == Spec => []TypeOK
<1>1. IInv => TypeOK
  BY DEF IInv
<1> QED
  BY <1>1, Invariance, PTL

\* Whatever is lost, late or repeated, "accepted" is answered only if the bridge has
\* executed a command with this id.
THEOREM NoFalseAcks == Spec => []NoFalseAck
<1>1. IInv => NoFalseAck
  BY DEF IInv, AckInv
<1> QED
  BY <1>1, Invariance, PTL

\* A confirmed stop that nobody asks to clear has locked the bridge.
LEMMA StopLocks ==
  ASSUME IInv, StopHolds
  PROVE  locked
<1>1. PICK s \in Requests : Kind[s] = "stop" /\ answer[s] = "accepted"
  BY DEF StopHolds
<1>2. s \in executed
  <2>1. PICK q \in executed : Id[q] = Id[s]
    BY <1>1 DEF IInv, AckInv, NoFalseAck
  <2>2. q \in Requests
    BY DEF IInv, TypeOK
  <2> QED
    BY <1>1, <2>1, <2>2, CommandAssumption
<1>3. \A c \in executed : Kind[c] # "clear"
  BY DEF IInv, TypeOK, SentInv, StopHolds
<1> QED
  BY <1>1, <1>2, <1>3 DEF IInv, LockInv, StopHolds

\* A confirmed emergency stop holds: no command in flight, late or repeated gives the
\* robot a goal while nobody clears it and the bridge does not restart.
THEOREM ConfirmedStopHolds == Spec => NoGoalAfterConfirmedStop
<1>1. IInv /\ [Next]_vars => [StopHolds => ~(~driving /\ driving')]_vars
  <2> SUFFICES ASSUME IInv, [Next]_vars, StopHolds, ~driving, driving' PROVE FALSE
    BY DEF TypeOK, IInv
  <2>1. locked
    BY StopLocks
  <2>2. BridgeHandles
    BY BridgeAlone DEF BridgeRestarts, GoalEnds, bridgeVars
  <2> DEFINE r == Head(toBridge)
  <2>3. ~LocksOut(r) /\ Execute(r)
    BY <2>2 DEF BridgeHandles
  <2>4. ~SendsGoal(r)
    BY <2>1, <2>3 DEF LocksOut, SendsGoal
  <2> QED
    BY <2>3, <2>4 DEF Execute
<1> QED
  BY <1>1, Invariance, PTL DEF Spec, NoGoalAfterConfirmedStop
=============================================================================
