------------------------------ MODULE CommandPath ------------------------------
(***************************************************************************)
(* The way of an operator's command from the REST handlers of the backend  *)
(* (gui_system/backend/internal/api/mission.go, gateway/idempotency.go)    *)
(* through the WebSocket client (bridge/ws_client.go) to the Python bridge *)
(* (bridge/ros2_bridge/websocket_server.py, command_handler.py).           *)
(* Handlers run concurrently, one per request; requests with one id are    *)
(* retries of one command.  The bridge handles commands one by one, in the *)
(* order of its connection.  Entries of the idempotency cache outlive the  *)
(* model (two minutes).  Nav2 and the mission processes are seen only as   *)
(* far as commands start and stop them.                                    *)
(***************************************************************************)
EXTENDS Naturals, Sequences, FiniteSets

CONSTANTS
  Requests,   \* HTTP requests, once each
  Ids,        \* values of X-Request-ID
  Id, Kind,   \* the id and the command of each request
  QueueCap,   \* capacity of WSClient.writeQueue (64)
  MaxBreaks,  \* bound: connections lost
  NoRequest

\* "start" is StartMission for a node of the map, "area" for a leader slot.
Kinds == {"start", "area", "goal", "pause", "resume", "reset", "stop", "clear"}

ASSUME CommandAssumption ==
  /\ \A r \in Requests : Id[r] \in Ids /\ Kind[r] \in Kinds
  /\ \A r, q \in Requests : Id[r] = Id[q] => Kind[r] = Kind[q]
  /\ \A r, q \in Requests : Kind[r] = "stop" /\ Id[r] = Id[q] => r = q
  /\ QueueCap \in Nat \ {0}
  /\ MaxBreaks \in Nat
  /\ NoRequest \notin Requests

VARIABLES
  pc,         \* where the handler of a request is
  outcome,    \* what SendCommand returned to it
  answer,     \* what it answered
  idem,       \* IdempotencyCache: the results stored
  emergency,  \* Cache.system.EmergencyActive
  mission,    \* Cache.system.MissionStatus
  rows,       \* missions open in the database, by the request that began them
  activeRow,  \* activeMissionID
  runner,     \* holder of missionrunner.Manager.mu
  area,       \* the request whose mission processes run
  conn,       \* the connection: "down", "up", or "broken" and not yet noticed
  breaks,     \* connections lost so far
  queue,      \* WSClient.writeQueue
  pending,    \* WSClient.pending
  mailbox,    \* the buffered channel of a pending request
  toBridge,   \* messages on the connection
  toBackend,
  locked,     \* CommandHandler.emergency
  lastGoal,   \* CommandHandler.last_goal
  driving,    \* Nav2 executes a goal
  executed,   \* history: requests that the bridge accepted
  restarts    \* history: the bridge restarted

apiVars == <<pc, outcome, answer, idem>>
cacheVars == <<emergency, mission, rows, activeRow>>
runnerVars == <<runner, area>>
clientVars == <<queue, pending, mailbox>>
linkVars == <<conn, breaks, toBridge, toBackend>>
bridgeVars == <<locked, lastGoal, driving, executed, restarts>>
vars == <<apiVars, cacheVars, runnerVars, clientVars, linkVars, bridgeVars>>
-----------------------------------------------------------------------------
Stages == {"new", "lookup", "runner", "launch", "stop_runner", "send", "enqueue",
           "await", "emergency", "close", "open", "set", "reply", "done"}

Outcomes == {"none", "accepted", "rejected", "offline", "failed"}

Answers == Outcomes \cup {"refused"}

Results == {"none", "accepted", "rejected"}

Init ==
  /\ pc = [r \in Requests |-> "new"]
  /\ outcome = [r \in Requests |-> "none"]
  /\ answer = [r \in Requests |-> "none"]
  /\ idem = [i \in Ids |-> "none"]
  /\ emergency = FALSE
  /\ mission = "pending"
  /\ rows = {}
  /\ activeRow = NoRequest
  /\ runner = NoRequest
  /\ area = NoRequest
  /\ conn = "down"
  /\ breaks = 0
  /\ queue = <<>>
  /\ pending = [i \in Ids |-> NoRequest]
  /\ mailbox = [r \in Requests |-> "none"]
  /\ toBridge = <<>>
  /\ toBackend = <<>>
  /\ locked = FALSE
  /\ lastGoal = FALSE
  /\ driving = FALSE
  /\ executed = {}
  /\ restarts = FALSE

Goto(r, stage) == pc' = [pc EXCEPT ![r] = stage]

\* The handler writes its response and returns.
Finish(r, text) ==
  /\ Goto(r, "done")
  /\ answer' = [answer EXCEPT ![r] = text]
-----------------------------------------------------------------------------
(* Handlers *)

\* A request arrives; StartMission refuses it while EmergencyActive.
Refuses(r) == Kind[r] \in {"start", "area"} /\ emergency

Arrive(r) ==
  /\ pc[r] = "new"
  /\ IF Refuses(r) THEN Finish(r, "refused")
     ELSE /\ Goto(r, IF Kind[r] = "stop" THEN "stop_runner" ELSE "lookup")
          /\ UNCHANGED answer
  /\ UNCHANGED <<outcome, idem, cacheVars, runnerVars, clientVars, linkVars, bridgeVars>>

\* Idem.Lookup.
Lookup(r) ==
  /\ pc[r] = "lookup"
  /\ IF idem[Id[r]] # "none" THEN Finish(r, idem[Id[r]])
     ELSE /\ Goto(r, IF Kind[r] = "area" THEN "runner" ELSE "send")
          /\ UNCHANGED answer
  /\ UNCHANGED <<outcome, idem, cacheVars, runnerVars, clientVars, linkVars,
                 bridgeVars>>

\* Runner.StartArea: under the mutex, whatever runs is stopped ...
LockRunner(r) ==
  /\ pc[r] = "runner"
  /\ runner = NoRequest
  /\ runner' = r
  /\ area' = NoRequest
  /\ Goto(r, "launch")
  /\ UNCHANGED <<outcome, answer, idem, cacheVars, clientVars, linkVars, bridgeVars>>

\* ... and, seconds later, the processes of the area run, or one did not start
\* and all are stopped.
Launch(r) ==
  /\ pc[r] = "launch"
  /\ runner' = NoRequest
  /\ \/ /\ area' = r
        /\ Goto(r, "close")
        /\ outcome' = [outcome EXCEPT ![r] = "accepted"]
        /\ UNCHANGED answer
     \/ /\ area' = NoRequest
        /\ Finish(r, "failed")
        /\ UNCHANGED outcome
  /\ UNCHANGED <<idem, cacheVars, clientVars, linkVars, bridgeVars>>

\* EmergencyStop: Runner.Stop waits for the mutex and kills the processes.
StopRunner(r) ==
  /\ pc[r] = "stop_runner"
  /\ runner = NoRequest
  /\ area' = NoRequest
  /\ Goto(r, "send")
  /\ UNCHANGED <<outcome, answer, idem, cacheVars, runner, clientVars, linkVars,
                 bridgeVars>>

\* Where a handler goes on with what SendCommand returned: the mission context is
\* updated unless the bridge said no; EmergencyStop updates it anyway.
AfterSend(r, result) ==
  IF Kind[r] = "stop" THEN "emergency"
  ELSE IF result = "rejected" THEN "reply"
  ELSE IF Kind[r] \in {"start", "reset"} THEN "close" ELSE "set"

Return(r, result) ==
  /\ outcome' = [outcome EXCEPT ![r] = result]
  /\ Goto(r, AfterSend(r, result))

Connected == conn \in {"up", "broken"}

\* SendCommand: not connected, or the request is pending.
Send(r) ==
  /\ pc[r] = "send"
  /\ IF Connected
     THEN /\ pending' = [pending EXCEPT ![Id[r]] = r]
          /\ Goto(r, "enqueue")
          /\ UNCHANGED outcome
     ELSE /\ Return(r, "offline")
          /\ UNCHANGED pending
  /\ UNCHANGED <<answer, idem, cacheVars, runnerVars, queue, mailbox, linkVars,
                 bridgeVars>>

\* Mutant: the queue has one place more.
QueueGrows == Len(queue) <= QueueCap

QueueHasRoom == Len(queue) < QueueCap

Enqueue(r) ==
  /\ pc[r] = "enqueue"
  /\ QueueHasRoom
  /\ queue' = Append(queue, r)
  /\ Goto(r, "await")
  /\ UNCHANGED <<outcome, answer, idem, cacheVars, runnerVars, pending, mailbox,
                 linkVars, bridgeVars>>

\* The deferred delete, by id.
Forget(r) == pending' = [pending EXCEPT ![Id[r]] = NoRequest]

Receive(r) ==
  /\ pc[r] = "await"
  /\ mailbox[r] # "none"
  /\ Return(r, mailbox[r])
  /\ Forget(r)
  /\ UNCHANGED <<answer, idem, cacheVars, runnerVars, queue, mailbox, linkVars,
                 bridgeVars>>

\* Two seconds are over, in front of a full queue or waiting for the reply.
\* Mutant: the deadline is for the reply only.
WaitsForReply(r) == pc[r] = "await"

Waits(r) == pc[r] \in {"enqueue", "await"}

Deadline(r) ==
  /\ Waits(r)
  /\ Return(r, "offline")
  /\ Forget(r)
  /\ UNCHANGED <<answer, idem, cacheVars, runnerVars, queue, mailbox, linkVars,
                 bridgeVars>>

SetEmergency(r) ==
  /\ pc[r] = "emergency"
  /\ emergency' = TRUE
  /\ Goto(r, "close")
  /\ UNCHANGED <<outcome, answer, idem, mission, rows, activeRow, runnerVars,
                 clientVars, linkVars, bridgeVars>>

\* completeActiveMission: the id is taken under missionMu, its row is closed.
CloseMission(r) ==
  /\ pc[r] = "close"
  /\ rows' = rows \ {activeRow}
  /\ activeRow' = NoRequest
  /\ Goto(r, IF Kind[r] \in {"start", "area"} THEN "open" ELSE "set")
  /\ UNCHANGED <<outcome, answer, idem, emergency, mission, runnerVars, clientVars,
                 linkVars, bridgeVars>>

\* startMissionRow.
OpenMission(r) ==
  /\ pc[r] = "open"
  /\ rows' = rows \cup {r}
  /\ activeRow' = r
  /\ Goto(r, "set")
  /\ UNCHANGED <<outcome, answer, idem, emergency, mission, runnerVars, clientVars,
                 linkVars, bridgeVars>>

\* The rest of updateMissionState, and of EmergencyStop.
SetMission(r) ==
  /\ pc[r] = "set"
  /\ mission' = CASE Kind[r] \in {"start", "area", "goal", "resume"} -> "running"
                  [] Kind[r] = "pause" -> "paused"
                  [] Kind[r] = "reset" -> "pending"
                  [] Kind[r] = "stop" -> "aborted"
                  [] Kind[r] = "clear" -> mission
  /\ emergency' = IF Kind[r] = "clear" THEN FALSE ELSE emergency
  /\ Goto(r, "reply")
  /\ UNCHANGED <<outcome, answer, idem, rows, activeRow, runnerVars, clientVars,
                 linkVars, bridgeVars>>

\* Idem.Store, for what the bridge said; a command it never confirmed, and an
\* emergency stop, are not stored.
Stores(r) == Kind[r] # "stop" /\ outcome[r] \in {"accepted", "rejected"}

Reply(r) ==
  /\ pc[r] = "reply"
  /\ idem' = IF Stores(r) THEN [idem EXCEPT ![Id[r]] = outcome[r]] ELSE idem
  /\ Finish(r, outcome[r])
  /\ UNCHANGED <<outcome, cacheVars, runnerVars, clientVars, linkVars, bridgeVars>>
-----------------------------------------------------------------------------
(* The connection, on the side of the backend *)

\* connectLoop: dialled and connected, half a second after the last connection at
\* the earliest: what was in flight on that one has been handled, or is gone.
Connect ==
  /\ conn = "down"
  /\ conn' = "up"
  /\ toBridge' = <<>>
  /\ toBackend' = <<>>
  /\ UNCHANGED <<apiVars, cacheVars, runnerVars, clientVars, breaks, bridgeVars>>

\* The connection is lost, with the tail of what is in flight to the bridge.
Break ==
  /\ conn = "up"
  /\ breaks < MaxBreaks
  /\ breaks' = breaks + 1
  /\ conn' = "broken"
  /\ \E n \in 0..Len(toBridge) : toBridge' = SubSeq(toBridge, 1, n)
  /\ UNCHANGED <<apiVars, cacheVars, runnerVars, clientVars, toBackend, bridgeVars>>

\* readLoop fails, writeLoop is stopped: not connected.
NoticeBreak ==
  /\ conn = "broken"
  /\ conn' = "down"
  /\ UNCHANGED <<apiVars, cacheVars, runnerVars, clientVars, breaks, toBridge,
                 toBackend, bridgeVars>>

\* writeLoop: the next command of the queue, which outlives connections and
\* requests, is written; on a broken connection it is lost.
WriteNext ==
  /\ Connected
  /\ queue # <<>>
  /\ queue' = Tail(queue)
  /\ toBridge' = IF conn = "up" THEN Append(toBridge, Head(queue)) ELSE toBridge
  /\ UNCHANGED <<apiVars, cacheVars, runnerVars, pending, mailbox, conn, breaks,
                 toBackend, bridgeVars>>

\* dispatch: a result goes to the request pending under its id, if any.  Mutant:
\* it goes to any pending request.
AnyPending(i) == {q \in Requests : \E j \in Ids : pending[j] = q}

PendingUnder(i) == {pending[i]} \ {NoRequest}

Dispatch ==
  /\ Connected
  /\ toBackend # <<>>
  /\ toBackend' = Tail(toBackend)
  /\ LET m == Head(toBackend)
     IN  mailbox' = [q \in Requests |->
                       IF q \in PendingUnder(m.id) /\ mailbox[q] = "none"
                       THEN m.result ELSE mailbox[q]]
  /\ UNCHANGED <<apiVars, cacheVars, runnerVars, queue, pending, conn, breaks,
                 toBridge, bridgeVars>>
-----------------------------------------------------------------------------
(* The bridge, and the robot *)

\* handle: what an emergency lets through.  Mutant: a change of the
\* goal, too.
LocksOutButGoal(r) == locked /\ Kind[r] \notin {"stop", "clear", "goal"}

LocksOut(r) == locked /\ Kind[r] \notin {"stop", "clear"}

\* A goal is sent: by start and change_goal, and by resume if there was one.
SendsGoal(r) ==
  Kind[r] \in {"start", "goal"} \cup (IF lastGoal THEN {"resume"} ELSE {})

\* _dispatch.  Without Nav2's action server the goal is not sent, and the command
\* accepted all the same.  _cancel_all does nothing: a goal of Nav2 goes on
\* whatever the command.
Execute(r) ==
  /\ locked' = CASE Kind[r] = "stop" -> TRUE [] Kind[r] = "clear" -> FALSE
                 [] OTHER -> locked
  /\ lastGoal' = CASE SendsGoal(r) -> TRUE [] Kind[r] = "reset" -> FALSE
                   [] OTHER -> lastGoal
  /\ driving' \in {driving, driving \/ SendsGoal(r)}
  /\ executed' = executed \cup {r}

\* _send_goal raises, for a payload whose coordinates are not numbers, before it
\* changes anything.
CanRaise(r) == Kind[r] \in {"start", "goal"}

BridgeReplies(r, result) ==
  toBackend' = IF conn = "up"
               THEN Append(toBackend, [id |-> Id[r], result |-> result])
               ELSE toBackend

\* One turn of the bridge's loop over the messages of a connection.  A reply into
\* a connection that is gone ends the loop, and the messages after it are lost.
BridgeHandles ==
  /\ toBridge # <<>>
  /\ LET r == Head(toBridge)
     IN  \/ /\ LocksOut(r) \/ CanRaise(r)
            /\ BridgeReplies(r, "rejected")
            /\ UNCHANGED <<locked, lastGoal, driving, executed>>
         \/ /\ ~LocksOut(r)
            /\ BridgeReplies(r, "accepted")
            /\ Execute(r)
  /\ toBridge' = IF conn = "up" THEN Tail(toBridge) ELSE <<>>
  /\ UNCHANGED <<apiVars, cacheVars, runnerVars, clientVars, conn, breaks, restarts>>

\* The bridge process restarts, unlocked and without a goal to resume.
BridgeRestarts ==
  /\ conn = "up"
  /\ breaks < MaxBreaks
  /\ breaks' = breaks + 1
  /\ conn' = "broken"
  /\ toBridge' = <<>>
  /\ locked' = FALSE
  /\ lastGoal' = FALSE
  /\ restarts' = TRUE
  /\ UNCHANGED <<apiVars, cacheVars, runnerVars, clientVars, toBackend, driving,
                 executed>>

\* Nav2 is done with its goal; the mission processes of an area end.
GoalEnds ==
  /\ driving
  /\ driving' = FALSE
  /\ UNCHANGED <<apiVars, cacheVars, runnerVars, clientVars, linkVars, locked,
                 lastGoal, executed, restarts>>

AreaEnds ==
  /\ area # NoRequest
  /\ runner = NoRequest
  /\ area' = NoRequest
  /\ UNCHANGED <<apiVars, cacheVars, runner, clientVars, linkVars, bridgeVars>>
-----------------------------------------------------------------------------
Handle(r) ==
  \/ Lookup(r) \/ LockRunner(r) \/ Launch(r) \/ StopRunner(r)
  \/ Send(r) \/ Enqueue(r) \/ Receive(r) \/ Deadline(r)
  \/ SetEmergency(r) \/ CloseMission(r) \/ OpenMission(r) \/ SetMission(r)
  \/ Reply(r)

Transport == Connect \/ Break \/ NoticeBreak \/ WriteNext \/ Dispatch

Robot == BridgeHandles \/ BridgeRestarts \/ GoalEnds \/ AreaEnds

Next ==
  \/ \E r \in Requests : Arrive(r) \/ Handle(r)
  \/ Transport
  \/ Robot

Spec == Init /\ [][Next]_vars

\* Handlers run, each as a goroutine of the HTTP server.  Nothing is asked of the
\* network, the bridge or the robot.
FairSpec == Spec /\ \A r \in Requests : WF_vars(Handle(r))
-----------------------------------------------------------------------------
TypeOK ==
  /\ pc \in [Requests -> Stages]
  /\ outcome \in [Requests -> Outcomes]
  /\ answer \in [Requests -> Answers]
  /\ idem \in [Ids -> Results]
  /\ emergency \in BOOLEAN
  /\ mission \in {"pending", "running", "paused", "aborted"}
  /\ rows \subseteq Requests
  /\ activeRow \in Requests \cup {NoRequest}
  /\ runner \in Requests \cup {NoRequest}
  /\ area \in Requests \cup {NoRequest}
  /\ conn \in {"down", "up", "broken"}
  /\ breaks \in 0..MaxBreaks
  /\ queue \in Seq(Requests)
  /\ Len(queue) <= QueueCap
  /\ pending \in [Ids -> Requests \cup {NoRequest}]
  /\ mailbox \in [Requests -> Results]
  /\ toBridge \in Seq(Requests)
  /\ toBackend \in Seq([id : Ids, result : {"accepted", "rejected"}])
  /\ locked \in BOOLEAN
  /\ lastGoal \in BOOLEAN
  /\ driving \in BOOLEAN
  /\ executed \subseteq Requests
  /\ restarts \in BOOLEAN

\* The operator is told that the bridge accepted a command only if the bridge
\* executed a command with this id: timeouts, late replies, reconnections and
\* cached results never mix up the replies of different commands.
NoFalseAck ==
  \A r \in Requests :
    answer[r] = "accepted" /\ Kind[r] # "area" => \E q \in executed : Id[q] = Id[r]

\* An emergency stop that the bridge confirmed, that no one asked to clear, of a
\* bridge that did not restart, holds: no command, whether it was in flight or is
\* sent later or again, gives the robot a goal.
StopHolds ==
  /\ \E s \in Requests : Kind[s] = "stop" /\ answer[s] = "accepted"
  /\ \A c \in Requests : Kind[c] = "clear" => pc[c] = "new"
  /\ ~restarts

NoGoalAfterConfirmedStop == [][ StopHolds => ~(~driving /\ driving') ]_vars

\* Every request is answered, though the bridge, the connection or the queue may
\* be stuck for ever.
RequestsEnd == \A r \in Requests : pc[r] # "new" ~> pc[r] = "done"
=============================================================================
