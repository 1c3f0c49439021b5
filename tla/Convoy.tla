--------------------------------- MODULE Convoy ---------------------------------
(***************************************************************************)
(* A mission of area A or B (run() of src/src/amr_topology/src/            *)
(* mission_loop.cpp and mission2_loop.cpp) with the RC car that follows    *)
(* it: the drive to the slot, the approach to the marker on the car, the   *)
(* turn and the short drive the car is asked for, the robot's own turn and *)
(* the start of the arm, and a charger request at any moment.  Modes and   *)
(* statuses are ROS topics between two processes.  Motions are abstracted  *)
(* to their ends.                                                          *)
(***************************************************************************)
EXTENDS RcCar, Sequences

CONSTANTS
  Areas,        \* the missions to consider, "A" and "B"
  StatusDepth,  \* depth of the queue of statuses
  MaxFailures   \* bound: failed writes to the car's serial line

ASSUME ConvoyAssumption ==
  /\ Areas \subseteq {"A", "B"}
  /\ StatusDepth \in Nat \ {0}
  /\ MaxFailures \in Nat

VARIABLES
  area,      \* which of the two programs runs
  pc,        \* where run() is
  leader,    \* the members of MissionLoop that matter here
  modes,     \* mode messages published and not read by the car
  statuses,  \* statuses published and not read by the mission
  car,       \* the members of RcCarFollowerNode
  failures,  \* failed writes so far
  heard,     \* history: the car has read a message of this mission
  turned,    \* history: turns completed since then, up to two
  advanced   \* history: short drives completed since then, up to two

vars == <<area, pc, leader, modes, statuses, car, failures, heard, turned, advanced>>
carVars == <<car, failures, heard, turned, advanced>>

\* "pause" is the second in which mission A lets the car follow on; "aboutFace"
\* and "backUp" are the robot's half turn and its 5 cm back, "handOver" the pause
\* before the arm starts, "idle" the wait of charger_only.
Places == {"start", "drive", "pause", "settle", "search", "approach", "align",
           "awaitTurn", "awaitForward", "aboutFace", "backUp", "handOver", "hold",
           "idle", "charger", "ended"}

\* Where callbacks run: in every loop that calls spin_some.
Spinning == Places \ {"start", "handOver", "ended"}

MissionModes == {"follow", "stop", "turn_ccw_90", "drive_forward_2cm"}

Leaders == [status     : Statuses \cup {"none"},
            lastMode   : MissionModes \cup {"none"},
            monitoring : BOOLEAN,
            stopSent   : BOOLEAN,
            requested  : BOOLEAN,
            parking    : BOOLEAN,
            detecting  : BOOLEAN]
-----------------------------------------------------------------------------
\* The car may be new, or left by a mission whose process was killed.
LeftOver(mode, done) ==
  [NewCar EXCEPT !.mode = mode, !.done = done, !.posed = TRUE, !.ready = TRUE,
                 !.from = [g \in Measured |-> IF g = mode THEN "own" ELSE "none"]]

FirstCars ==
  {NewCar, LeftOver("Follow", {}),
   LeftOver("TurnCcw90", {}), LeftOver("Stop", {"TurnCcw90"}),
   LeftOver("DriveForward2cm", {"TurnCcw90"}),
   LeftOver("Stop", {"TurnCcw90", "DriveForward2cm"})}

Init ==
  /\ area \in Areas
  /\ pc = "start"
  /\ leader = [status |-> "none", lastMode |-> "none", monitoring |-> FALSE,
               stopSent |-> FALSE, requested |-> FALSE, parking |-> FALSE,
               detecting |-> FALSE]
  /\ modes = <<>>
  /\ statuses = <<>>
  /\ car \in FirstCars
  /\ failures = 0
  /\ heard = FALSE
  /\ turned = 0
  /\ advanced = 0

\* The topic keeps one message on either side: a new one replaces the unread one,
\* or follows it if that is already with the reader.
Sends(m) ==
  \/ modes' = <<m>>
  \/ modes # <<>> /\ modes' = <<modes[Len(modes)], m>>

\* publish_rc_car_mode() without force, from leader state l.  Mutant: a request
\* for a manoeuvre does not clear the status.
PublishKeepsStatus(l, m) ==
  IF m = l.lastMode THEN leader' = l /\ UNCHANGED modes
  ELSE leader' = [l EXCEPT !.lastMode = m] /\ Sends(m)

Publish(l, m) ==
  IF m = l.lastMode THEN leader' = l /\ UNCHANGED modes
  ELSE /\ leader' = [l EXCEPT !.lastMode = m,
                              !.status = IF m \in {"turn_ccw_90", "drive_forward_2cm"}
                                         THEN "none" ELSE @]
       /\ Sends(m)

\* publish_rc_car_mode("stop", true).
ForceStop(l) == leader' = [l EXCEPT !.lastMode = "stop"] /\ Sends("stop")

Goes(place) == pc' = place /\ UNCHANGED <<area, statuses, carVars>>
-----------------------------------------------------------------------------
\* The callbacks that spin_some runs.
Callback == pc \in Spinning /\ UNCHANGED <<area, pc, carVars>>

\* handle_rc_car_slot_status().
HearStatus ==
  /\ statuses # <<>>
  /\ leader' = [leader EXCEPT !.status = Head(statuses)]
  /\ statuses' = Tail(statuses)
  /\ Callback /\ UNCHANGED modes

\* handle_rc_car_odom(): the car is at its stop of the area.  Mutant: the message
\* is sent past publish_rc_car_mode.
CarAtStopRaw ==
  /\ leader.monitoring /\ ~leader.stopSent
  /\ leader' = [leader EXCEPT !.stopSent = TRUE]
  /\ Sends("stop")
  /\ Callback /\ UNCHANGED statuses

CarAtStop ==
  /\ leader.monitoring /\ ~leader.stopSent
  /\ Publish([leader EXCEPT !.stopSent = TRUE], "stop")
  /\ Callback /\ UNCHANGED statuses

\* handle_mission_command(): "start_charger_parking".
ChargerCommand ==
  /\ ~leader.parking /\ ~leader.requested
  /\ leader' = [leader EXCEPT !.requested = TRUE]
  /\ Callback /\ UNCHANGED <<modes, statuses>>

\* republish_rc_car_mode(), every 500 ms.  A turn is not repeated.
Republish ==
  /\ \/ leader.parking /\ ForceStop(leader)
     \/ /\ ~leader.parking
        /\ leader.lastMode \notin {"none", "turn_ccw_90"}
        /\ Sends(leader.lastMode)
        /\ UNCHANGED leader
  /\ Callback /\ UNCHANGED statuses

Interrupted == leader.requested /\ ~leader.parking

\* stop_current_action_for_charger_interrupt() and the beginning of
\* handle_charger_parking_request(); a callback in between finds "stop" as the last
\* mode already.  Mutant: the car is not told.
InterruptSilent ==
  /\ Interrupted /\ pc \in Spinning
  /\ leader' = [leader EXCEPT !.requested = FALSE, !.parking = TRUE,
                              !.monitoring = FALSE, !.stopSent = FALSE]
  /\ Goes("charger") /\ UNCHANGED modes

Interrupt ==
  /\ Interrupted /\ pc \in Spinning
  /\ ForceStop([leader EXCEPT !.requested = FALSE, !.parking = TRUE,
                              !.monitoring = FALSE, !.stopSent = FALSE,
                              !.detecting = FALSE])
  /\ Goes("charger")

\* The charger is reached or given up; run() returns and the process ends.
ChargerDone ==
  /\ pc = "charger"
  /\ ForceStop([leader EXCEPT !.parking = FALSE])
  /\ Goes("ended")
-----------------------------------------------------------------------------
\* run() begins: the drive of the cycle, or the wait of charger_only.
Start ==
  /\ pc = "start"
  /\ \/ Publish([leader EXCEPT !.monitoring = TRUE, !.stopSent = FALSE], "follow")
        /\ Goes("drive")
     \/ Publish(leader, "stop") /\ Goes("idle")

\* A step of run() that leads from one place to another with mode m published.
Moves(from, to, l, m) ==
  /\ pc = from /\ ~Interrupted
  /\ Publish(l, m)
  /\ Goes(to)

\* The same without a message.
Steps(from, to, l) ==
  /\ pc = from /\ ~Interrupted
  /\ leader' = l
  /\ Goes(to) /\ UNCHANGED modes

\* go_path() reaches the leader slot.  A drive takes longer than the delivery of
\* the first message: the car has heard of the mission.
Arrive ==
  /\ heard
  /\ LET l == [leader EXCEPT !.monitoring = FALSE]
     IN  \/ area = "A" /\ Steps("drive", "pause", l)
         \/ area = "B" /\ Moves("drive", "settle", l, "stop")

\* Mission A waits a second before it stops the car.
PauseOver == Moves("pause", "settle", leader, "stop")

\* wait_stopped() and rotate_to_face() end, seconds later: what the car published
\* before has arrived.  The camera is switched on.
Settled ==
  /\ statuses = <<>>
  /\ Steps("settle", "search", [leader EXCEPT !.detecting = TRUE])

FindMarker == Steps("search", "approach", leader)

ReachMarker == Steps("approach", "align", [leader EXCEPT !.detecting = FALSE])

\* rotate_to_node_yaw() ends and the car is asked to turn.
AskTurn == Moves("align", "awaitTurn", leader, "turn_ccw_90")

\* wait_for_rc_car_status() ends.
TurnReported ==
  /\ leader.status = EndStatus["TurnCcw90"]
  /\ Moves("awaitTurn", "awaitForward", leader, "drive_forward_2cm")

\* Mutant: any status of the drive will do.
ForwardReportedEarly ==
  /\ leader.status \in {StartStatus["DriveForward2cm"], EndStatus["DriveForward2cm"]}
  /\ Moves("awaitForward", "aboutFace", leader, "stop")

ForwardReported ==
  /\ leader.status = EndStatus["DriveForward2cm"]
  /\ Moves("awaitForward", "aboutFace", leader, "stop")

\* rotate_ccw_relative() and drive_straight_distance() end, or return at once
\* because there is no pose.
FaceAbout == Steps("aboutFace", "backUp", leader)

BackUp == Moves("backUp", "handOver", leader, "stop")

\* publish_arm_mission_start(), and hold_at_leader_slot().
StartArm ==
  /\ pc = "handOver"
  /\ Publish(leader, "stop")
  /\ Goes("hold")

Mission ==
  \/ Start \/ Arrive \/ PauseOver \/ Settled \/ FindMarker \/ ReachMarker \/ AskTurn
  \/ TurnReported \/ ForwardReported \/ FaceAbout \/ BackUp \/ StartArm
  \/ Interrupt \/ ChargerDone
-----------------------------------------------------------------------------
\* A KEEP_LAST queue drops its oldest entry when it is full.
Queued(s) ==
  LET q == Append(statuses, s) IN IF Len(q) > StatusDepth THEN Tail(q) ELSE q

Count(n, s, says) == IF heard /\ says = s /\ n < 2 THEN n + 1 ELSE n

\* The car's handler with reply r; the write of its command may fail.
CarAnswers(r) ==
  /\ \/ car' = Sent(r.car, r.sends, TRUE) /\ UNCHANGED failures
     \/ /\ r.sends # "none" /\ car.link /\ failures < MaxFailures
        /\ car' = Sent(r.car, r.sends, FALSE)
        /\ failures' = failures + 1
  /\ statuses' = IF r.says = "none" THEN statuses ELSE Queued(r.says)
  /\ turned' = Count(turned, EndStatus["TurnCcw90"], r.says)
  /\ advanced' = Count(advanced, EndStatus["DriveForward2cm"], r.says)
  /\ UNCHANGED <<area, pc, leader>>

CarHears ==
  /\ modes # <<>>
  /\ CarAnswers(SetMode(car, Head(modes)))
  /\ modes' = Tail(modes)
  /\ heard' = TRUE

CarControls(c) == CarAnswers(ControlStep(car, c)) /\ UNCHANGED <<modes, heard>>

CarControl == \E c \in Circumstances : CarControls(c)

CarOdometry ==
  /\ \E ticks \in BOOLEAN : car' = Odometry(car, ticks)
  /\ UNCHANGED <<area, pc, leader, modes, statuses, failures, heard, turned, advanced>>

CarReopens ==
  /\ ~car.link
  /\ car' = Reopened(car)
  /\ UNCHANGED <<area, pc, leader, modes, statuses, failures, heard, turned, advanced>>

Next ==
  \/ Mission
  \/ HearStatus \/ CarAtStop \/ ChargerCommand \/ Republish
  \/ CarHears \/ CarControl \/ CarOdometry \/ CarReopens

Spec == Init /\ [][Next]_vars

\* A control step with fresh poses: short of the target, at the target.
Drives == \E c \in Circumstances : c.follower /\ ~c.reached /\ CarControls(c)
Reaches == \E c \in Circumstances : c.follower /\ c.reached /\ CarControls(c)

\* The mission's loop and the car's timers run, its port opens again, the encoders
\* speak, and a car that carries out a manoeuvre is now and then at its target.
FairSpec ==
  /\ Spec
  /\ WF_vars(Mission) /\ WF_vars(HearStatus) /\ WF_vars(CarHears)
  /\ WF_vars(CarOdometry /\ (car.link => car'.ready)) /\ WF_vars(CarReopens)
  /\ WF_vars(Drives) /\ SF_vars(Reaches)
-----------------------------------------------------------------------------
TypeOK ==
  /\ area \in Areas
  /\ pc \in Places
  /\ leader \in Leaders
  /\ modes \in Seq(MissionModes) /\ Len(modes) <= 2
  /\ statuses \in Seq(Statuses) /\ Len(statuses) <= StatusDepth
  /\ car \in Cars /\ car.mode \notin car.done
  /\ failures \in 0..MaxFailures
  /\ heard \in BOOLEAN
  /\ turned \in 0..2
  /\ advanced \in 0..2

\* While the robot turns about, backs up and lets the arm work beside it, the car
\* is in "Stop": no repeated or late mode message sets it going again.
CarStandsAtHandOver ==
  pc \in {"aboutFace", "backUp", "handOver", "hold"} => car.mode = "Stop"

\* A car that has read all that was sent stands from the moment it is at its stop
\* of the area, while the robot comes up to the marker on it, and for good after a
\* charger request; the camera is then off.
CarStaysStopped ==
  /\ /\ modes = <<>>
     /\ \/ pc \in {"settle", "search", "approach", "align", "charger", "ended"}
        \/ pc \in {"drive", "pause"} /\ leader.stopSent
     => car.mode = "Stop"
  /\ pc \in {"charger", "ended"} => ~leader.detecting

\* Each manoeuvre of the car is carried out exactly once for the robot to go on,
\* though one request is repeated every 500 ms, the other never, and the car may
\* still report what an earlier mission asked for.
ManoeuvresOnce ==
  /\ pc \in {"awaitForward", "aboutFace", "backUp", "handOver", "hold"} => turned = 1
  /\ pc \in {"aboutFace", "backUp", "handOver", "hold"} => advanced = 1

\* The two never wait for each other for ever: once the car is asked to turn, the
\* arm is started, or a charger request comes first.
HandshakeCompletes == pc = "awaitTurn" ~> pc \in {"hold", "charger", "ended"}

\* The tasks of the handshake: the turn is the first, the short drive the second.
UnderWayTask ==
  IF heard /\ car.mode = "TurnCcw90" THEN 1
  ELSE IF heard /\ car.mode = "DriveForward2cm" THEN 2 ELSE 0

\* A request on its way for what the car has behind it asks for nothing.
OnItsWay(m) == \E i \in 1..Len(modes) : modes[i] = m

AskedTask ==
  IF UnderWayTask # 0 THEN 0
  ELSE IF OnItsWay("turn_ccw_90") /\ turned = 0 THEN 1
  ELSE IF OnItsWay("drive_forward_2cm") /\ advanced = 0 THEN 2 ELSE 0

\* The robot relies on the car from the report of the second task on.
Client ==
  IF pc \in {"aboutFace", "backUp", "handOver", "hold"} THEN "relies"
  ELSE IF pc \in {"charger", "ended"} THEN "withdrawn" ELSE "asks"

\* Mission and car implement Handshake: whatever is repeated, lost or late, and
\* whenever a charger request comes, the car begins nothing that it was not asked
\* for, nothing a second time, and nothing while the robot works beside it.
Shake == INSTANCE Handshake WITH
  Tasks <- 2,
  client <- Client,
  asked <- AskedTask,
  working <- UnderWayTask,
  done <- turned + advanced

HandshakeKept == Shake!Spec
=============================================================================
