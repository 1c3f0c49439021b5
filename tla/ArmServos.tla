------------------------------ MODULE ArmServos ------------------------------
(***************************************************************************)
(* The poses of the arm on their way to its servos.                        *)
(* arm_vision_gripper_node publishes a pose when it changes, and again     *)
(* every second; the ESP32 moves each servo towards it, a degree at a      *)
(* time.  Between the two is one of three links: esp32_servo_bridge_node   *)
(* over a serial line, waiting for an answer to each line ("waits") or not *)
(* ("trusts"), to the firmware esp32_pca9685_servo_bridge; or rosbridge    *)
(* over a WebSocket, to the firmware esp32_rosbridge_pca9685_servo.        *)
(*                                                                         *)
(* The ESP32 may restart at any step, a write may fail after any part of   *)
(* its line, and a connection may break.  A pose is known by its number in *)
(* the order of publication; the bridge compares the angles.               *)
(***************************************************************************)
EXTENDS Integers, Sequences

CONSTANTS
  Links,          \* subset of {"waits", "trusts", "rosbridge"}
  Servos,         \* the channels of the arm
  Base,           \* the one whose angle comes first in a line
  MaxAngle,       \* 180 degrees
  Poses,          \* the poses the arm may take
  BootPose,       \* angles[] of the firmware
  Depth,          \* of the subscription, ten in the code
  WireRoom,       \* bound: lines under way to the ESP32
  MaxPoses,       \* bound: poses published, apart from repetitions
  MaxFaults       \* bound: restarts, failures and breaks

Angles == 0..MaxAngle

\* A line is 19 characters long at most: the buffer of 64 takes three broken
\* ones, so "Line too long" is out of the bound.
ASSUME ArmAssumption ==
  /\ Links \subseteq {"waits", "trusts", "rosbridge"}
  /\ Base \in Servos
  /\ MaxAngle \in Nat
  /\ Poses \subseteq [Servos -> Angles]
  /\ BootPose \in [Servos -> Angles]
  /\ Depth \in Nat \ {0} /\ WireRoom \in Nat \ {0} /\ MaxPoses \in Nat \ {0}
  /\ MaxFaults \in 0..3

VARIABLES
  link,           \* how the launch file starts the system
  sent,           \* history: the poses published, without repetitions
  topic,          \* poses on their way to the subscriber
  pending,        \* pending_angles; the queue of rosbridge, which holds one
  lastSent,       \* last_sent_angles
  port,           \* "open", "closed", or "waiting" for an answer
  wire,           \* lines on their way to the ESP32
  replies,        \* lines that begin with OK or ERR, on their way back
  leftover,       \* what lineBuffer holds of a line without its end
  target,         \* targetAngles
  command,        \* history: the pose that target is of
  moving,         \* in moveAllServos, which blocks (rosbridge)
  angles,         \* angles
  blind,          \* history: last_sent_angles may not be what the ESP32 has
  faults

bridgeVars == <<pending, lastSent, port>>
lineVars == <<wire, replies>>
espVars == <<leftover, target, command, moving, angles>>
vars == <<link, sent, topic, bridgeVars, lineVars, espVars, blind, faults>>
-----------------------------------------------------------------------------
NoPose == 0
Numbers == 1..MaxPoses
Newest == Len(sent)

\* A line that was cut has no end: in its first angle, or later.
Cuts == {"first", "later"}
Whole == "none"
Lines == [pose : Numbers, cut : Cuts \cup {Whole}]
Line(n, cut) == [pose |-> n, cut |-> cut]

Init ==
  /\ link \in Links
  /\ \E p \in Poses : sent = <<p>>
  /\ topic = <<1>>
  /\ pending = NoPose
  /\ lastSent = NoPose
  /\ port = "closed"
  /\ wire = <<>>
  /\ replies = <<>>
  /\ leftover = Whole
  /\ target = BootPose
  /\ command = NoPose
  /\ moving = FALSE
  /\ angles = BootPose
  /\ blind = FALSE
  /\ faults = 0

Fault == faults < MaxFaults /\ faults' = faults + 1
-----------------------------------------------------------------------------
(* arm_vision_gripper_node *)

\* The subscription keeps the last Depth messages.  Mutant: it keeps all.
QueueAll(n) == topic' = Append(topic, n)

Queue(n) == topic' = IF Len(topic) < Depth THEN Append(topic, n)
                                           ELSE Append(Tail(topic), n)

\* publish_angles, with a pose that differs from the last.
PublishAngles(p) ==
  /\ Newest < MaxPoses
  /\ p # sent[Newest]
  /\ sent' = Append(sent, p)
  /\ Queue(Newest + 1)
  /\ UNCHANGED <<link, bridgeVars, lineVars, espVars, blind, faults>>

\* republish_current_pose_if_needed; one repetition on its way is enough.
\* Mutant: the node repeats nothing.
RepublishNothing ==
  UNCHANGED vars

RepublishCurrentPose ==
  /\ topic = <<>> /\ Queue(Newest)
  /\ UNCHANGED <<link, sent, bridgeVars, lineVars, espVars, blind, faults>>
-----------------------------------------------------------------------------
(* esp32_servo_bridge_node: one thread, whose callbacks wait for each other *)

\* handle_angles.  rosbridge keeps the last message for a subscriber, and none
\* without one.
HandleAngles ==
  /\ topic # <<>>
  /\ port # "waiting"
  /\ topic' = Tail(topic)
  /\ pending' = IF link = "rosbridge" /\ port = "closed" THEN NoPose ELSE Head(topic)
  /\ UNCHANGED <<link, sent, lastSent, port, lineVars, espVars, blind, faults>>

\* When the ESP32 restarts, the bridge has counted a pose as sent, or will: the OK
\* that the ESP32 prints at its start ends a wait for an answer, now or later, and
\* no other OK ever comes.
Blinded == link # "rosbridge" /\ (lastSent # NoPose \/ port # "closed")

\* setup of either firmware: the pose is that of the start.
Boot ==
  /\ leftover' = Whole
  /\ target' = BootPose
  /\ command' = NoPose
  /\ moving' = FALSE
  /\ angles' = BootPose

\* try_connect: the port is opened, which may or may not reset the ESP32, and
\* what it printed since is thrown away.  Mutant: what was sent last is sent
\* again, in place of what is pending.
ResendLast ==
  /\ pending' = IF lastSent # NoPose THEN lastSent ELSE pending
  /\ lastSent' = NoPose

KeepAngles == UNCHANGED <<pending, lastSent>>

TryConnect ==
  /\ link # "rosbridge"
  /\ port = "closed"
  /\ port' = "open"
  /\ replies' = <<>>
  /\ KeepAngles
  /\ \/ Boot /\ wire' = <<>> /\ blind' = (blind \/ Blinded)
     \/ UNCHANGED <<espVars, wire, blind>>
  /\ UNCHANGED <<link, sent, topic, faults>>

\* timer_step: the angles that were sent last are not sent again.
Duplicate == lastSent # NoPose /\ sent[pending] = sent[lastSent]

DropDuplicate ==
  /\ link # "rosbridge"
  /\ port = "open"
  /\ pending # NoPose
  /\ Duplicate
  /\ pending' = NoPose
  /\ UNCHANGED <<link, sent, topic, lastSent, port, lineVars, espVars, blind, faults>>

\* timer_step and write_angles.
WriteAngles ==
  /\ link # "rosbridge"
  /\ port = "open"
  /\ pending # NoPose
  /\ ~Duplicate
  /\ Len(wire) < WireRoom
  /\ wire' = Append(wire, Line(pending, Whole))
  /\ IF link = "waits"
     THEN port' = "waiting" /\ UNCHANGED <<pending, lastSent>>
     ELSE lastSent' = pending /\ pending' = NoPose /\ UNCHANGED port
  /\ UNCHANGED <<link, sent, topic, replies, espVars, blind, faults>>

\* The write raises, after nothing, a part or all of the line.
WriteFails ==
  /\ link # "rosbridge"
  /\ port = "open"
  /\ pending # NoPose
  /\ ~Duplicate
  /\ Fault
  /\ port' = "closed"
  /\ \/ UNCHANGED <<wire, blind>>
     \/ /\ Len(wire) < WireRoom
        /\ \E cut \in Cuts \cup {Whole} :
              /\ wire' = Append(wire, Line(pending, cut))
              /\ blind' = (blind \/ (cut = Whole /\ lastSent # NoPose))
  /\ UNCHANGED <<link, sent, topic, pending, lastSent, replies, espVars>>

\* wait_for_ack: the first OK or ERR is taken for the answer.
Answered ==
  /\ port = "waiting"
  /\ replies # <<>>
  /\ replies' = Tail(replies)
  /\ port' = "open"
  /\ IF Head(replies) = "OK"
     THEN lastSent' = pending /\ pending' = NoPose
     ELSE UNCHANGED <<pending, lastSent>>
  /\ UNCHANGED <<link, sent, topic, wire, espVars, blind, faults>>

AckTimeout ==
  /\ port = "waiting"
  /\ replies = <<>>
  /\ port' = "open"
  /\ UNCHANGED <<link, sent, topic, pending, lastSent, lineVars, espVars, blind, faults>>

\* The read raises.
ReadFails ==
  /\ port = "waiting"
  /\ Fault
  /\ port' = "closed"
  /\ UNCHANGED <<link, sent, topic, pending, lastSent, lineVars, espVars, blind>>
-----------------------------------------------------------------------------
(* rosbridge and the WebSocket *)

\* The connection is up: the ESP32 subscribes.
Subscribe ==
  /\ link = "rosbridge"
  /\ port = "closed"
  /\ ~moving
  /\ port' = "open"
  /\ UNCHANGED <<link, sent, topic, pending, lastSent, lineVars, espVars, blind, faults>>

Forward ==
  /\ link = "rosbridge"
  /\ port = "open"
  /\ pending # NoPose
  /\ Len(wire) < WireRoom
  /\ wire' = Append(wire, Line(pending, Whole))
  /\ pending' = NoPose
  /\ UNCHANGED <<link, sent, topic, lastSent, port, replies, espVars, blind, faults>>

\* What is under way is lost, and the subscription with it.
Disconnect ==
  /\ link = "rosbridge"
  /\ port = "open"
  /\ Fault
  /\ port' = "closed"
  /\ wire' = <<>>
  /\ pending' = NoPose
  /\ UNCHANGED <<link, sent, topic, lastSent, replies, espVars, blind>>
-----------------------------------------------------------------------------
(* The firmware *)

\* The poses that parseServoCommand makes of a whole line, after what is left
\* over of a broken one.  A cut in the first angle leaves digits in front of the
\* new one, which make an angle or none; a cut after that leaves too many
\* angles.  Mutant: what follows the last angle is ignored, and the angles are a
\* mixture of two lines.
ParseIgnoringRest(line) ==
  CASE leftover = Whole -> {sent[line.pose]}
    [] leftover = "first" -> {[sent[line.pose] EXCEPT ![Base] = a] : a \in Angles}
    [] OTHER -> [Servos -> Angles]

Parse(line) ==
  CASE leftover = Whole -> {sent[line.pose]}
    [] leftover = "first" -> {[sent[line.pose] EXCEPT ![Base] = a] : a \in Angles}
    [] OTHER -> {}

\* loop: a line without an end stays in the buffer.
ReadPart ==
  /\ link # "rosbridge"
  /\ wire # <<>>
  /\ Head(wire).cut # Whole
  /\ leftover' = IF leftover = "later" THEN leftover ELSE Head(wire).cut
  /\ wire' = Tail(wire)
  /\ UNCHANGED <<link, sent, topic, bridgeVars, replies, target, command, moving,
                 angles, blind, faults>>

\* processCommand, with COMMAND_ACK_ENABLED 0: no answer to a valid line.
AcceptLine ==
  /\ link # "rosbridge"
  /\ wire # <<>>
  /\ Head(wire).cut = Whole
  /\ target' \in Parse(Head(wire))
  /\ command' = Head(wire).pose
  /\ leftover' = Whole
  /\ wire' = Tail(wire)
  /\ blind' = (blind \/ (link = "trusts" /\ leftover # Whole))
  /\ UNCHANGED <<link, sent, topic, bridgeVars, replies, moving, angles, faults>>

RejectLine ==
  /\ link # "rosbridge"
  /\ wire # <<>>
  /\ Head(wire).cut = Whole
  /\ leftover # Whole
  /\ leftover' = Whole
  /\ wire' = Tail(wire)
  /\ replies' = IF link = "waits" THEN Append(replies, "ERR") ELSE replies
  /\ blind' = (blind \/ link = "trusts")
  /\ UNCHANGED <<link, sent, topic, bridgeVars, target, command, moving, angles, faults>>

\* handleRosbridgeMessage: moveAllServos begins.
HandleMessage ==
  /\ link = "rosbridge"
  /\ port = "open"
  /\ ~moving
  /\ wire # <<>>
  /\ target' = sent[Head(wire).pose]
  /\ command' = Head(wire).pose
  /\ moving' = TRUE
  /\ wire' = Tail(wire)
  /\ UNCHANGED <<link, sent, topic, bridgeVars, replies, leftover, angles, blind, faults>>

\* One degree towards the target.
Towards(from, to) == IF from < to THEN from + 1 ELSE IF from > to THEN from - 1 ELSE from

\* updateServosTowardLatestTarget, and the loop of moveAllServos.
StepServos ==
  /\ link = "rosbridge" => moving
  /\ angles # target
  /\ angles' = [s \in Servos |-> Towards(angles[s], target[s])]
  /\ UNCHANGED <<link, sent, topic, bridgeVars, lineVars, leftover, target, command,
                 moving, blind, faults>>

MoveDone ==
  /\ moving
  /\ angles = target
  /\ moving' = FALSE
  /\ UNCHANGED <<link, sent, topic, bridgeVars, lineVars, leftover, target, command,
                 angles, blind, faults>>

\* The ESP32 restarts: what it had received is gone.  Over the serial line it
\* prints its angles, after OK; over the WebSocket the connection is gone too.
Restart ==
  /\ Fault
  /\ Boot
  /\ wire' = <<>>
  /\ blind' = (blind \/ Blinded)
  /\ replies' = IF link = "waits" /\ port # "closed" THEN Append(replies, "OK") ELSE replies
  /\ IF link = "rosbridge"
     THEN port' = "closed" /\ pending' = NoPose
     ELSE UNCHANGED <<port, pending>>
  /\ UNCHANGED <<link, sent, topic, lastSent>>
-----------------------------------------------------------------------------
Arm == RepublishCurrentPose \/ \E p \in Poses : PublishAngles(p)

SerialBridge ==
  \/ TryConnect \/ DropDuplicate \/ WriteAngles \/ WriteFails
  \/ Answered \/ AckTimeout \/ ReadFails

Rosbridge == Subscribe \/ Forward \/ Disconnect

Firmware ==
  \/ ReadPart \/ AcceptLine \/ RejectLine \/ HandleMessage
  \/ StepServos \/ MoveDone \/ Restart

Next == Arm \/ HandleAngles \/ SerialBridge \/ Rosbridge \/ Firmware

Spec == Init /\ [][Next]_vars

\* The nodes' timers and the loop of the ESP32 run; the network and the cable
\* come back.  The bridge's executor serves each callback that is ready before it
\* serves the timer again, however long the timer waits for an answer.
FairSpec ==
  /\ Spec
  /\ WF_vars(RepublishCurrentPose) /\ SF_vars(HandleAngles)
  /\ WF_vars(TryConnect) /\ WF_vars(DropDuplicate) /\ WF_vars(WriteAngles)
  /\ WF_vars(Answered) /\ WF_vars(AckTimeout)
  /\ WF_vars(Subscribe) /\ WF_vars(Forward)
  /\ WF_vars(ReadPart) /\ WF_vars(AcceptLine \/ RejectLine) /\ WF_vars(HandleMessage)
  /\ WF_vars(StepServos) /\ WF_vars(MoveDone)
-----------------------------------------------------------------------------
TypeOK ==
  /\ link \in Links
  /\ sent \in Seq(Poses) /\ Newest \in Numbers
  /\ topic \in Seq(Numbers) /\ Len(topic) <= Depth
  /\ pending \in Numbers \cup {NoPose} /\ lastSent \in Numbers \cup {NoPose}
  /\ port \in {"open", "closed", "waiting"}
  /\ port = "waiting" => link = "waits" /\ pending # NoPose
  /\ wire \in Seq(Lines) /\ Len(wire) <= WireRoom
  /\ replies \in Seq({"OK", "ERR"})
  /\ leftover \in Cuts \cup {Whole}
  /\ target \in [Servos -> Angles] /\ angles \in [Servos -> Angles]
  /\ command \in Numbers \cup {NoPose}
  /\ moving \in BOOLEAN /\ blind \in BOOLEAN
  /\ faults \in 0..MaxFaults

\* Whatever fails and is sent again, the servos never turn back to an older pose:
\* a later command is of the same pose or a newer one, unless the ESP32 restarts.
NeverBack == [][command' >= command \/ command' = NoPose]_vars

\* A line that a failed write cut short can spoil the next one only in the angle
\* of the base: every other servo is told its angle of a pose that was published.
OnlyBaseSpoiled ==
  \A s \in Servos \ {Base} :
    target[s] = IF command = NoPose THEN BootPose[s] ELSE sent[command][s]

\* When the arm takes no new pose any more, the servos get to the last one and
\* stay there, though lines are lost, cut short and rejected.  Over the serial
\* line this takes that the bridge is never wrong about the pose it sent last, of
\* which it drops the repetitions: the ESP32 did not restart after it, no whole
\* line was taken for a failed one, and a bridge that does not wait for answers
\* had no line spoiled.
PoseReached == [](~blind) => <>[](angles = sent[Newest])
=============================================================================
