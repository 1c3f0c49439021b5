# Models and proofs of the topology delivery robot

The repository drives a TurtleBot 3 through a building along a graph of named
nodes, has it work together with an RC car and a robot arm, and puts a web
dashboard over all of it. This directory holds TLA+ models of the parts of it in
which the order of events matters, TLC configurations that check them on small
instances, and proofs that the TLA+ proof system checks for every value of the
constants. All paths below are relative to the repository's root; `.../` stands
for `src/amr_topology/src/` (C++) and `gui_system/backend/internal/` (Go).

## 1. The system

| Part | Source | State | Operations | Talks to |
|---|---|---|---|---|
| Local planner | `.../local_astar_pure_pursuit.cpp` | state of four, start time, detour path, side escape | `update_scan`, `update_map`, `update`, `reset` | called by the mission at 20 Hz |
| Mission of area B | `.../mission2_loop.cpp` | target index, rescue (active, goal id, handle, start time), stuck timers, charger request, RC car mode | `run`, `go_path`, rescue start / cancel / callbacks, charger navigation and parking, ArUco follow, RC car modes | planner (calls), Nav2 (actions), RC car and arm (topics), bridge (`/mission_command`) |
| Mission of area A | `.../mission_loop.cpp` | the same | a near duplicate with another sequence | the same |
| RC car follower | `.../rc_car_follower_node.cpp` | mode, completion flags and references of its manoeuvres, straight latch, odometry, serial port | `set_mode`, `control_step`, `serial_odom_step`, status messages | mission (topics), Arduino (serial line) |
| Arm and servos | `scripts/arm_vision_gripper_node.py`, `scripts/esp32_servo_bridge_node.py`, `firmware/` | stage of the pick, the pose sent last, pending pose, line buffer, servo angles | vision, pick sequence; poses published and repeated, written, acknowledged, parsed, followed | mission (start and finish topics), serial line or WebSocket |
| Perception, display | `aruco_marker_detector_node.cpp`, `image_rotate*.cpp`, `topology_marker_node.cpp` | none that lasts | conversions | topics |
| WebSocket hub | `.../gateway/hub.go`, `client.go` | registry of clients; per client two channels, closed flag | add, remove, broadcast (two policies), write pump, reader | fanout (calls), browsers |
| Fanout | `.../gateway/fanout.go` | sequence number | one goroutine per message type | bridge client (channels), hub, cache |
| State cache, idempotency cache | `.../gateway/reconciliation.go`, `idempotency.go` | mission context, emergency flag; results by request id | set, snapshot; `Lookup`, `Store` | handlers |
| Mission API | `.../api/mission.go` | active mission row | start, pause, resume, reset, change of goal, emergency stop and clear | bridge client, runner, database |
| Bridge client | `.../bridge/ws_client.go` | connection, write queue, pending requests | `SendCommand`, connect / read / write loops | handlers, Python bridge |
| Process runner | `.../missionrunner/manager.go` | table of processes under one mutex | `StartArea`, `PrepareChargerInterrupt`, `Stop` | handlers, shell commands on three machines |
| ROS 2 bridge | `gui_system/bridge/ros2_bridge/` | emergency lock, last goal | one command at a time; telemetry envelopes | bridge client, Nav2, mission |
| Database | `.../database/` | telemetry buffer, SQLite | batches every 15 s or 100 rows, mission rows | handlers, analytics |
| Sessions, limits, routes | `.../core/` | sessions, rate limit windows | login, middleware | browsers |
| Maps, analytics | `.../api/navigation_map`, `.../api/data_analytics` | none | conversions, queries | dashboard |
| Dashboard | `gui_system/frontend/src/` | last known state, event log | reconnect, pull a snapshot, render | hub, API |

How a run goes: an operator asks for a mission; the API checks the emergency
flag, the runner starts the mission's processes (or the bridge sends a goal to
Nav2), `run()` calls `go_path` for each stretch of the route, waits for the RC
car, follows an ArUco marker and starts the arm; telemetry flows back through
the bridge, the fanout and the hub to every browser.

### What is hard here, and what makes each part correct

* **Planner.** Emergencies, resets, side escapes and elapsed time interleave
  with the four states. Right: it never moves at an obstacle in front, a detour
  has a path and follows an unbroken halt, the drive is given back when the
  surroundings are clear.
* **Drive and rescue.** Nav2 answers asynchronously while the 20 Hz loop starts,
  gives up and restarts rescues, and a charger request may arrive at any moment.
  Right: no goal is dropped while Nav2 executes it, late answers touch nothing,
  a rescue ends and leaves no plan of before it, an interrupt leaves nothing
  running. Mission and Nav2 never have the drive at once, for which both parts that
  use Nav2 share one abstract specification.
* **Charger.** A parameter of Nav2's costmaps is lowered and must be restored on
  every way out; goals are cancelled and followed by the mission's own drive or by
  another goal; the search for a way calls itself. Right: the lowered radius is
  accounted for, one driver at a time, a request comes to a decision.
* **Runner.** Programs on three machines, known by a table that is lost with the
  backend, stopped by commands that may not arrive. Right: one mission and one
  follower at a time, and what the manager calls inactive is stopped.
* **Servos.** Poses are published, repeated, dropped as duplicates, written in
  lines that may be cut, and followed degree by degree by a controller that may
  restart. Right: never back to an older pose, a cut line spoils little, the last
  pose is reached.
* **Hub.** Broadcasts share a read lock, clients are removed under the write
  lock, channels are closed from either side. Right: state changes are not lost
  in silence, each type arrives in order, no broadcast blocks.
* **Command path.** Retries, timeouts, a queue that outlives connections, an
  emergency stop that overtakes or misses commands. Right: no false
  acknowledgement, a confirmed stop holds, every request is answered.
* **Mission sequence and RC car.** A handshake of repeated modes and unrepeated
  statuses between two processes, without timeouts. Right: the car stands while
  the robot relies on it, each manoeuvre is carried out once however often it is
  asked for, and neither waits for the other for ever.
* **Batches, dashboard.** Rows taken out of a buffer before they are written, a
  snapshot that races live messages.

`PROJECT.json` lists each hazard at its line, with the properties about it.

## 2. The modules

| Module | Models | Kind |
|---|---|---|
| `PlannerStateMachine` | one call of the planner's `update()` or `reset()` | operators |
| `LocalPlanner` | the planner under scans, control ticks, resets and time | specification |
| `MotionAuthority` | who may move the robot: the mission, one goal of Nav2, or nobody | abstract specification |
| `MissionDrive` | one call of `go_path`, composed with the planner's operators and Nav2's action server | specification |
| `ChargerParking` | a charger request of either mission, with Nav2, its parameter service, and processes that die | specification |
| `RcCar` | one handler of the RC car's node: a mode message, a control step, odometry, the serial line | operators |
| `RcCarFollower` | the car's node under any messages | specification |
| `Handshake` | tasks asked for one after the other, and a client that relies on a server at rest | abstract specification |
| `Convoy` | `run()` of both missions, composed with the car's operators and the two topics between them | specification |
| `GatewayHub` | hub, clients and the fanout's producers | specification |
| `CommandPath` | handlers, idempotency cache, runner mutex, bridge client, connection, Python bridge | specification |
| `MCCommandPath` | who asks for what in the instances of `CommandPath` | instances |
| `MissionRunner` | the requests of `missionrunner.Manager`, step by step, and the programs they start and stop | specification |
| `MCMissionRunner` | the symmetry of its instance | instances |
| `ArmServos` | a pose from the arm's node to the servos, over three links and two firmwares | specification |
| `MCArmServos` | servos and poses of its instance | instances |
| `LocalPlannerProofs` | lemmas about the planner's operators, theorems of `LocalPlanner` | proofs |
| `MissionDriveProofs` | theorems of `MissionDrive`, on the lemmas of `LocalPlannerProofs` | proofs |
| `RcCarProofs` | lemmas about the car's operators, theorems of `RcCarFollower` and of `Convoy` on them | proofs |
| `ChargerParkingProofs`, `GatewayHubProofs`, `CommandPathProofs`, `MissionRunnerProofs`, `ArmServosProofs` | theorems of the specification of that name | proofs |

The specifications `LocalPlanner` and `RcCarFollower` are the one component under any
environment. Their definitions carry a prefix (`LocalSpec`, `NodeSpec`, ...), so that a
module can extend them together with the specification that composes the component,
and prove about both from the same lemmas. Their type invariants are
theorems; the runs of `MissionDrive` and `Convoy` check the same types.

### PlannerStateMachine and LocalPlanner

`UpdateOutcome` is `update()`: the order of its tests is the order of its early
returns (no fresh scan, front emergency, side escape, then the branch on the
state in `StateOutcome`). `Enter` is `enter_state`, `MakePlan` is `make_plan`.
Ranges, grid cells and A* are abstracted to what these tests can tell apart: is
the scan fresh, is something within the emergency distance in front, at which of
the thresholds each side is, is the line to the target clear (`Scans`), and what
A* returned, whether the target is within tolerance and which of two equally
near sides is nearer (`Circumstances`). `age` is `now - state_started_at_`,
counted up to `PlanWait` (`stop_and_plan_seconds`), beyond which the code does
not tell times apart. The alignment phase of the pure pursuit only shapes the
velocity and is left out.

### MissionDrive

An iteration of the loop in `go_path` runs without callbacks (they run in
`spin_some` at its head), so an iteration is one action and a callback is
another. The direct part of an iteration (`DirectIteration`) starts by taking
the drive back from a rescue, if that is due (`DirectControl`), and then does one
of: skip a blocked node, wait for a blocked leader slot, drive straight, hold in
a narrow corridor, follow the local plan; `ReachWithRescue`, `ReachTarget`,
`StartRescue` and `StopForCharger` are the others. `GoalResponse` and
`GoalResult` are the lambdas of `start_mppi_rescue`, with the comparison of the
goal id; `Accept`, `Reject` and `Finish` are what Nav2's controller server may do
(external: one goal at a time, a new one preempts). Geometry is a choice: where
the target is, what the scan says, whether a corridor is narrow. The module
models the first call of `go_path` of a run.

### MotionAuthority

What `MissionDrive` and `ChargerParking` promise in common: goals that move the
robot with the mission's consent (`granted`), and the mission moving it itself.
One of the two at most, and the drive passes through "nobody" on its way to Nav2.
Each of the two modules instantiates it as `Motion` with its own mapping: in
`MissionDrive` a goal is granted while the rescue holds its handle, in
`ChargerParking` while its handle is held and it is neither cancelled nor over.
`OneDriver` says that the module implements it. The mapping states the mission's
side: what Nav2 does with a goal that it has not been told about yet, or was told
to cancel a moment ago, is outside of it; `DirectDriveAlone`, which asks for more,
is violated (below).

### ChargerParking

`pc` is the place in `handle_charger_parking_request`: the two service calls of
`apply_charger_nav2_inflation_override` ("read", "write"), the waits and the watch
of `navigate_to_charger_entry` ("server", "send", "answer", "watch"; in area A
"plan", "planAnswer" and "planning" for `compute_charger_entry_path`), the corridor
escape, `restore_charger_nav2_inflation`, and the four loops of
`l_shaped_charger_parking`. `Arrive` is a return from `navigate_to_charger_entry`,
of whatever depth: the recursion passes the value on, so its stack is not modelled,
only its counter (`attempts`). Each look at the pose is a choice among `Looks`: the
tolerances of the entry are ordered, the rest is free. `navAge`, `stuckAge` and
`holdAge` are the three clocks of the watch, counted up to their limits. `Die` is
the end of the process at any step, `Restart` another one of either area, while
Nav2 keeps its goal and its parameter; `lost` records that a restoration failed or
a process died before it. The RC car, which every loop here tells to stop, is left
out.

### RcCar and RcCarFollower

`SetMode` is `set_mode()`: its cases are a completed manoeuvre (`AlreadyDone`), one
under way (`UnderWay`), one that begins (`Begin`), and the modes that end in
themselves, which reset every flag (`Forget`). `ControlStep` is `control_step()`
in the order of its early returns, `Finish` what the `make_..._command` functions
do at the target. A pose is known or not; the reference of a manoeuvre is absent,
taken when it began ("own") or left by an earlier one ("old", a distinction the
code does not make and `NoStaleTarget` is about). `Sent` is `send_pwm_command()`:
a failed write closes the port and the Arduino keeps its command. That the same
command is not written twice within 250 ms makes no difference to the wheels.
`Circumstances` are the answers of the clock and of the geometry. The turn assists
at intersection 1 and on the B route shape the velocity only and are left out.

### Convoy

`pc` is the place in `run()` (`aruco_follow_after_leader_slot` unrolled into
"search" to "handOver"), the callbacks of `spin_some` are `HearStatus`,
`CarAtStop`, `ChargerCommand` and `Republish` and run wherever a loop spins, which
is everywhere but in the 1.2 s before the arm is started. `Publish` is
`publish_rc_car_mode`. The mode topic keeps one message on either side (`Sends`:
a new one replaces the unread one or follows it); the statuses are a queue that
drops its oldest entry. `FirstCars` are the states in which a killed mission may
leave the car. Two assumptions on time are in the guards, because motions take
seconds and messages milliseconds: `Arrive` (the drive to the slot outlasts the
delivery of its first mode) and `Settled` (the wait and the turn at the slot
outlast the delivery of the statuses before them). Missions A and B differ in when
the car is stopped and in what they do afterwards; `enable_*_slot_aruco_follow`
has its default.

### Handshake

What mission and car promise each other, without topics, modes and flags: the client
asks for its tasks in order, each when the one before it is completed, the server
begins only what it is asked for, and rests while the client relies on that. `Convoy`
instantiates it as `Shake`: the turn is the first task and the short drive the second.
A task is asked for while a request for it is unread and the car has neither begun it
nor completed it, so a repetition that arrives late asks for nothing; it is under way
while the car, having heard of the mission, is in its mode; the robot relies on the
car from the report of the drive on. A mission that is interrupted or has ended has
withdrawn: the message it sends then may replace an unread request, and the car
carries out what it has begun or is told to stop. `HandshakeKept` says that the module
implements it.

### GatewayHub

Each goroutine is an actor, and every lock, channel and flag operation is a step:
a producer stamps a message (`Stamp`), takes the read lock (`StartRange`), visits
clients (`Visit` is the `closed` test, `PushCritical` / `PushLatest` /
`DropOldest` the sends), and releases it (`EndRange`). A client has a write pump
and a reader; either removes it (`Unregister` under the write lock,
`CloseRemoved` after it). A waiting writer keeps new readers out, as Go's
`sync.RWMutex` does; a send on a closed channel panics and ends the process. `wire` is
what was written to a connection, by the channel it came from: the pump takes from
either, so nothing is promised across them. A message goes on one `Line` per channel,
from the channel through the pump's hand to the wire; `due` is a history variable, the
critical messages that broadcasts had for a client.

### CommandPath

A request is a handler's run: `Arrive` (with the emergency test of
`StartMission`), `Lookup`, `SendCommand` (`Send`, `Enqueue`, `Receive`,
`Deadline`), the update of the mission context (`CloseMission`, `OpenMission`,
`SetMission`, `SetEmergency`) and `Reply` (with `Idem.Store`). Requests with one
id are retries. The write queue outlives connections; `Break` loses the tail of
what is in flight and is noticed later; replies are matched by id (`Dispatch`).
`BridgeHandles` is one turn of the bridge's loop: the lock, `_dispatch`, an
exception, and the loss of what follows a reply that cannot be sent. Not in the
model: writes to the database fail, entries of the idempotency cache expire (two
minutes), the pose estimate, the start of charger parking.

### MissionRunner

A request is one run of `StartArea`, `PrepareChargerInterrupt` or `Stop` under the
mutex, and `pc` its next step: the kills of the table (`KillTable`), the pkill
commands here and on the car (`StopLocal`, `StopRemote`), the detector's
(`StopDetector`), the second one on the car (`StopRemoteAgain`), and the starts.
`GiveUp` is a start that fails half way: it goes through `stopLocked` again. A
program is a place with a kind, a process group here (`proc`), whether its node on
the other machine is still to be told (`node`), how many stop commands it survived
and whether its backend ended (`survived`, `orphan`, history variables). A place is
free again (`Blank`) when nothing is left of its program, so the model has no bound
on starts. `Reap` is the goroutine behind `cmd.Wait()`, which needs the mutex.
What the shells do is external: an `ssh` dies without the node it started; the
first pattern of `localStopCommand` also matches the shell that runs it, so the
second and third pkill never run (`StopLocal`).

### ArmServos

A pose is known by its number in the order of publication (`sent`). `topic` is the
subscription, `pending` and `lastSent` are `pending_angles` and
`last_sent_angles`, `wire` the lines on their way, `leftover` what the firmware's
`lineBuffer` holds of a line that was cut, `target` and `angles` the firmware's
arrays. Three links: the bridge that waits for answers, the bridge that does not,
and rosbridge, whose firmware moves the servos in a loop that blocks (`moving`).
`Parse` is `parseServoCommand` after a broken line: a cut in the first angle leaves
digits in front of the next one, any later cut makes too many angles. Faults:
restarts of the ESP32, writes that fail after nothing, a part or all of a line,
reads that fail, connections that break. The callbacks of the bridge run in one
thread, so a wait for an answer (`port = "waiting"`) keeps `HandleAngles` waiting.

## 3. What the runs check

| Run | Checks | Instance |
|---|---|---|
| `LocalPlanner` | `HaltBeforeDetour`, `StopsInFront`, `ReturnsToTopologyDrive` | two clock steps of waiting: "not yet", "almost" and "long enough" differ |
| `MissionDrive` | `TypeOK`, `InterruptLeavesNothingRunning`, `OneDriver` (refinement), `LateMessagesHarmless`, `HandoffStartsAfresh`, `RescueEnds`, `ChargerHonoured` | a pass-through node and the leader slot, two rescue goals (one may be late while the other is active), early and slow handoff and the timeout at different ages |
| `ChargerParking` | `TypeOK`, `RadiusAccounted`, `OneDriver` (refinement), `RequestDecided` | both areas, two processes (the second finds what the first left in Nav2), one corridor escape of two steps and so two goals per process, a timeout of two and other limits of one: before, at and after a limit differ |
| `RcCarFollower` | `NoStaleTarget`, `RepeatedOnce`, `StopReachesWheels` | all nine messages in any order, both initial modes, all circumstances; nothing is bounded |
| `Convoy` | `TypeOK`, `CarStandsAtHandOver`, `CarStaysStopped`, `ManoeuvresOnce`, `HandshakeKept` (refinement), `HandshakeCompletes` | both missions, six cars to begin with, three unread statuses (started, done, and one of an earlier mission), one failed write |
| `GatewayHub` | `TypeOK`, `NoSilentLoss`, `TypeOrder`, `BroadcastEnds`, `ClosedClientLeaves` | two critical and one latest-wins producer, a client with room for two critical messages, three messages: the third finds the buffer full |
| `CommandPath` | `TypeOK`, `NoFalseAck`, `NoGoalAfterConfirmedStop` | a change of goal, its retry and an emergency stop at any time, one lost connection or bridge restart, a queue of one |
| `CommandPathLive` | `RequestsEnd` | an area mission, an emergency stop and its clearing |
| `MissionRunner` | `TypeOK`, `OneMission`, `OneFollower`, `InactiveMeansStopped` | four places for programs: the three of an area and one left over by an earlier one, or two pairs; interchangeable (`Places`) |
| `ArmServos` | `TypeOK`, `OnlyBaseSpoiled`, `NeverBack`, `PoseReached` | three links, two servos of three angles (the base and another), three poses of which two may be equal, two faults, two lines under way |

The change of goal and its retry are interchangeable, and the properties of
`CommandPath` are invariants and action properties, so the run takes states that
differ by their exchange for one (`RetrySymmetry` in `MCCommandPath`).

Clients of the hub do not influence each other except through the locks and a
producer's order of visits, so one client with three producers shows what
several would. One break is enough to reach every combination of "before, in and
after the break" for three requests. Bounds in the guards: `MaxGoals` (rescue goals in one call),
`MaxSeq` (messages), `MaxBreaks` (connections lost), `MaxFailures` (failed writes to
the car), `StatusDepth` (ten in the code), `MaxProcesses` (mission processes),
`Programs` (programs at a time: a start that finds no place waits), `MaxPoses`,
`WireRoom` and `MaxFaults` (poses, lines under way, faults). Deadlock is not checked
in the specifications whose behaviours end (`go_path` returns, all messages are
sent, all requests are answered, the process panics, the last mission process is
down, the last pose is reached), and in `MissionRunner`, where all places may be
taken.

Runs that end in a violation, each of a sentence of the documentation:

| Run | Property | The sentence | What happens |
|---|---|---|---|
| `MissionDriveOrphan` | `DirectDriveAlone` | `README.md:304` | a rescue given up before Nav2's answer has no handle to cancel; the goal is executed while the mission drives |
| `GatewayHubPanic` | `NoSendOnClosed` | `hub.go:58-59` | two broadcasts at one full buffer: the second sends on the channel that the first closed |

### Differences with the documentation that no run states

The models contain them, and they follow from single lines of the code:

* `README.md:261` has the planner return to the topology drive when the obstacle
  disappears; `update()` leaves a detour only at the target, at an emergency or
  without a scan. `README.md:270` has a side escape turn away from the side that
  is too close; the direction is chosen once per escape.
* `README.md:287-290` has a rescue start when a local detour failed or the robot
  was blocked for long; the stop-and-plan timer of `go_path` is looked at only
  when the planner has a command, so it runs on while the way is free, and the
  next obstacle starts a rescue at once.
* `README.md:267` has the planner stop before it plans. A rescue that Nav2 ends leaves
  the planner as it was (`result_callback` does not reset it, every other end of a
  rescue does): its wait has gone on while Nav2 drove, or it follows a detour that was
  searched before.
* `hub.go:83-84` has the write pump empty the critical channel first; its select
  takes from either. `fanout.go:12-14` has `seq` grow in the critical channel;
  it is taken before the lock, so two producers may deliver in the other order.
  `client.go:43-46` drops a sample because only the latest is needed; the one
  slot is shared by all types.
* `mission.go:51` tells the operator that without the bridge the robot stands
  still; the command waits in the write queue, or on the wire, and is executed
  when the connection is back.
* `command_handler.py:12` has the emergency stop cancel the goal; `_cancel_all`
  is empty. `mission.go:73` has a new drive close the mission before it; two
  starts at once close none, and one row stays open.
* `mission.go:18-20` and `idempotency.go:10-13` have a retry never execute a command
  twice; `Lookup` and `Store` are two steps with the command between them, and a
  command without a reply is not stored though it may be executed.
* `mission.go:319` has no mission start while the emergency stop is active;
  `EmergencyStop` sets the flag that `StartMission` tests only after it stopped the
  runner and waited for the bridge, and an area mission may pass in between.
* `mission.go:425-426` has a stop that the bridge missed take effect with the next
  command; it is not sent again, and `ChangeGoal` and `Resume` do not look at the
  flag.
* `manager.go:268-272` stops three kinds of local missions; the first `pkill -f`
  finds its own pattern in the command line of the shell that runs it, and that
  shell ends before the other two. A mission of area B or of the charger that an
  ended backend left is stopped by nothing.
* `README.md:459` has the ESP32 answer each line with `OK` or `ERR`; the firmware is
  built with `COMMAND_ACK_ENABLED 0` and answers a valid line with nothing, while
  the launch file (`arm_vision_pick.launch.py:85`) has the bridge wait for `OK`: each
  pose blocks the bridge for the 8 s of its timeout, and is then written again, until
  another pose replaces it. The `OK` that the ESP32 prints when it starts is taken
  for the answer to the line that was lost by that start.
* The bridge drops repetitions of `last_sent_angles`, and does not clear it when it
  connects again: after a restart of the ESP32 the servos stay at the pose of the
  start until the arm takes another one, though the arm's node repeats its pose every
  second to that end.
* `README.md:339` has the inflation radius restored; a process that dies on the way
  to the charger, or a service that refuses, leaves it lowered, and the next process
  takes the lowered value for the configured one.

## 4. Fairness

* `LocalPlanner`: the control loop calls `update()` and time passes (a 20 Hz
  timer and a clock); a robot that follows its detour comes within tolerance of
  its target again and again. Scans owe nothing: the property is conditional on
  their staying clear.
* `MissionDrive`: an iteration that is due to take the drive back comes, even
  with the way obstructed; the interrupt is looked at; time passes. All three
  are the one loop and its clock. Nothing is assumed of Nav2.
* `ChargerParking`: the mission's thread and its clock run, with no luck at all: there
  is no pose, and Nav2 finishes neither goal nor plan. It answers goals, plan
  requests and calls of its parameter service, for which the code waits without a
  timeout (`mission2_loop.cpp:1386`).
* `ArmServos`: the timers of both nodes and the loop of the firmware run; the serial
  port opens and the WebSocket connects again. `HandleAngles` has strong fairness: a
  message that waits while the timer waits for an answer is served in the pass
  after it, because the executor of rclpy serves every callback that is ready.
* `RcCarFollower`: the timer that reopens the port expires; if the line is up again
  and again, a command gets through it in the end (a line that breaks in every
  single write would leave the wheels turning).
* `Convoy`: the mission's loops, the delivery of messages and the car's timers run,
  the port opens, the encoders speak, and a manoeuvre comes to its end if it gets
  control steps with a fresh pose again and again. The charger request and the
  operator owe nothing.
* `GatewayHub`: a broadcast that has begun, a reader whose connection is gone
  and a goroutine that removes a client get to run (Go's scheduler). A write may
  block for ever.
* `CommandPath`: the handler of each request runs (a goroutine with a context
  that has a deadline). The network, the bridge and the robot owe nothing.

## 5. What is proved

For every value of the constants that satisfies the modules' assumptions
(`PlanWaitAssumption`, `DriveAssumption`, `BProfileAssumption`, `ConvoyAssumption`,
`ChargerAssumption`, `HubAssumption`, `CommandAssumption`, `RunnerAssumption`,
`ArmAssumption`), every invariant, action property and refinement that a passing run
checks is a theorem:

* `LocalPlannerProofs`: `LocalTypeCorrect`, `DetourPath`, `DetourAfterHalt`,
  `FrontMeansStop`. The inductive invariant is `TypeOK /\ DetourHasPath /\
  HaltCovers`: the history variable `halted` is at least the age of a halting
  state, because every way into such a state from another halting one restarts
  the age and not the halt. Lemmas say what one call of `update()` does to the
  type, the path and the age; `MissionDriveProofs` uses them too.
* `MissionDriveProofs`: `TypeCorrect`, `RescueAgrees`, `GoalsReleased`,
  `InterruptStops`, `NoRelay`, `LateMessages`, `FreshStart`. The inductive invariant adds to
  the types `GoalInv` (the fields of the rescue agree; a held goal is current,
  cancelled or over; ids beyond the last one given out are unsent and unknown to
  every callback) and `TimersOff` (the stuck timers are off during a rescue), and
  `InterruptLeavesNothingRunning` itself. The comparison of goal ids in the
  callbacks is what makes `LateMessages` a consequence of it. `RescueAgrees`,
  `GoalsReleased` and `NoRelay` are of parts of it that no run lists: the agreement of
  the rescue's fields, the release of every held goal, and a handoff that is never
  followed by another rescue in the same iteration. `FreshStart` composes the two
  parts: what one `update()` makes of a planner that was reset has neither a path nor a
  wait, whatever the scan.
  `RescueImplementsMotion` is the refinement (`Spec => OneDriver`): at most the
  current goal is granted, and only while the mission does not drive, so each step
  is a step of `MotionAuthority` or changes nothing it sees; `DriveExclusive` carries
  its invariant back.
* `ChargerParkingProofs`: `TypeCorrect`, `RadiusKept`, `ParkingImplementsMotion`,
  `DriveExclusive`. The invariant says of each place of the request whether the
  override may be in force, what was read before it, and whether a goal may be held
  and not released: only the goal being watched. A process that died is the reason
  for `lost`: what the next one reads before it overrides may be the lowered value.
* `MissionRunnerProofs`: `TypeCorrect`, `MissionAlone`, `FollowerAlone`,
  `InactiveStopped`. Between a start and the next one, every mission and every
  follower that is there fades: the step of the request says which of the stop
  commands it has been through already, that is, what is in the table, stopping,
  left over, or has survived how many of them. That a program alone of its kind is
  started follows from the last of these steps.
* `ArmServosProofs`: `TypeCorrect`, `SpoiledBaseOnly`, `PosesInOrder`. The invariant
  orders the numbers of the poses along the way: none on the topic is older than the
  pending one, which is not older than those on the wire and the command of the
  servos; `ResendLast`, the mutant, breaks exactly this.
* `CommandPathProofs`: `TypeCorrect`, `NoFalseAcks`, `ConfirmedStopHolds`. The
  invariant follows "accepted" from the bridge to the operator (`AckInv`: replies
  under way, mailboxes, outcomes, the cache and the answers are of ids the bridge has
  executed, and a pending entry is of its own id), keeps requests that have not come
  out of every queue (`SentInv`) and has the bridge locked after a stop (`LockInv`).
  A confirmed stop was then executed by the bridge, whose lock lets no goal through.
* `RcCarProofs`, of `RcCarFollower`: `NodeTypeCorrect`, `OwnTarget`, `ReportedOnce`,
  and `LatchFollows` (the straight latch of the controller is set only while the car
  follows). The inductive invariant adds `Good` (a car without a pose has no
  reference; a car that follows has no completion flag) and `Obeys` (a manoeuvre
  under way is the one the last message asked for; a car that has reported stands
  and has the flag). The second part of `Good` was found by the proof: the early
  return for a completed manoeuvre does not clear the straight latch, and need not,
  because only a car without flags can be latched. A lemma for each handler says
  that it keeps `Good` and which end it reports.
* `RcCarProofs`, of `Convoy`: `TypeCorrect`, `StandsAtHandOver`, `StaysStopped`,
  `DoneOnce`. No one of them is inductive: whether a repeated mode sets the car going
  depends on the car's flags, those on the messages it has read, those on the place
  in `run()` from which they were sent. The invariant has a part for each party.
  `Channel`: the last unread mode is the last one published, and with none unread a car
  that was told to stop stands. `LeaderInv`: what `run()` has told the car, by the
  place it is at. `CarInv`: at each place, at which stage the car is (waiting, turning,
  turned, driving forward, done with both: its mode, its completion flags and the
  number of manoeuvres it has completed since it heard of the mission), which modes
  are still unread, and which statuses are known or on their way; a status that a
  place waits for is there only if the car has got that far. `Good` is the invariant of
  the car's node. Lemmas about the car's operators take each handler through the
  stages.
* `ConvoyImplementsHandshake` (`Spec => HandshakeKept`) and `TasksInOrder`, which
  carries the invariant of `Handshake` back to mission and car. The refinement needs
  a second invariant, `RequestInv`, of what the properties leave open: a car that
  stands turned has the next request on its way, and what a mission has left unread
  when it was interrupted or ended is a request that the car can begin, or one that
  it has behind it.
* `GatewayHubProofs`: `TypeCorrect`, `NothingLost`, `InOrder`. `TypeOrder` speaks of what
  was written; the invariant (`LineInv`) orders the whole line of a channel, from its
  buffer to the wire, by producer, and places each message in it: no younger than
  the one its producer broadcasts now, and older as long as that broadcast has not
  reached this client (`Fresh`). `ProducerInv` is why a broadcast pushes once: the
  client it visits is no longer in its range. `NoSilentLoss` is inductive beside it:
  a message that finds no room goes with the closing of the client.

Model-checked only: the liveness properties (`ReturnsToTopologyDrive`, `RescueEnds`,
`ChargerHonoured`, `StopReachesWheels`, `HandshakeCompletes`, `BroadcastEnds`,
`ClosedClientLeaves`, `RequestsEnd`, `RequestDecided`, `PoseReached`), since fairness
and ENABLED are outside the prover's reach.

## 6. The plan

In order of weight; a module is written so that it can be proved about.

1. Done: planner, drive and rescue, mission sequence and RC car, hub, command
   path, charger, process runner, servos; the abstract specifications of the drive
   (two refinements) and of the handshake; a theorem for every safety property.
2. A history of what moved the robot in `MissionDrive`, to say how long it stood
   before a detour.
3. Abstract specifications for the rest: what a request of `CommandPath` promises its
   operator, and the mutual exclusion that `MissionRunner` implements.
4. The pick sequence of the arm, composed with the wait of the mission for it.
5. The telemetry batch and the dashboard's reconciliation; the shortest route
   against a reference definition.

## 7. Not modelled

Image processing, the map and marker nodes, launch files and the analytics queries
convert data or do I/O and have no state worth exploring. `topology_follower.cpp` is
an older route follower that no launch file starts.
`mission_loop.cpp` repeats `mission2_loop.cpp` for area A; its drive and rescue
are the code of `MissionDrive`, its `run()` an instance of `Convoy`, its way to the
charger one of `ChargerParking`. The pick sequence of the arm is driven by what the
camera sees; what it asks of the servos is any pose of `ArmServos`. Sessions and rate
limits are small tables under one mutex, the telemetry batch is one goroutine over
one buffer. Whether a program listens in time for a message that is sent once
(`command_handler.py:199`) is a matter of durations that no model here has.
`PROJECT.json` says of every component what is missing.
