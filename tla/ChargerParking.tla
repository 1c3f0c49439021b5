---------------------------- MODULE ChargerParking ----------------------------
(***************************************************************************)
(* A charger request from its message to the end of run():                 *)
(* handle_charger_parking_request of mission2_loop.cpp (area B) and of     *)
(* mission_loop.cpp (area A).  The mission lowers the inflation radius of  *)
(* Nav2's global costmap (area B) or has a path planned (area A), sends a  *)
(* goal to Nav2 and watches it: an early handoff, a handoff after standing *)
(* near the entry, a stuck robot, a timeout, a failure.  A corridor escape *)
(* leads to another goal.  At the entry, the mission parks by itself.      *)
(*                                                                         *)
(* A mission process may be interrupted or killed between any two steps    *)
(* and another one started: Nav2 and its parameters live on.  A pass of a  *)
(* waiting loop without news changes nothing and is left out; so is the    *)
(* RC car, which every loop here tells to stop.  What the pose and the     *)
(* scan say is chosen anew whenever the code looks.                        *)
(***************************************************************************)
EXTENDS Integers, FiniteSets

CONSTANTS
  Areas,          \* the missions that may run: a subset of {"A", "B"}
  NavTimeout,     \* charger_nav2_timeout_seconds
  StuckLimit,     \* charger_nav2_stuck_seconds
  HoldLimit,      \* charger_entry_max_hold_seconds
  MaxEscapes,     \* charger_corridor_escape_max_attempts_
  EscapeTries,    \* steps of one escape, five in the code
  ForwardSteps,   \* charger_corridor_escape_forward_distance_, in steps
  MaxProcesses    \* bound: mission processes, one after the other

ASSUME ChargerAssumption ==
  /\ Areas \subseteq {"A", "B"}
  /\ NavTimeout \in Nat /\ StuckLimit \in Nat /\ HoldLimit \in Nat
  /\ MaxEscapes \in Nat /\ EscapeTries \in Nat /\ ForwardSteps \in Nat
  /\ MaxProcesses \in Nat \ {0}

\* Each process sends a goal, and another one after each escape.
Goals == 1..(MaxProcesses * (MaxEscapes + 1))

VARIABLES
  pc,             \* where in the request, see Places
  area,           \* the mission that runs
  requested,      \* charger_parking_requested_
  active,         \* charger_parking_active_
  attempts,       \* charger_corridor_escape_attempts_
  override,       \* charger_nav2_inflation_override_active_
  restoreValue,   \* charger_nav2_inflation_restore_value_
  applied,        \* charger_inflation_override_applied
  reached,        \* reached_charger_entry
  goal,           \* the last goal sent, by any process
  held,           \* goals whose handle this process has
  released,       \* of these, cancelled, or their result taken
  navAge,         \* now - nav_started_at (plan_started_at while planning)
  stuckAge,       \* now - last_progress_at
  holdAge,        \* now - charger_entry_hold_started_at, or NoReference
  tries,          \* step of the escape loop
  escaped,        \* escaped_distance, in steps
  radius,         \* the inflation radius in Nav2's global costmap
  lost,           \* history: a restore failed, or a process died before it
  server,         \* what Nav2 made of each goal
  processes       \* mission processes started so far

requestVars == <<area, requested, active>>
radiusVars == <<override, restoreValue, applied, radius, lost>>
goalVars == <<goal, held, released>>
ageVars == <<navAge, stuckAge, holdAge>>
escapeVars == <<attempts, tries, escaped>>
vars == <<pc, reached, requestVars, radiusVars, goalVars, ageVars, escapeVars,
          server, processes>>
-----------------------------------------------------------------------------
Overriding == {"read", "write"}
Planning == {"planAnswer", "planning"}
Parking == {"rotate", "corner", "arc", "dock"}
Places == {"mission", "server", "plan", "send", "answer", "watch", "escape",
           "restore", "done", "down"} \cup Overriding \cup Planning \cup Parking

Radii == {"configured", "lowered"}
NoValue == "none"
NoReference == 0 - 1

GoalStates == {"unsent", "requested", "executing", "succeeded", "failed", "rejected"}
Over == {"succeeded", "failed"}

\* Where the pose shows the robot: beyond every tolerance of the entry, within
\* ..._hold_handoff_tolerance_, ..._handoff_tolerance_ or ..._accept_tolerance_
\* (each at least the next); or there is no pose.
Looks == {"none", "far", "hold", "handoff", "accept"}

\* is_near_charger_entry and charger_fast_handoff_reached.
Near(look) == look = "accept"
FastHandoff(look) == look \in {"handoff", "accept"}

Init ==
  /\ pc = "mission"
  /\ area \in Areas
  /\ requested = FALSE
  /\ active = FALSE
  /\ attempts = 0
  /\ override = FALSE
  /\ restoreValue = NoValue
  /\ applied = FALSE
  /\ reached = FALSE
  /\ held = {}
  /\ released = {}
  /\ navAge = 0
  /\ stuckAge = 0
  /\ holdAge = NoReference
  /\ tries = 0
  /\ escaped = 0
  /\ goal = 0
  /\ radius = "configured"
  /\ lost = FALSE
  /\ server = [g \in Goals |-> "unsent"]
  /\ processes = 1
-----------------------------------------------------------------------------
(* The request *)

\* handle_mission_command: while a request is handled, another is ignored.
HandleMissionCommand ==
  /\ pc # "down"
  /\ ~active
  /\ requested' = TRUE
  /\ UNCHANGED <<pc, reached, area, active, radiusVars, goalVars, ageVars,
                 escapeVars, server, processes>>

\* handle_charger_parking_request, up to its first call that waits.
BeginCharger ==
  /\ pc = "mission"
  /\ requested /\ ~active
  /\ requested' = FALSE
  /\ active' = TRUE
  /\ attempts' = 0
  /\ pc' = IF area = "B" THEN "read" ELSE "server"
  /\ UNCHANGED <<reached, area, radiusVars, goalVars, ageVars, tries, escaped,
                 server, processes>>

\* The end of navigate_to_charger_entry: what handle_charger_parking_request
\* does next.  Mutant: a failure returns at once.
LeaveAtFailure(r) ==
  /\ reached' = r
  /\ pc' = IF r /\ applied THEN "restore" ELSE IF r THEN "rotate" ELSE "done"
  /\ active' = (applied \/ r)

Arrive(r) ==
  /\ reached' = r
  /\ pc' = IF applied THEN "restore" ELSE IF r THEN "rotate" ELSE "done"
  /\ active' = (applied \/ r)
-----------------------------------------------------------------------------
(* The inflation radius: two calls of a parameter service *)

\* apply_charger_nav2_inflation_override, up to get_parameter: the service is
\* missing, the call throws, or it answers.
ReadRadius ==
  /\ pc = "read"
  /\ \/ /\ pc' = "server"
        /\ restoreValue' \in {restoreValue, NoValue}
     \/ /\ pc' = "write"
        /\ restoreValue' = radius
  /\ UNCHANGED <<reached, requestVars, override, applied, radius, lost, goalVars,
                 ageVars, escapeVars, server, processes>>

\* The rest of it: Nav2 refuses the new value or takes it.
WriteRadius ==
  /\ pc = "write"
  /\ pc' = "server"
  /\ \/ /\ restoreValue' = NoValue
        /\ UNCHANGED <<override, applied, radius>>
     \/ /\ radius' = "lowered"
        /\ override' = TRUE
        /\ applied' = TRUE
        /\ UNCHANGED restoreValue
  /\ UNCHANGED <<reached, requestVars, lost, goalVars, ageVars, escapeVars,
                 server, processes>>

\* restore_charger_nav2_inflation, and what follows it: the service is missing
\* or refuses, and the override stays; or the value that was read is back.
RestoreRadius ==
  /\ pc = "restore"
  /\ pc' = IF reached THEN "rotate" ELSE "done"
  /\ active' = reached
  /\ \/ /\ lost' = TRUE
        /\ UNCHANGED <<override, restoreValue, radius>>
     \/ /\ override
        /\ restoreValue # NoValue
        /\ radius' = restoreValue
        /\ override' = FALSE
        /\ restoreValue' = NoValue
        /\ UNCHANGED lost
  /\ UNCHANGED <<reached, area, requested, applied, goalVars, ageVars, escapeVars,
                 server, processes>>
-----------------------------------------------------------------------------
(* navigate_to_charger_entry, up to its goal *)

\* The action server is waited for, then the proximity is looked at.  In area A
\* the pose has to be known by then.
WaitForServer(look) ==
  /\ pc = "server"
  /\ \/ Arrive(FALSE)
     \/ /\ Near(look)
        /\ Arrive(TRUE)
     \/ /\ area = "A" /\ look = "none"
        /\ Arrive(FALSE)
     \/ /\ ~Near(look)
        /\ area = "A" => look # "none"
        /\ pc' = IF area = "A" THEN "plan" ELSE "send"
        /\ UNCHANGED <<reached, active>>
  /\ UNCHANGED <<area, requested, radiusVars, goalVars, ageVars, escapeVars, server,
                 processes>>

\* compute_charger_entry_path: the planner's server is waited for, the goal
\* answered, its result waited for with a timeout.  Without a path, only the
\* proximity counts.
NoPath(look) == Arrive(Near(look))

RequestPlan(look) ==
  /\ pc = "plan"
  /\ \/ NoPath(look)
     \/ pc' = "planAnswer" /\ UNCHANGED <<reached, active>>
  /\ UNCHANGED <<area, requested, radiusVars, goalVars, ageVars, escapeVars, server,
                 processes>>

PlanAnswered(look) ==
  /\ pc = "planAnswer"
  /\ \/ NoPath(look) /\ UNCHANGED navAge
     \/ /\ pc' = "planning"
        /\ navAge' = 0
        /\ UNCHANGED <<reached, active>>
  /\ UNCHANGED <<area, requested, radiusVars, goalVars, stuckAge, holdAge,
                 escapeVars, server, processes>>

PlanReady(look) ==
  /\ pc = "planning"
  /\ \/ NoPath(look)
     \/ pc' = "send" /\ UNCHANGED <<reached, active>>
  /\ UNCHANGED <<area, requested, radiusVars, goalVars, ageVars, escapeVars, server,
                 processes>>

PlanTimeout(look) ==
  /\ pc = "planning"
  /\ navAge > NavTimeout
  /\ NoPath(look)
  /\ UNCHANGED <<area, requested, radiusVars, goalVars, ageVars, escapeVars, server,
                 processes>>

\* async_send_goal.
SendGoal ==
  /\ pc = "send"
  /\ goal + 1 \in Goals
  /\ goal' = goal + 1
  /\ server' = [server EXCEPT ![goal + 1] = "requested"]
  /\ pc' = "answer"
  /\ UNCHANGED <<reached, requestVars, radiusVars, held, released, ageVars,
                 escapeVars, processes>>

\* The loop on goal_future, which has no timeout; then the watch begins.
GoalAnswered ==
  /\ pc = "answer"
  /\ \/ /\ server[goal] = "rejected"
        /\ Arrive(FALSE)
        /\ UNCHANGED <<held, ageVars>>
     \/ /\ server[goal] \in {"executing"} \cup Over
        /\ pc' = "watch"
        /\ held' = held \cup {goal}
        /\ navAge' = 0
        /\ stuckAge' = 0
        /\ holdAge' = NoReference
        /\ UNCHANGED <<reached, active>>
  /\ UNCHANGED <<area, requested, radiusVars, goal, released, escapeVars, server,
                 processes>>
-----------------------------------------------------------------------------
(* The watch over the goal: one iteration of its loop *)

Watching == pc = "watch" /\ server[goal] \notin Over

\* async_cancel_goal: the cancel leaves, its effect is not waited for.
\* Mutant: the handle is dropped.
DropGoal == UNCHANGED released

CancelGoal == released' = released \cup {goal}

\* What a look does to the reference of the hold.
TrackHold(look, moved) ==
  holdAge' = CASE look = "far" -> NoReference
               [] look = "hold" /\ (holdAge = NoReference \/ moved) -> 0
               [] OTHER -> holdAge

\* charger_entry_hold_handoff_reached.
HoldHandoff(look, moved) ==
  /\ look = "hold"
  /\ ~moved
  /\ holdAge # NoReference
  /\ holdAge >= HoldLimit

\* The handoff, fast or after a hold: the goal is cancelled, the entry reached.
HandOff(look, moved) ==
  /\ Watching
  /\ FastHandoff(look) \/ HoldHandoff(look, moved)
  /\ CancelGoal
  /\ Arrive(TRUE)
  /\ UNCHANGED <<area, requested, radiusVars, goal, held, ageVars, escapeVars,
                 server, processes>>

\* No progress for StuckLimit, and the front is blocked.
AppearsStuck(look, progress) ==
  /\ look # "none"
  /\ ~progress
  /\ stuckAge >= StuckLimit

\* try_charger_corridor_escape, up to its loop: too many attempts, no scan, or
\* (after a short backup, if the front is close) the first step.  Mutant: one
\* attempt too many.
BeginEscapeOnceMore ==
  \/ Arrive(FALSE) /\ UNCHANGED escapeVars
  \/ /\ attempts <= MaxEscapes
     /\ attempts' = attempts + 1
     /\ pc' = "escape"
     /\ tries' = 0
     /\ escaped' = 0
     /\ UNCHANGED <<reached, active>>

BeginEscape ==
  \/ Arrive(FALSE) /\ UNCHANGED escapeVars
  \/ /\ attempts < MaxEscapes
     /\ attempts' = attempts + 1
     /\ pc' = "escape"
     /\ tries' = 0
     /\ escaped' = 0
     /\ UNCHANGED <<reached, active>>

\* The stuck watchdog gives the goal up.
GiveUpStuck(look, moved, progress) ==
  /\ Watching
  /\ ~FastHandoff(look) /\ ~HoldHandoff(look, moved)
  /\ AppearsStuck(look, progress)
  /\ CancelGoal
  /\ BeginEscape
  /\ UNCHANGED <<area, requested, radiusVars, goal, held, ageVars, server,
                 processes>>

\* A look that lets the goal go on.  Mutant: the timeout waits for a pose.
TimeoutNeedsPose(look) == look # "none" /\ navAge > NavTimeout

TimedOut(look) == navAge > NavTimeout

Watch(look, moved, progress) ==
  /\ Watching
  /\ ~FastHandoff(look) /\ ~HoldHandoff(look, moved)
  /\ ~TimedOut(look)
  /\ TrackHold(look, moved)
  /\ stuckAge' = IF look # "none" /\ progress THEN 0 ELSE stuckAge
  /\ UNCHANGED <<pc, reached, requestVars, radiusVars, goalVars, navAge, escapeVars,
                 server, processes>>

\* The timeout, which needs no pose, and what the proximity check after it (a
\* look of its own) says.
NavigationTimeout(look, moved, nearLook) ==
  /\ Watching
  /\ ~FastHandoff(look) /\ ~HoldHandoff(look, moved)
  /\ TimedOut(look)
  /\ CancelGoal
  /\ \/ Near(nearLook) /\ Arrive(TRUE) /\ UNCHANGED escapeVars
     \/ ~Near(nearLook) /\ BeginEscape
  /\ UNCHANGED <<area, requested, radiusVars, goal, held, ageVars, server,
                 processes>>

\* The loop ends with the result of the goal.
TakeResult(nearLook) ==
  /\ pc = "watch"
  /\ server[goal] \in Over
  /\ released' = released \cup {goal}
  /\ \/ server[goal] = "succeeded" /\ Arrive(TRUE) /\ UNCHANGED escapeVars
     \/ /\ server[goal] = "failed"
        /\ \/ Near(nearLook) /\ Arrive(TRUE) /\ UNCHANGED escapeVars
           \/ ~Near(nearLook) /\ BeginEscape
  /\ UNCHANGED <<area, requested, radiusVars, goal, held, ageVars, server,
                 processes>>
-----------------------------------------------------------------------------
(* The corridor escape: the mission drives, along the clearer side *)

\* drive_charger_escape_distance: the distance is covered, or its time is up
\* (which counts as covered), or the front is blocked (which does not).
DriveOutcomes == {0, 1}

\* One step: neither side has a usable scan, or (after a backup, if the front is
\* close) a drive along the clearer one.
EscapeStep ==
  /\ pc = "escape"
  /\ tries < EscapeTries
  /\ escaped < ForwardSteps
  /\ \/ Arrive(FALSE) /\ UNCHANGED <<tries, escaped>>
     \/ /\ tries' = tries + 1
        /\ \E covered \in DriveOutcomes : escaped' = escaped + covered
        /\ UNCHANGED <<pc, reached, active>>
  /\ UNCHANGED <<area, requested, radiusVars, goalVars, ageVars, attempts, server,
                 processes>>

\* The escape is over: navigate_to_charger_entry calls itself, or gives up.
EndEscape(look) ==
  /\ pc = "escape"
  /\ tries = EscapeTries \/ escaped >= ForwardSteps
  /\ IF Near(look) \/ escaped > 0
     THEN pc' = "server" /\ UNCHANGED <<reached, active>>
     ELSE Arrive(FALSE)
  /\ UNCHANGED <<area, requested, radiusVars, goalVars, ageVars, escapeVars, server,
                 processes>>
-----------------------------------------------------------------------------
(* l_shaped_charger_parking: four loops without a timeout *)

\* charger_parking_interrupt_requested, at the head of each of them.
Interrupted == requested /\ ~active

GoOn(to) ==
  /\ pc' = to
  /\ active' = (to # "done")
  /\ UNCHANGED <<reached, area, requested, radiusVars, goalVars, ageVars, escapeVars,
                 server, processes>>

\* Without a pose, there is nothing to compute the corner from: the request ends
\* as if the robot were parked.
SkipParking ==
  /\ pc = "rotate"
  /\ GoOn("done")

\* rotate_to_yaw, towards the corner.
RotateToCorner ==
  /\ pc = "rotate"
  /\ GoOn("corner")

\* drive_forward_straight_to_pose.
DriveToCorner ==
  /\ pc = "corner"
  /\ GoOn("arc")

\* reverse_arc_to_pose.
ReverseArc ==
  /\ pc = "arc"
  /\ GoOn("dock")

\* reverse_dock_to_pose: within tolerance, past the dock, or too slow to go on.
ReverseDock ==
  /\ pc = "dock"
  /\ GoOn("done")

Park ==
  /\ ~Interrupted
  /\ RotateToCorner \/ DriveToCorner \/ ReverseArc \/ ReverseDock
-----------------------------------------------------------------------------
(* Nav2, time, and the end of a process *)

\* A new goal preempts the one being executed.
Accept(g) ==
  /\ server[g] = "requested"
  /\ server' = [h \in Goals |->
                  IF h = g THEN "executing"
                  ELSE IF server[h] = "executing" THEN "failed" ELSE server[h]]

Reject(g) ==
  /\ server[g] = "requested"
  /\ server' = [server EXCEPT ![g] = "rejected"]

\* The goal succeeds; or it is aborted, or a cancel arrives.
FinishGoal(g) ==
  /\ server[g] = "executing"
  /\ \E s \in Over : server' = [server EXCEPT ![g] = s]

Nav2Answers ==
  /\ \E g \in Goals : Accept(g) \/ Reject(g)
  /\ UNCHANGED <<pc, reached, requestVars, radiusVars, goalVars, ageVars, escapeVars,
                 processes>>

Nav2Finishes ==
  /\ \E g \in Goals : FinishGoal(g)
  /\ UNCHANGED <<pc, reached, requestVars, radiusVars, goalVars, ageVars, escapeVars,
                 processes>>

Later(age, limit) == IF age < limit THEN age + 1 ELSE age

Tick ==
  /\ pc \in {"watch", "planning"}
  /\ navAge' = Later(navAge, NavTimeout + 1)
  /\ stuckAge' = Later(stuckAge, StuckLimit)
  /\ holdAge' = IF holdAge = NoReference THEN NoReference ELSE Later(holdAge, HoldLimit)
  /\ UNCHANGED <<pc, reached, requestVars, radiusVars, goalVars, escapeVars, server,
                 processes>>

\* The memory of the process is gone.
Forget ==
  /\ requested' = FALSE
  /\ active' = FALSE
  /\ attempts' = 0
  /\ override' = FALSE
  /\ restoreValue' = NoValue
  /\ applied' = FALSE
  /\ reached' = FALSE
  /\ held' = {}
  /\ released' = {}
  /\ navAge' = 0
  /\ stuckAge' = 0
  /\ holdAge' = NoReference
  /\ tries' = 0
  /\ escaped' = 0

\* run() returns, or the process is interrupted: every loop ends at
\* rclcpp::ok(), the goal is not cancelled, and the parameter service is out of
\* reach of a node that shuts down.
Die ==
  /\ pc # "down"
  /\ pc' = "down"
  /\ Forget
  /\ lost' = (lost \/ radius = "lowered")
  /\ UNCHANGED <<area, goal, radius, server, processes>>

\* Another mission process starts, of either area.
Restart ==
  /\ pc = "down"
  /\ processes < MaxProcesses
  /\ processes' = processes + 1
  /\ pc' = "mission"
  /\ area' \in Areas
  /\ UNCHANGED <<reached, requested, active, radiusVars, goalVars, ageVars,
                 escapeVars, server>>
-----------------------------------------------------------------------------
Navigate ==
  \/ \E look \in Looks :
        WaitForServer(look) \/ RequestPlan(look) \/ PlanAnswered(look)
          \/ PlanReady(look) \/ PlanTimeout(look)
  \/ SendGoal
  \/ GoalAnswered
  \/ \E look \in Looks, moved, progress \in BOOLEAN :
        \/ HandOff(look, moved)
        \/ GiveUpStuck(look, moved, progress)
        \/ Watch(look, moved, progress)
        \/ \E nearLook \in Looks : NavigationTimeout(look, moved, nearLook)
  \/ \E nearLook \in Looks : TakeResult(nearLook)
  \/ EscapeStep
  \/ \E look \in Looks : EndEscape(look)

Next ==
  \/ HandleMissionCommand \/ BeginCharger
  \/ ReadRadius \/ WriteRadius \/ RestoreRadius
  \/ Navigate
  \/ SkipParking \/ Park
  \/ Nav2Answers \/ Nav2Finishes
  \/ Tick
  \/ Die \/ Restart

Spec == Init /\ [][Next]_vars

\* The mission's thread runs and time passes; Nav2 answers every goal (accepts or
\* rejects it), every plan request and every call of its parameter service, as
\* long as both processes live.  It need not finish a goal or a plan, and there
\* need not be a pose.
FairSpec ==
  /\ Spec
  /\ WF_vars(ReadRadius) /\ WF_vars(WriteRadius) /\ WF_vars(RestoreRadius)
  /\ WF_vars(WaitForServer("none")) /\ WF_vars(WaitForServer("far"))
  /\ WF_vars(RequestPlan("none")) /\ WF_vars(PlanAnswered("none"))
  /\ WF_vars(PlanTimeout("none"))
  /\ WF_vars(SendGoal) /\ WF_vars(GoalAnswered)
  /\ WF_vars(NavigationTimeout("none", FALSE, "none"))
  /\ WF_vars(TakeResult("none"))
  /\ WF_vars(EscapeStep) /\ WF_vars(EndEscape("none"))
  /\ WF_vars(Nav2Answers)
  /\ WF_vars(Tick)
-----------------------------------------------------------------------------
TypeOK ==
  /\ pc \in Places
  /\ area \in Areas
  /\ requested \in BOOLEAN /\ active \in BOOLEAN
  /\ attempts \in 0..MaxEscapes
  /\ override \in BOOLEAN /\ applied \in BOOLEAN /\ reached \in BOOLEAN
  /\ restoreValue \in Radii \cup {NoValue}
  /\ goal \in Goals \cup {0}
  /\ held \subseteq Goals /\ released \subseteq Goals
  /\ navAge \in 0..(NavTimeout + 1)
  /\ stuckAge \in 0..StuckLimit
  /\ holdAge \in {NoReference} \cup 0..HoldLimit
  /\ tries \in 0..EscapeTries /\ escaped \in 0..EscapeTries
  /\ radius \in Radii /\ lost \in BOOLEAN
  /\ server \in [Goals -> GoalStates]
  /\ processes \in 1..MaxProcesses

\* The costmap has the lowered radius only on the way to the charger, while the
\* mission knows the configured one and will write it back, wherever the way
\* ends; or a restore failed, or a process died on the way.  With a process that
\* follows one that died, the value it read is not the configured one.
RadiusAccounted ==
  radius = "lowered" =>
    \/ lost
    \/ /\ override /\ applied
       /\ restoreValue = "configured"
       /\ pc \in {"server", "send", "answer", "watch", "escape", "restore"}

\* A request leads to the parking or to its end, though Nav2 never finishes a
\* goal or a plan and the pose never comes: the corridor escapes, which send
\* another goal, come to an end.
RequestDecided == active ~> (pc \in Parking \/ ~active)

\* The way to the charger implements MotionAuthority: the mission escapes and
\* parks only when the goal it sent is cancelled or over, and sends the next one
\* only then.  A goal of a process that died is with nobody.
Motion == INSTANCE MotionAuthority WITH
  granted <- held \ released,
  mission <- pc \in {"mission", "escape"} \cup Parking

OneDriver == Motion!Spec
=============================================================================
