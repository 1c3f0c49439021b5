----------------------------- MODULE MissionDrive -----------------------------
(***************************************************************************)
(* One call of go_path in src/src/amr_topology/src/mission2_loop.cpp: the  *)
(* 20 Hz loop that drives the robot along a path of topology nodes, hands  *)
(* it to a Nav2 "rescue" goal when the local planner is stuck, takes it    *)
(* back, and gives way to a charger request.  Callbacks (goal responses,   *)
(* results, topics) run in spin_some at the head of an iteration; the rest *)
(* of the iteration runs without them, so an iteration is one action here  *)
(* and callbacks are actions between iterations.  An iteration without a   *)
(* robot pose, or that lets the rescue go on, changes nothing.  Nav2's     *)
(* controller server, on the other side of the action interface, is        *)
(* external: it takes one goal at a time and lets a new one preempt.       *)
(***************************************************************************)
EXTENDS PlannerStateMachine

CONSTANTS
  Nodes,          \* length of the path; the last node is the leader slot
  Skippable,      \* positions for which is_skippable_node holds
  StuckLimit,     \* mppi_rescue_stop_and_plan_seconds, ..._side_escape_seconds
  MinHandoff,     \* mppi_rescue_min_handoff_seconds
  SlowHandoff,    \* mppi_rescue_slow_handoff_seconds
  RescueTimeout,  \* mppi_rescue_timeout_seconds
  MaxGoals        \* bound: rescue goals sent in one call

ASSUME DriveAssumption ==
  /\ Nodes \in Nat \ {0}
  /\ Skippable \subseteq 1..(Nodes - 1)
  /\ StuckLimit \in Nat \ {0}
  /\ MinHandoff \in Nat \ {0}
  /\ SlowHandoff \in Nat
  /\ RescueTimeout \in Nat
  /\ MinHandoff <= SlowHandoff
  /\ SlowHandoff <= RescueTimeout
  /\ MaxGoals \in Nat

Goals == 1..MaxGoals
NoGoal == 0

VARIABLES
  pc,             \* where in go_path: "drive", "await" (a blocked leader slot
                  \* to clear), "rotate"; "reached" and "interrupted": returned
  target,         \* target_index
  planner,        \* local_planner_
  stopTimer,      \* mppi_stop_and_plan_active_ and ..._started_at_
  escapeTimer,    \* mppi_side_escape_active_ and ..._started_at_
  cmd,            \* kind of the last Twist published by the mission
  charger,        \* charger_parking_requested_
  rcMode,         \* last_rc_car_mode_
  rcStopSent,     \* rc_b_stop_sent_
  rescueActive,   \* mppi_rescue_active_
  rescueAge,      \* now - mppi_rescue_started_at_, up to RescueTimeout + 1
  goalSeq,        \* mppi_rescue_goal_id_
  activeId,       \* mppi_active_goal_id_
  handle,         \* mppi_goal_handle_, by the id of its goal
  held,           \* history: goals whose handle was stored
  answered,       \* goals whose response callback has run
  resulted,       \* goals whose result callback has run
  cancelSent,     \* goals for which async_cancel_goal was called
  server          \* what the controller server made of each goal

loopVars == <<pc, target, planner, stopTimer, escapeTimer, cmd>>
topicVars == <<charger, rcMode, rcStopSent>>
rescueVars == <<rescueActive, rescueAge, goalSeq, activeId, handle>>
actionVars == <<held, answered, resulted, cancelSent, server>>
vars == <<loopVars, topicVars, rescueVars, actionVars>>
-----------------------------------------------------------------------------
Timers == [on : BOOLEAN, age : 0..StuckLimit]
NoTimer == [on |-> FALSE, age |-> 0]

GoalStates == {"unsent", "requested", "executing", "ended", "rejected"}

Init ==
  /\ pc = "drive"
  /\ target = 1
  /\ planner = Reset
  /\ stopTimer = NoTimer
  /\ escapeTimer = NoTimer
  /\ cmd = "zero"
  /\ charger = FALSE
  /\ rcMode = "follow"
  /\ rcStopSent = FALSE
  /\ rescueActive = FALSE
  /\ rescueAge = 0
  /\ goalSeq = 0
  /\ activeId = NoGoal
  /\ handle = NoGoal
  /\ held = {}
  /\ answered = {}
  /\ resulted = {}
  /\ cancelSent = {}
  /\ server = [i \in Goals |-> "unsent"]
-----------------------------------------------------------------------------
\* cancel_mppi_rescue: only a goal whose handle has arrived can be cancelled.
\* Mutant: no cancel is sent.
CancelRescueSilently ==
  /\ handle' = NoGoal
  /\ rescueActive' = FALSE
  /\ rescueAge' = 0
  /\ activeId' = NoGoal
  /\ UNCHANGED cancelSent

CancelRescue ==
  /\ cancelSent' = cancelSent \cup ({handle} \ {NoGoal})
  /\ handle' = NoGoal
  /\ rescueActive' = FALSE
  /\ rescueAge' = 0
  /\ activeId' = NoGoal

\* What mppi_rescue_handoff_is_clear sees: the clearance it asks for at first,
\* at least the smaller one it asks for later, or neither.
Views == {"clear", "slow_clear", "obstructed"}

\* rescue_elapsed and the view hand the drive back; after the timeout the view
\* does not count.  Mutant: no timeout.
HandoffOnlyWhenClear(view) ==
  \/ rescueAge >= MinHandoff /\ view = "clear"
  \/ rescueAge >= SlowHandoff /\ view # "obstructed"

HandoffDue(view) ==
  \/ rescueAge >= MinHandoff /\ view = "clear"
  \/ rescueAge >= SlowHandoff /\ view # "obstructed"
  \/ rescueAge > RescueTimeout

\* The iteration takes the drive back from the rescue, or has it anyway.
DirectControl(view) ==
  \/ /\ ~rescueActive
     /\ UNCHANGED <<rescueActive, rescueAge, activeId, handle, cancelSent>>
  \/ /\ rescueActive
     /\ HandoffDue(view)
     /\ CancelRescue

\* The planner that the direct part of the iteration starts from.  Mutant: the
\* handoff does not reset it.
PlannerKept == planner

PlannerNow == IF rescueActive THEN Reset ELSE planner

\* is_final, and its mutant off by one.
FinalTooLate == target = Nodes + 1

Final == target = Nodes

\* The head of every iteration that goes on.
Iterating == pc = "drive" /\ ~charger
-----------------------------------------------------------------------------
(* Iterations of go_path *)

\* With the rescue active, the target is within tolerance.
ReachWithRescue ==
  /\ Iterating
  /\ rescueActive
  /\ CancelRescue
  /\ planner' = Reset
  /\ IF Final THEN pc' = "rotate" /\ cmd' = "zero" /\ UNCHANGED target
              ELSE target' = target + 1 /\ UNCHANGED <<pc, cmd>>
  /\ UNCHANGED <<stopTimer, escapeTimer, topicVars, goalSeq, held, answered,
                 resulted, server>>

\* A blocked pass-through node is skipped when the way to the next is clear.
SkipBlockedNode(view) ==
  /\ Iterating
  /\ target \in Skippable
  /\ DirectControl(view)
  /\ planner' = Reset
  /\ target' = target + 1
  /\ UNCHANGED <<pc, stopTimer, escapeTimer, cmd, topicVars, goalSeq, held,
                 answered, resulted, server>>

\* A blocked leader slot is waited for (wait_for_blocked_target_clear).
AwaitBlockedSlot(view) ==
  /\ Iterating
  /\ Final
  /\ DirectControl(view)
  /\ pc' = "await"
  /\ cmd' = "zero"
  /\ planner' = PlannerNow
  /\ UNCHANGED <<target, stopTimer, escapeTimer, topicVars, goalSeq, held,
                 answered, resulted, server>>

SlotClears ==
  /\ pc = "await"
  /\ ~charger
  /\ pc' = "drive"
  /\ planner' = Reset
  /\ UNCHANGED <<target, stopTimer, escapeTimer, cmd, topicVars, rescueVars,
                 actionVars>>

\* Without a rescue, the target is within tolerance.
ReachTarget ==
  /\ Iterating
  /\ ~rescueActive
  /\ planner' = Reset
  /\ IF Final THEN pc' = "rotate" /\ cmd' = "zero" /\ UNCHANGED target
              ELSE target' = target + 1 /\ UNCHANGED <<pc, cmd>>
  /\ UNCHANGED <<stopTimer, escapeTimer, topicVars, rescueVars, actionVars>>

\* All that local_planner_.update() can do, for whatever planner and scan.
PlannerMoves ==
  {<<p, UpdateOutcome(p, s, c)>> : p \in Planners, s \in Scans, c \in Circumstances}

PlannerOutcomes(p) == {m[2] : m \in {n \in PlannerMoves : n[1] = p}}

\* A stuck timer runs while the planner says its label; it looks at the label
\* only at iterations at which the planner has a command.
TimerAfter(timer, says, label) ==
  IF says # label THEN NoTimer
  ELSE [timer EXCEPT !.on = TRUE]

TimedOut(timer) == timer.on /\ timer.age >= StuckLimit

\* The planner has nothing to say: drive straight to the target.
DriveStraight(view) ==
  /\ Iterating
  /\ DirectControl(view)
  /\ \E o \in PlannerOutcomes(PlannerNow) :
        /\ o.says = "none"
        /\ planner' = o.planner
  /\ cmd' = "drive"
  /\ UNCHANGED <<pc, target, stopTimer, escapeTimer, topicVars, goalSeq, held,
                 answered, resulted, server>>

\* What the planner says, and the stuck timers that follow it.
Consult(o) ==
  /\ o \in PlannerOutcomes(PlannerNow)
  /\ o.says # "none"
  /\ stopTimer' = TimerAfter(stopTimer, o.says, "stop_and_plan")
  /\ escapeTimer' = TimerAfter(escapeTimer, o.says, "side_escape")

WantsRescue(o) ==
  \/ o.says = "blocked"
  \/ TimedOut(TimerAfter(stopTimer, o.says, "stop_and_plan"))
  \/ TimedOut(TimerAfter(escapeTimer, o.says, "side_escape"))

\* The corridor is too narrow: hold the position.
HoldInCorridor(view) ==
  /\ Iterating
  /\ DirectControl(view)
  /\ \E o \in PlannerOutcomes(PlannerNow) : Consult(o)
  /\ planner' = Reset
  /\ cmd' = "zero"
  /\ UNCHANGED <<pc, target, topicVars, goalSeq, held, answered, resulted, server>>

\* Publish the command of the planner: no rescue is wanted, or none can start
\* because the FollowPath server is not there.
FollowLocalPlan(view) ==
  /\ Iterating
  /\ DirectControl(view)
  /\ \E o \in PlannerOutcomes(PlannerNow) :
        /\ Consult(o)
        /\ planner' = o.planner
        /\ cmd' = IF o.says \in Moving THEN "detour" ELSE "zero"
  /\ UNCHANGED <<pc, target, topicVars, goalSeq, held, answered, resulted, server>>

\* A rescue that starts stops both timers.
ClearStuckTimers == stopTimer' = NoTimer /\ escapeTimer' = NoTimer

\* start_mppi_rescue: a new goal id, and the goal request leaves.  The iteration
\* that hands a rescue off does not get here: HandoffNeverRelays.
StartRescue ==
  /\ Iterating
  /\ ~rescueActive
  /\ goalSeq < MaxGoals
  /\ \E o \in PlannerOutcomes(PlannerNow) :
        /\ o.says # "none"
        /\ WantsRescue(o)
        /\ planner' = o.planner
  /\ ClearStuckTimers
  /\ goalSeq' = goalSeq + 1
  /\ activeId' = goalSeq + 1
  /\ rescueActive' = TRUE
  /\ rescueAge' = 0
  /\ server' = [server EXCEPT ![goalSeq + 1] = "requested"]
  /\ UNCHANGED <<pc, target, cmd, topicVars, handle, held, answered, resulted,
                 cancelSent>>

\* rotate_to_node_yaw turns, then go_path returns.
Turn ==
  /\ pc = "rotate"
  /\ ~charger
  /\ cmd' = "turn"
  /\ UNCHANGED <<pc, target, planner, stopTimer, escapeTimer, topicVars,
                 rescueVars, actionVars>>

Turned ==
  /\ pc = "rotate"
  /\ ~charger
  /\ cmd' = "zero"
  /\ pc' = "reached"
  /\ UNCHANGED <<target, planner, stopTimer, escapeTimer, topicVars, rescueVars,
                 actionVars>>

\* The loops that look for the request.  Mutant: the wait for the slot does not.
InterruptPointsButAwait == {"drive", "rotate"}

InterruptPoints == {"drive", "await", "rotate"}

\* stop_current_action_for_charger_interrupt, at the head of the drive loop, of
\* the wait for the leader slot (back to the drive loop, which stops again) and
\* of the rotation (after which go_path returns as usual).
StopForCharger ==
  /\ charger
  /\ pc \in InterruptPoints
  /\ pc' = CASE pc = "drive" -> "interrupted"
             [] pc = "await" -> "drive"
             [] pc = "rotate" -> "reached"
  /\ CancelRescue
  /\ planner' = Reset
  /\ cmd' = "zero"
  /\ rcMode' = "stop"
  /\ UNCHANGED <<target, stopTimer, escapeTimer, charger, rcStopSent, goalSeq,
                 held, answered, resulted, server>>
-----------------------------------------------------------------------------
(* Callbacks, run by spin_some *)

\* goal_id == mppi_active_goal_id_.  Mutant: callbacks do not look.
AnyGoal(i) == activeId # NoGoal

IsCurrent(i) == i = activeId

\* goal_response_callback of start_mppi_rescue.
GoalResponse(i) ==
  /\ server[i] \in {"executing", "ended", "rejected"}
  /\ i \notin answered
  /\ answered' = answered \cup {i}
  /\ \/ /\ ~IsCurrent(i)
        /\ UNCHANGED <<rescueActive, rescueAge, activeId, handle, held>>
     \/ /\ IsCurrent(i)
        /\ server[i] = "rejected"
        /\ rescueActive' = FALSE
        /\ rescueAge' = 0
        /\ activeId' = NoGoal
        /\ UNCHANGED <<handle, held>>
     \/ /\ IsCurrent(i)
        /\ server[i] # "rejected"
        /\ handle' = i
        /\ held' = held \cup {i}
        /\ UNCHANGED <<rescueActive, rescueAge, activeId>>
  /\ UNCHANGED <<loopVars, topicVars, goalSeq, resulted, cancelSent, server>>

\* result_callback: the client asks for the result once the goal is accepted.
GoalResult(i) ==
  /\ server[i] = "ended"
  /\ i \in answered
  /\ i \notin resulted
  /\ resulted' = resulted \cup {i}
  /\ IF ~IsCurrent(i)
     THEN UNCHANGED <<rescueActive, rescueAge, activeId, handle>>
     ELSE /\ rescueActive' = FALSE
          /\ rescueAge' = 0
          /\ activeId' = NoGoal
          /\ handle' = NoGoal
  /\ UNCHANGED <<loopVars, topicVars, goalSeq, held, answered, cancelSent, server>>

\* handle_mission_command: start_charger_parking.
ChargerRequest ==
  /\ ~charger
  /\ charger' = TRUE
  /\ UNCHANGED <<loopVars, rcMode, rcStopSent, rescueVars, actionVars>>

\* handle_rc_car_odom: the RC car is at rc_b_stop.
RcCarAtStop ==
  /\ ~rcStopSent
  /\ pc \in {"drive", "await", "rotate"}
  /\ rcStopSent' = TRUE
  /\ rcMode' = "stop"
  /\ UNCHANGED <<loopVars, charger, rescueVars, actionVars>>
-----------------------------------------------------------------------------
(* Nav2's controller server, and time *)

\* A new goal preempts the one being executed.
Accept(i) ==
  /\ server[i] = "requested"
  /\ server' = [j \in Goals |->
                  IF j = i THEN "executing"
                  ELSE IF server[j] = "executing" THEN "ended" ELSE server[j]]
  /\ UNCHANGED <<loopVars, topicVars, rescueVars, held, answered, resulted,
                 cancelSent>>

Reject(i) ==
  /\ server[i] = "requested"
  /\ server' = [server EXCEPT ![i] = "rejected"]
  /\ UNCHANGED <<loopVars, topicVars, rescueVars, held, answered, resulted,
                 cancelSent>>

\* The goal succeeds or is aborted; or a cancel request arrives.
Finish(i) ==
  /\ server[i] = "executing"
  /\ server' = [server EXCEPT ![i] = "ended"]
  /\ UNCHANGED <<loopVars, topicVars, rescueVars, held, answered, resulted,
                 cancelSent>>

Older(timer) ==
  IF timer.on /\ timer.age < StuckLimit THEN [timer EXCEPT !.age = @ + 1] ELSE timer

Clock ==
  /\ planner' = IF planner.state # "normal" /\ planner.age < PlanWait
                THEN [planner EXCEPT !.age = @ + 1] ELSE planner
  /\ stopTimer' = Older(stopTimer)
  /\ escapeTimer' = Older(escapeTimer)
  /\ rescueAge' = IF rescueActive /\ rescueAge <= RescueTimeout
                  THEN rescueAge + 1 ELSE rescueAge
  /\ UNCHANGED <<pc, target, cmd, topicVars, rescueActive, goalSeq, activeId,
                 handle, actionVars>>
-----------------------------------------------------------------------------
DirectIteration(view) ==
  \/ SkipBlockedNode(view)
  \/ AwaitBlockedSlot(view)
  \/ DriveStraight(view)
  \/ HoldInCorridor(view)
  \/ FollowLocalPlan(view)

Iterate ==
  \/ \E view \in Views : DirectIteration(view)
  \/ ReachWithRescue \/ ReachTarget \/ StartRescue \/ StopForCharger

Callback ==
  \/ \E i \in Goals : GoalResponse(i) \/ GoalResult(i)
  \/ ChargerRequest
  \/ RcCarAtStop

Nav2 == \E i \in Goals : Accept(i) \/ Reject(i) \/ Finish(i)

Next ==
  \/ Iterate \/ SlotClears \/ Turn \/ Turned
  \/ Callback
  \/ Nav2
  \/ Clock

Spec == Init /\ [][Next]_vars

\* The loop runs at 20 Hz with a robot pose, and time passes: an iteration that
\* is due to take the drive back comes.  Nothing is asked of Nav2, and the way
\* never has to be clear.
FairSpec ==
  /\ Spec
  /\ WF_vars(rescueActive /\ DirectIteration("obstructed"))
  /\ WF_vars(StopForCharger)
  /\ WF_vars(Clock)
-----------------------------------------------------------------------------
TypeOK ==
  /\ pc \in {"drive", "await", "rotate", "reached", "interrupted"}
  /\ target \in 1..Nodes
  /\ planner \in Planners
  /\ stopTimer \in Timers
  /\ escapeTimer \in Timers
  /\ cmd \in {"zero", "drive", "detour", "turn"}
  /\ charger \in BOOLEAN
  /\ rcMode \in {"follow", "stop"}
  /\ rcStopSent \in BOOLEAN
  /\ rescueActive \in BOOLEAN
  /\ rescueAge \in 0..(RescueTimeout + 1)
  /\ goalSeq \in 0..MaxGoals
  /\ activeId \in Goals \cup {NoGoal}
  /\ handle \in Goals \cup {NoGoal}
  /\ held \subseteq Goals
  /\ answered \subseteq Goals
  /\ resulted \subseteq Goals
  /\ cancelSent \subseteq Goals
  /\ server \in [Goals -> GoalStates]

\* A goal whose handle the mission ever held is the current rescue, or was
\* cancelled, or is over: whatever order responses, results, handoffs, waypoints,
\* timeouts and charger requests come in, none is dropped while Nav2 executes it.
HeldGoalsReleased ==
  \A i \in held : i = handle \/ i \in cancelSent \/ server[i] = "ended"

\* The fields of the rescue agree: it is active exactly while a goal id is, that
\* id is the last one given out, and the handle to cancel is that goal's.
RescueConsistent ==
  /\ rescueActive <=> activeId # NoGoal
  /\ activeId \in {NoGoal, goalSeq}
  /\ handle \in {NoGoal, activeId}

\* The iteration that takes the drive back never hands it out again: the timers
\* that would have it do so were cleared when the rescue started.
HandoffNeverRelays ==
  rescueActive => \A o \in PlannerOutcomes(Reset) : ~WantsRescue(o)

\* The answer or the result of an earlier goal, arriving late, never ends the
\* present rescue: a callback ends it only with a message of its own goal.
LateMessagesHarmless ==
  [][ /\ activeId # NoGoal
      /\ activeId' # activeId
      /\ answered' # answered \/ resulted' # resulted
      => activeId \in (answered' \ answered) \cup (resulted' \ resulted) ]_vars

\* A rescue that the mission ends leaves nothing of the detour before it: the
\* planner has no path that was searched from where the robot is no longer, and
\* no wait of it counts the time in which Nav2 drove.  (A rescue that Nav2 ends
\* leaves the planner as it was: result_callback does not reset it.)
HandoffStartsAfresh ==
  [][ rescueActive /\ ~rescueActive' /\ UNCHANGED <<answered, resulted>>
      => ~planner'.path /\ planner'.age = 0 ]_vars

\* After the interrupt nothing the mission could stop keeps the robot moving:
\* the mission's own command is zero, the RC car is told to stop, and every
\* goal it held is cancelled or over.
InterruptLeavesNothingRunning ==
  pc = "interrupted" =>
    /\ cmd = "zero" /\ rcMode = "stop" /\ ~rescueActive
    /\ \A i \in held : i \in cancelSent \/ server[i] = "ended"

\* A rescue does not last: the mission takes the drive back though Nav2 never
\* answers the goal, never reports a result and never clears the way.
RescueEnds == rescueActive ~> ~rescueActive

\* A charger request ends the call of go_path, whatever it is doing.
ChargerHonoured == charger ~> pc \in {"reached", "interrupted"}

\* README.md:304 says that mission_loop hands the drive back because a rescue
\* that stays on would conflict with direct control.  A rescue given up before
\* Nav2's answer has no handle to cancel, and its late answer is ignored: the
\* goal is executed while the mission drives.
DirectDriveAlone ==
  pc = "drive" /\ ~rescueActive /\ cmd \in {"drive", "detour"}
    => \A i \in Goals : server[i] = "executing" => i \in cancelSent

\* The rescue implements MotionAuthority: whatever order responses, results,
\* handoffs, timeouts and charger requests come in, a goal whose handle the
\* mission holds is the only one that it lets drive, and the mission drives only
\* when that goal is cancelled or over.
Motion == INSTANCE MotionAuthority WITH
  granted <- {i \in held : i \notin cancelSent /\ server[i] # "ended"},
  mission <- ~rescueActive

OneDriver == Motion!Spec
=============================================================================
