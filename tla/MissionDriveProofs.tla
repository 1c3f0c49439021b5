--------------------------- MODULE MissionDriveProofs ---------------------------
(***************************************************************************)
(* Theorems about MissionDrive: the bookkeeping of rescue goals, for every *)
(* path, every number of goals, all time limits, and every order in which  *)
(* responses, results, requests and iterations come.                       *)
(***************************************************************************)
EXTENDS MissionDrive, LocalPlannerProofs

\* Every outcome of the planner is a sound step of it.
LEMMA OutcomeSound ==
  ASSUME NEW p \in Planners, NEW o \in PlannerOutcomes(p)
  PROVE  Sound(p, o.planner, o.says)
<1>1. PICK m \in PlannerMoves : m[1] = p /\ o = m[2]
  BY DEF PlannerOutcomes
<1>2. PICK q \in Planners, s \in Scans, c \in Circumstances :
        m = <<q, UpdateOutcome(q, s, c)>>
  BY DEF PlannerMoves
<1>3. q = p /\ o = UpdateOutcome(p, s, c)
  BY <1>1, <1>2
<1> QED
  BY <1>3, UpdateOutcomeSound

\* The planner that an iteration starts from is a planner.
LEMMA PlannerNowType ==
  ASSUME planner \in Planners
  PROVE  PlannerNow \in Planners
BY ResetType DEF PlannerNow

\* A stuck timer stays one.
LEMMA TimerType ==
  ASSUME NEW t \in Timers, NEW d, NEW l
  PROVE  TimerAfter(t, d, l) \in Timers /\ NoTimer \in Timers /\ Older(t) \in Timers
<1>1. NoTimer \in Timers
  BY DriveAssumption DEF NoTimer, Timers
<1>2. TimerAfter(t, d, l) \in Timers
  BY <1>1 DEF TimerAfter, Timers
<1>3. Older(t) \in Timers
  <2>1. t.age \in 0..StuckLimit /\ t.on \in BOOLEAN
    BY DEF Timers
  <2>2. t.age < StuckLimit => t.age + 1 \in 0..StuckLimit
    BY <2>1, DriveAssumption
  <2> QED
    BY <2>2 DEF Older, Timers
<1> QED
  BY <1>1, <1>2, <1>3

\* What the mission knows and has told: the invariant of the rescue goals.  A
\* handle was stored by a response that has run, so a rejected goal never has
\* one (KnownHandle); goals are numbered in the order in which they are sent, so
\* a new goal never has the number of one held before (SentGoals).  Neither
\* RescueConsistent nor HeldGoalsReleased is inductive without them.
KnownHandle == handle # NoGoal => handle \in answered

SentGoals == held \subseteq 1..goalSeq

GoalInv == RescueConsistent /\ HeldGoalsReleased /\ KnownHandle /\ SentGoals

\* While a rescue is active the stuck timers are off.
TimersOff == rescueActive => stopTimer = NoTimer /\ escapeTimer = NoTimer

IInv == TypeOK /\ GoalInv /\ TimersOff /\ InterruptLeavesNothingRunning

\* Some facts on numbers of goals.
LEMMA GoalFacts == NoGoal \notin Goals
BY DriveAssumption DEF NoGoal, Goals

\* cancel_mppi_rescue keeps the bookkeeping, and leaves no rescue, as long as
\* what it does not touch stays.
LEMMA CancelKeepsGoals ==
  ASSUME TypeOK, GoalInv, CancelRescue, UNCHANGED <<goalSeq, held, answered, server>>
  PROVE  GoalInv' /\ ~rescueActive' /\ \A i \in held' : i \in cancelSent' \/ server'[i] = "ended"
BY GoalFacts DEF TypeOK, GoalInv, CancelRescue, RescueConsistent, HeldGoalsReleased,
                 KnownHandle, SentGoals

\* It keeps the types, too.
LEMMA CancelKeepsTypes ==
  ASSUME TypeOK, CancelRescue
  PROVE  /\ rescueActive' = FALSE
         /\ rescueAge' \in 0..(RescueTimeout + 1)
         /\ activeId' \in Goals \cup {NoGoal}
         /\ handle' \in Goals \cup {NoGoal}
         /\ cancelSent' \subseteq Goals
BY DriveAssumption DEF TypeOK, CancelRescue

\* Taking the drive back, or having it, keeps both and leaves no rescue.
LEMMA DirectControlKeeps ==
  ASSUME TypeOK, GoalInv, NEW view, DirectControl(view),
         UNCHANGED <<goalSeq, held, answered, server>>
  PROVE  /\ GoalInv'
         /\ rescueActive' = FALSE
         /\ rescueAge' \in 0..(RescueTimeout + 1)
         /\ activeId' \in Goals \cup {NoGoal}
         /\ handle' \in Goals \cup {NoGoal}
         /\ cancelSent' \subseteq Goals
<1>1. CASE CancelRescue
  BY <1>1, CancelKeepsGoals, CancelKeepsTypes
<1>2. CASE /\ ~rescueActive
           /\ UNCHANGED <<rescueActive, rescueAge, activeId, handle, cancelSent>>
  BY <1>2 DEF TypeOK, GoalInv, RescueConsistent, HeldGoalsReleased, KnownHandle, SentGoals
<1> QED
  BY <1>1, <1>2 DEF DirectControl
-----------------------------------------------------------------------------
\* The initial state satisfies the inductive invariant.
LEMMA InitIInv == Init => IInv
<1> SUFFICES ASSUME Init PROVE IInv
  OBVIOUS
<1>1. TypeOK
  <2>1. server \in [Goals -> GoalStates]
    BY DEF Init, GoalStates
  <2>2. NoTimer \in Timers
    BY DriveAssumption DEF NoTimer, Timers
  <2>3. target \in 1..Nodes /\ rescueAge \in 0..(RescueTimeout + 1) /\ goalSeq \in 0..MaxGoals
    BY DriveAssumption DEF Init
  <2> QED
    BY <2>1, <2>2, <2>3, ResetType DEF Init, TypeOK
<1>2. GoalInv
  BY DEF Init, GoalInv, RescueConsistent, HeldGoalsReleased, KnownHandle, SentGoals, NoGoal
<1> QED
  BY <1>1, <1>2 DEF Init, IInv, TimersOff, InterruptLeavesNothingRunning

\* An iteration without rescue after it, that keeps the types of what it changes
\* in the loop, preserves the invariant.
LEMMA DirectStep ==
  ASSUME IInv, NEW view, DirectControl(view), Iterating,
         UNCHANGED <<topicVars, goalSeq, held, answered, resulted, server>>,
         pc' \in {"drive", "await"},
         target' \in 1..Nodes,
         planner' \in Planners,
         stopTimer' \in Timers,
         escapeTimer' \in Timers,
         cmd' \in {"zero", "drive", "detour", "turn"}
  PROVE  IInv'
<1>1. /\ GoalInv'
      /\ rescueActive' = FALSE
      /\ rescueAge' \in 0..(RescueTimeout + 1)
      /\ activeId' \in Goals \cup {NoGoal}
      /\ handle' \in Goals \cup {NoGoal}
      /\ cancelSent' \subseteq Goals
  BY DirectControlKeeps DEF IInv
<1>2. TypeOK'
  BY <1>1 DEF IInv, TypeOK, topicVars
<1>3. TimersOff'
  BY <1>1 DEF TimersOff
<1>4. InterruptLeavesNothingRunning'
  BY DEF InterruptLeavesNothingRunning
<1> QED
  BY <1>1, <1>2, <1>3, <1>4 DEF IInv

\* What an iteration makes of the planner and the timers is of their types.
LEMMA ConsultTypes ==
  ASSUME TypeOK, NEW o \in PlannerOutcomes(PlannerNow)
  PROVE  /\ o.planner \in Planners
         /\ o.says \in Decisions
         /\ TimerAfter(stopTimer, o.says, "stop_and_plan") \in Timers
         /\ TimerAfter(escapeTimer, o.says, "side_escape") \in Timers
<1>1. Sound(PlannerNow, o.planner, o.says)
  BY PlannerNowType, OutcomeSound DEF TypeOK
<1> QED
  BY <1>1, TimerType DEF Sound, TypeOK

\* Every iteration of the loop that has the drive preserves the invariant.
LEMMA DirectIInv ==
  ASSUME IInv, NEW view \in Views, DirectIteration(view)
  PROVE  IInv'
<1> USE DEF Iterating
<1>0. TypeOK /\ target \in 1..Nodes /\ planner \in Planners
      /\ stopTimer \in Timers /\ escapeTimer \in Timers
      /\ cmd \in {"zero", "drive", "detour", "turn"}
  BY DEF IInv, TypeOK
<1>1. CASE SkipBlockedNode(view)
  <2>1. target' \in 1..Nodes
    BY <1>1, DriveAssumption DEF SkipBlockedNode
  <2> QED
    BY <1>0, <1>1, <2>1, DirectStep, ResetType DEF SkipBlockedNode
<1>2. CASE AwaitBlockedSlot(view)
  BY <1>0, <1>2, DirectStep, PlannerNowType DEF AwaitBlockedSlot
<1>3. CASE DriveStraight(view)
  <2>1. planner' \in Planners
    BY <1>0, <1>3, ConsultTypes DEF DriveStraight
  <2> QED
    BY <1>0, <1>3, <2>1, DirectStep DEF DriveStraight
<1>4. CASE HoldInCorridor(view)
  <2>1. stopTimer' \in Timers /\ escapeTimer' \in Timers
    BY <1>0, <1>4, ConsultTypes DEF HoldInCorridor, Consult
  <2> QED
    BY <1>0, <1>4, <2>1, DirectStep, ResetType DEF HoldInCorridor
<1>5. CASE FollowLocalPlan(view)
  <2>1. /\ stopTimer' \in Timers
        /\ escapeTimer' \in Timers
        /\ planner' \in Planners
        /\ cmd' \in {"zero", "detour"}
    BY <1>0, <1>5, ConsultTypes DEF FollowLocalPlan, Consult
  <2> QED
    BY <1>0, <1>5, <2>1, DirectStep DEF FollowLocalPlan
<1> QED
  BY <1>1, <1>2, <1>3, <1>4, <1>5 DEF DirectIteration

\* The target is reached while the rescue drives.
LEMMA ReachWithRescueIInv == ASSUME IInv, ReachWithRescue PROVE IInv'
<1>1. GoalInv' /\ ~rescueActive'
  BY CancelKeepsGoals DEF ReachWithRescue, IInv
<1>2. TypeOK'
  <2>1. target' \in 1..Nodes
    BY DriveAssumption DEF ReachWithRescue, IInv, TypeOK, Final
  <2>2. /\ rescueActive' = FALSE
        /\ rescueAge' \in 0..(RescueTimeout + 1)
        /\ activeId' \in Goals \cup {NoGoal}
        /\ handle' \in Goals \cup {NoGoal}
        /\ cancelSent' \subseteq Goals
    BY CancelKeepsTypes DEF ReachWithRescue, IInv
  <2> QED
    BY <2>1, <2>2, ResetType DEF ReachWithRescue, IInv, TypeOK, topicVars, Iterating
<1>3. TimersOff'
  BY <1>1 DEF TimersOff
<1>4. InterruptLeavesNothingRunning'
  BY DEF ReachWithRescue, Iterating, InterruptLeavesNothingRunning
<1> QED
  BY <1>1, <1>2, <1>3, <1>4 DEF IInv

\* What leaves the rescue and Nav2 alone keeps their invariant.
LEMMA GoalsAlone ==
  ASSUME GoalInv, TimersOff, UNCHANGED <<rescueVars, actionVars>>,
         rescueActive => UNCHANGED <<stopTimer, escapeTimer>>
  PROVE  GoalInv' /\ TimersOff'
BY DEF GoalInv, RescueConsistent, HeldGoalsReleased, KnownHandle, SentGoals, TimersOff,
       rescueVars, actionVars

\* The same without a rescue.
LEMMA ReachTargetIInv == ASSUME IInv, ReachTarget PROVE IInv'
<1>1. GoalInv' /\ TimersOff'
  BY GoalsAlone DEF ReachTarget, IInv
<1>2. TypeOK'
  <2>1. target' \in 1..Nodes
    BY DriveAssumption DEF ReachTarget, IInv, TypeOK, Final
  <2> QED
    BY <2>1, ResetType DEF ReachTarget, IInv, TypeOK, topicVars, rescueVars, actionVars, Iterating
<1>3. InterruptLeavesNothingRunning'
  BY DEF ReachTarget, Iterating, InterruptLeavesNothingRunning
<1> QED
  BY <1>1, <1>2, <1>3 DEF IInv

\* A new goal, with a number that no goal held before has.
LEMMA StartRescueIInv == ASSUME IInv, StartRescue PROVE IInv'
<1> DEFINE g == goalSeq + 1
<1>0. /\ TypeOK /\ GoalInv
      /\ activeId = NoGoal /\ handle = NoGoal /\ handle' = NoGoal
      /\ goalSeq' = g /\ activeId' = g /\ rescueActive' = TRUE
      /\ held' = held /\ answered' = answered /\ cancelSent' = cancelSent
      /\ held \subseteq 1..goalSeq
      /\ server' = [server EXCEPT ![g] = "requested"]
  BY DEF IInv, StartRescue, GoalInv, RescueConsistent, SentGoals
<1>1. g \in Goals /\ g # NoGoal /\ g \notin 1..goalSeq /\ 1..goalSeq \subseteq 1..g
      /\ goalSeq' \in 0..MaxGoals
  BY <1>0, DriveAssumption DEF StartRescue, TypeOK, Goals, NoGoal
<1> HIDE DEF g
<1>2. GoalInv'
  <2>1. RescueConsistent'
    BY <1>0, <1>1 DEF RescueConsistent
  <2>2. HeldGoalsReleased'
    <3> SUFFICES ASSUME NEW i \in held PROVE i \in cancelSent \/ server'[i] = "ended"
      BY <1>0 DEF HeldGoalsReleased
    <3>1. i \in Goals /\ i # g /\ i # NoGoal
      BY <1>0, <1>1, GoalFacts DEF TypeOK
    <3>2. i \in cancelSent \/ server[i] = "ended"
      BY <1>0, <3>1 DEF GoalInv, HeldGoalsReleased
    <3> QED
      BY <1>0, <3>1, <3>2 DEF TypeOK
  <2>3. KnownHandle' /\ SentGoals'
    BY <1>0, <1>1 DEF KnownHandle, SentGoals
  <2> QED
    BY <2>1, <2>2, <2>3 DEF GoalInv
<1>3. TypeOK'
  <2>1. planner' \in Planners
    BY <1>0, ConsultTypes DEF StartRescue
  <2>2. stopTimer' \in Timers /\ escapeTimer' \in Timers
    BY DriveAssumption DEF StartRescue, ClearStuckTimers, NoTimer, Timers
  <2>3. server' \in [Goals -> GoalStates]
    BY <1>0 DEF TypeOK, GoalStates
  <2>4. rescueAge' \in 0..(RescueTimeout + 1)
    BY DriveAssumption DEF StartRescue
  <2> QED
    BY <1>0, <1>1, <2>1, <2>2, <2>3, <2>4 DEF StartRescue, TypeOK, topicVars
<1>4. TimersOff'
  BY DEF StartRescue, ClearStuckTimers, TimersOff
<1>5. InterruptLeavesNothingRunning'
  BY DEF StartRescue, Iterating, InterruptLeavesNothingRunning
<1> QED
  BY <1>2, <1>3, <1>4, <1>5 DEF IInv

\* The interrupt.
LEMMA StopForChargerIInv == ASSUME IInv, StopForCharger PROVE IInv'
<1>1. GoalInv' /\ ~rescueActive' /\ \A i \in held' : i \in cancelSent' \/ server'[i] = "ended"
  BY CancelKeepsGoals DEF StopForCharger, IInv
<1>2. TypeOK'
  <2>1. /\ rescueActive' = FALSE
        /\ rescueAge' \in 0..(RescueTimeout + 1)
        /\ activeId' \in Goals \cup {NoGoal}
        /\ handle' \in Goals \cup {NoGoal}
        /\ cancelSent' \subseteq Goals
    BY CancelKeepsTypes DEF StopForCharger, IInv
  <2>2. pc' \in {"interrupted", "drive", "reached"}
    BY DEF StopForCharger, InterruptPoints
  <2> QED
    BY <2>1, <2>2, ResetType DEF StopForCharger, IInv, TypeOK
<1>3. TimersOff'
  BY <1>1 DEF TimersOff
<1>4. InterruptLeavesNothingRunning'
  BY <1>1 DEF StopForCharger, InterruptLeavesNothingRunning
<1> QED
  BY <1>1, <1>2, <1>3, <1>4 DEF IInv

\* The steps of the wait for the leader slot and of the last rotation.
LEMMA LastNodeIInv == ASSUME IInv, SlotClears \/ Turn \/ Turned PROVE IInv'
<1>1. GoalInv' /\ TimersOff'
  BY GoalsAlone DEF SlotClears, Turn, Turned, IInv
<1>2. TypeOK'
  BY ResetType DEF SlotClears, Turn, Turned, IInv, TypeOK, topicVars, rescueVars, actionVars
<1>3. InterruptLeavesNothingRunning'
  BY DEF SlotClears, Turn, Turned, InterruptLeavesNothingRunning
<1> QED
  BY <1>1, <1>2, <1>3 DEF IInv
-----------------------------------------------------------------------------
\* A response of Nav2: of an old goal, a refusal, or an acceptance.
LEMMA GoalResponseIInv == ASSUME IInv, NEW i \in Goals, GoalResponse(i) PROVE IInv'
<1>1. /\ answered' = answered \cup {i} /\ i \notin answered
      /\ UNCHANGED <<loopVars, topicVars, goalSeq, resulted, cancelSent, server>>
  BY DEF GoalResponse
<1>2. /\ TypeOK /\ GoalInv /\ TimersOff /\ InterruptLeavesNothingRunning
      /\ RescueConsistent /\ HeldGoalsReleased /\ KnownHandle /\ SentGoals
  BY DEF IInv, GoalInv
<1>3. i # NoGoal
  BY GoalFacts
<1>4. CASE UNCHANGED <<rescueActive, rescueAge, activeId, handle, held>>
  <2>1. GoalInv'
    BY <1>1, <1>2, <1>4 DEF GoalInv, RescueConsistent, HeldGoalsReleased, KnownHandle, SentGoals
  <2>2. TypeOK' /\ TimersOff'
    BY <1>1, <1>2, <1>4 DEF TypeOK, TimersOff, loopVars, topicVars
  <2>3. InterruptLeavesNothingRunning'
    BY <1>1, <1>2, <1>4 DEF InterruptLeavesNothingRunning, loopVars, topicVars
  <2> QED
    BY <2>1, <2>2, <2>3 DEF IInv
<1>5. CASE /\ IsCurrent(i) /\ server[i] = "rejected" /\ UNCHANGED <<handle, held>>
           /\ rescueActive' = FALSE /\ rescueAge' = 0 /\ activeId' = NoGoal
  <2>1. handle = NoGoal
    BY <1>1, <1>2, <1>5 DEF RescueConsistent, KnownHandle, IsCurrent
  <2>2. GoalInv'
    BY <1>1, <1>2, <1>5, <2>1
       DEF GoalInv, RescueConsistent, HeldGoalsReleased, KnownHandle, SentGoals
  <2>3. TypeOK' /\ TimersOff'
    <3>1. 0 \in 0..(RescueTimeout + 1)
      BY DriveAssumption
    <3> QED
      BY <1>1, <1>2, <1>5, <3>1 DEF TypeOK, TimersOff, loopVars, topicVars
  <2>4. InterruptLeavesNothingRunning'
    BY <1>1, <1>2, <1>5 DEF InterruptLeavesNothingRunning, loopVars, topicVars
  <2> QED
    BY <2>2, <2>3, <2>4 DEF IInv
<1>6. CASE /\ IsCurrent(i) /\ handle' = i /\ held' = held \cup {i}
           /\ UNCHANGED <<rescueActive, rescueAge, activeId>>
  <2>1. rescueActive /\ activeId = i /\ i = goalSeq
    BY <1>2, <1>3, <1>6 DEF RescueConsistent, IsCurrent
  <2>2. HeldGoalsReleased'
    <3> SUFFICES ASSUME NEW j \in held, j # i
                 PROVE  j \in cancelSent \/ server[j] = "ended"
      BY <1>1, <1>6 DEF HeldGoalsReleased
    <3>1. j # handle
      BY <1>2, <2>1, GoalFacts DEF RescueConsistent, TypeOK
    <3> QED
      BY <1>2, <3>1 DEF HeldGoalsReleased
  <2>3. SentGoals'
    <3>1. i \in 1..goalSeq
      BY <2>1, DriveAssumption DEF Goals
    <3> QED
      BY <1>1, <1>2, <1>6, <3>1 DEF SentGoals
  <2>4. RescueConsistent' /\ KnownHandle'
    BY <1>1, <1>2, <1>6, <2>1 DEF RescueConsistent, KnownHandle
  <2>5. TypeOK' /\ TimersOff'
    BY <1>1, <1>2, <1>6 DEF TypeOK, TimersOff, loopVars, topicVars
  <2>6. InterruptLeavesNothingRunning'
    BY <1>1, <1>2, <2>1 DEF InterruptLeavesNothingRunning, loopVars
  <2> QED
    BY <2>2, <2>3, <2>4, <2>5, <2>6 DEF IInv, GoalInv
<1> QED
  BY <1>4, <1>5, <1>6 DEF GoalResponse

\* A result of Nav2: of an old goal, or of the present one.
LEMMA GoalResultIInv == ASSUME IInv, NEW i \in Goals, GoalResult(i) PROVE IInv'
<1>1. /\ server[i] = "ended" /\ resulted' = resulted \cup {i}
      /\ UNCHANGED <<loopVars, topicVars, goalSeq, held, answered, cancelSent, server>>
  BY DEF GoalResult
<1>2. /\ TypeOK /\ GoalInv /\ TimersOff /\ InterruptLeavesNothingRunning
  BY DEF IInv
<1>3. CASE ~IsCurrent(i)
  <2>1. UNCHANGED <<rescueActive, rescueAge, activeId, handle>>
    BY <1>3 DEF GoalResult
  <2>2. GoalInv'
    BY <1>1, <1>2, <2>1 DEF GoalInv, RescueConsistent, HeldGoalsReleased, KnownHandle, SentGoals
  <2>3. TypeOK' /\ TimersOff'
    BY <1>1, <1>2, <2>1 DEF TypeOK, TimersOff, loopVars, topicVars
  <2>4. InterruptLeavesNothingRunning'
    BY <1>1, <1>2, <2>1 DEF InterruptLeavesNothingRunning, loopVars, topicVars
  <2> QED
    BY <2>2, <2>3, <2>4 DEF IInv
<1>4. CASE IsCurrent(i)
  <2>1. rescueActive' = FALSE /\ rescueAge' = 0 /\ activeId' = NoGoal /\ handle' = NoGoal
    BY <1>4 DEF GoalResult
  <2>2. HeldGoalsReleased'
    <3> SUFFICES ASSUME NEW j \in held PROVE j \in cancelSent \/ server[j] = "ended"
      BY <1>1 DEF HeldGoalsReleased
    <3>1. j = handle => j = i
      BY <1>2, <1>4, GoalFacts DEF TypeOK, GoalInv, RescueConsistent, IsCurrent
    <3> QED
      BY <1>1, <1>2, <3>1 DEF GoalInv, HeldGoalsReleased
  <2>3. RescueConsistent' /\ KnownHandle' /\ SentGoals'
    BY <1>1, <1>2, <2>1 DEF GoalInv, RescueConsistent, KnownHandle, SentGoals
  <2>4. TypeOK' /\ TimersOff'
    <3>1. 0 \in 0..(RescueTimeout + 1)
      BY DriveAssumption
    <3> QED
      BY <1>1, <1>2, <2>1, <3>1 DEF TypeOK, TimersOff, loopVars, topicVars
  <2>5. InterruptLeavesNothingRunning'
    BY <1>1, <1>2, <2>1 DEF InterruptLeavesNothingRunning, loopVars, topicVars
  <2> QED
    BY <2>2, <2>3, <2>4, <2>5 DEF IInv, GoalInv
<1> QED
  BY <1>3, <1>4

\* The requests that come by topic.
LEMMA TopicIInv == ASSUME IInv, ChargerRequest \/ RcCarAtStop PROVE IInv'
<1>1. GoalInv' /\ TimersOff'
  BY GoalsAlone DEF ChargerRequest, RcCarAtStop, loopVars, IInv
<1>2. TypeOK'
  BY DEF ChargerRequest, RcCarAtStop, IInv, TypeOK, loopVars, rescueVars, actionVars
<1>3. InterruptLeavesNothingRunning'
  BY DEF ChargerRequest, RcCarAtStop, IInv, InterruptLeavesNothingRunning, loopVars,
         rescueVars, actionVars
<1> QED
  BY <1>1, <1>2, <1>3 DEF IInv

\* The controller server never takes back that a goal is over.
LEMMA Nav2IInv ==
  ASSUME IInv, NEW i \in Goals, Accept(i) \/ Reject(i) \/ Finish(i)
  PROVE  IInv'
<1>1. /\ UNCHANGED <<loopVars, topicVars, rescueVars, held, answered, resulted, cancelSent>>
      /\ server' \in [Goals -> GoalStates]
      /\ \A j \in Goals : server[j] = "ended" => server'[j] = "ended"
  BY DEF Accept, Reject, Finish, IInv, TypeOK, GoalStates
<1>2. GoalInv'
  BY <1>1 DEF IInv, TypeOK, GoalInv, RescueConsistent, HeldGoalsReleased, KnownHandle,
              SentGoals, rescueVars
<1>3. TypeOK' /\ TimersOff'
  BY <1>1 DEF IInv, TypeOK, TimersOff, loopVars, topicVars, rescueVars
<1>4. InterruptLeavesNothingRunning'
  BY <1>1 DEF IInv, TypeOK, InterruptLeavesNothingRunning, loopVars, topicVars, rescueVars
<1> QED
  BY <1>2, <1>3, <1>4 DEF IInv

\* Time goes by.
LEMMA ClockIInv == ASSUME IInv, Clock PROVE IInv'
<1>1. planner' \in Planners
  <2>1. planner \in Planners /\ planner.age \in 0..PlanWait
    BY DEF IInv, TypeOK, Planners
  <2>2. planner.age < PlanWait => planner.age + 1 \in 0..PlanWait
    BY <2>1, PlanWaitAssumption
  <2> QED
    BY <2>1, <2>2 DEF Clock, Planners
<1>2. stopTimer' \in Timers /\ escapeTimer' \in Timers
  BY TimerType DEF Clock, IInv, TypeOK
<1>3. rescueAge' \in 0..(RescueTimeout + 1)
  BY DriveAssumption DEF Clock, IInv, TypeOK
<1>4. TypeOK'
  BY <1>1, <1>2, <1>3 DEF Clock, IInv, TypeOK, topicVars, actionVars
<1>5. GoalInv'
  BY DEF Clock, IInv, GoalInv, RescueConsistent, HeldGoalsReleased, KnownHandle, SentGoals,
         actionVars
<1>6. TimersOff'
  BY DEF Clock, IInv, TimersOff, Older, NoTimer
<1>7. InterruptLeavesNothingRunning'
  BY DEF Clock, IInv, InterruptLeavesNothingRunning, topicVars, actionVars
<1> QED
  BY <1>4, <1>5, <1>6, <1>7 DEF IInv
-----------------------------------------------------------------------------
\* Every step preserves the inductive invariant.
LEMMA NextIInv == IInv /\ [Next]_vars => IInv'
<1> SUFFICES ASSUME IInv, [Next]_vars PROVE IInv'
  OBVIOUS
<1>1. CASE Iterate
  BY <1>1, DirectIInv, ReachWithRescueIInv, ReachTargetIInv, StartRescueIInv,
     StopForChargerIInv DEF Iterate
<1>2. CASE SlotClears \/ Turn \/ Turned
  BY <1>2, LastNodeIInv
<1>3. CASE Callback
  BY <1>3, GoalResponseIInv, GoalResultIInv, TopicIInv DEF Callback
<1>4. CASE Nav2
  BY <1>4, Nav2IInv DEF Nav2
<1>5. CASE Clock
  BY <1>5, ClockIInv
<1>6. CASE UNCHANGED vars
  <2>1. UNCHANGED <<pc, target, planner, stopTimer, escapeTimer, cmd, charger, rcMode,
                    rcStopSent, rescueActive, rescueAge, goalSeq, activeId, handle,
                    held, answered, resulted, cancelSent, server>>
    BY <1>6 DEF vars, loopVars, topicVars, rescueVars, actionVars
  <2> QED
    BY <2>1 DEF IInv, TypeOK, GoalInv, RescueConsistent, HeldGoalsReleased, KnownHandle,
                SentGoals, TimersOff, InterruptLeavesNothingRunning
<1> QED
  BY <1>1, <1>2, <1>3, <1>4, <1>5, <1>6 DEF Next

\* The inductive invariant holds in every reachable state.
LEMMA Invariance == Spec => []IInv
BY InitIInv, NextIInv, PTL DEF Spec

\* Every variable keeps its type.
THEOREM TypeCorrect == Spec => []TypeOK
BY Invariance, PTL DEF IInv

\* The fields of the rescue (mppi_rescue_active_, mppi_active_goal_id_,
\* mppi_goal_handle_) agree in every reachable state.
THEOREM RescueAgrees == Spec => []RescueConsistent
BY Invariance, PTL DEF IInv, GoalInv

\* No goal whose handle the mission ever held is dropped while Nav2 executes it.
THEOREM GoalsReleased == Spec => []HeldGoalsReleased
BY Invariance, PTL DEF IInv, GoalInv

\* After a charger interrupt no motion that the mission could stop goes on.
THEOREM InterruptStops == Spec => []InterruptLeavesNothingRunning
BY Invariance, PTL DEF IInv

\* The iteration that takes the drive back from a rescue never starts another.
THEOREM NoRelay == Spec => []HandoffNeverRelays
<1>1. IInv => HandoffNeverRelays
  <2> SUFFICES ASSUME IInv, rescueActive, NEW o \in PlannerOutcomes(Reset)
               PROVE  ~WantsRescue(o)
    BY DEF HandoffNeverRelays
  <2>1. o.says # "blocked"
    BY ResetType, OutcomeSound DEF Sound, Reset
  <2>2. stopTimer = NoTimer /\ escapeTimer = NoTimer
    BY DEF IInv, TimersOff
  <2>3. ASSUME NEW l PROVE ~TimedOut(TimerAfter(NoTimer, o.says, l))
    BY DriveAssumption DEF TimedOut, TimerAfter, NoTimer
  <2> QED
    BY <2>1, <2>2, <2>3 DEF WantsRescue
<1> QED
  BY <1>1, Invariance, PTL

\* No late response or result of an earlier goal ends the present rescue.
THEOREM LateMessages == Spec => LateMessagesHarmless
<1> DEFINE Harmless ==
      /\ activeId # NoGoal
      /\ activeId' # activeId
      /\ answered' # answered \/ resulted' # resulted
      => activeId \in (answered' \ answered) \cup (resulted' \ resulted)
<1>1. IInv /\ [Next]_vars => [Harmless]_vars
  <2> SUFFICES ASSUME IInv, Next, answered' # answered \/ resulted' # resulted,
                      activeId' # activeId
               PROVE  activeId \in (answered' \ answered) \cup (resulted' \ resulted)
    OBVIOUS
  <2>1. PICK i \in Goals : GoalResponse(i) \/ GoalResult(i)
    <3>1. ~Iterate
      BY DEF Iterate, DirectIteration, SkipBlockedNode, AwaitBlockedSlot, DriveStraight,
             HoldInCorridor, FollowLocalPlan, ReachWithRescue, ReachTarget, StartRescue,
             StopForCharger, actionVars
    <3>2. ~SlotClears /\ ~Turn /\ ~Turned /\ ~Clock
      BY DEF SlotClears, Turn, Turned, Clock, actionVars
    <3>3. ~ChargerRequest /\ ~RcCarAtStop /\ ~Nav2
      BY DEF ChargerRequest, RcCarAtStop, Nav2, Accept, Reject, Finish, actionVars
    <3> QED
      BY <3>1, <3>2, <3>3 DEF Next, Callback
  <2>2. CASE GoalResponse(i)
    BY <2>2 DEF GoalResponse, IsCurrent
  <2>3. CASE GoalResult(i)
    BY <2>3 DEF GoalResult, IsCurrent
  <2> QED
    BY <2>1, <2>2, <2>3
<1> QED
  BY <1>1, Invariance, PTL DEF Spec, LateMessagesHarmless

\* One call of update() plans nothing and waits for nothing after a reset.
LEMMA FreshOutcome ==
  ASSUME NEW o \in PlannerOutcomes(Reset)
  PROVE  ~o.planner.path /\ o.planner.age = 0
<1>1. PICK s \in Scans, c \in Circumstances : o = UpdateOutcome(Reset, s, c)
  <2>1. PICK m \in PlannerMoves : m[1] = Reset /\ o = m[2]
    BY DEF PlannerOutcomes
  <2>2. PICK q \in Planners, s \in Scans, c \in Circumstances :
          m = <<q, UpdateOutcome(q, s, c)>>
    BY DEF PlannerMoves
  <2> QED
    BY <2>1, <2>2
<1>2. /\ Reset.state = "normal" /\ Reset.age = 0 /\ ~Reset.path
      /\ Reset.escape = "none" /\ Reset \in Planners
  BY ResetType DEF Reset
<1> DEFINE waiting == Enter(Reset, "stop_and_plan")
<1>3. ~waiting.path /\ waiting.age = 0 /\ ~Waited(waiting) /\ waiting.state = "stop_and_plan"
  BY <1>2, PlanWaitAssumption DEF Enter, Waited, Planners
<1> HIDE DEF waiting
<1>4. CASE ~s.fresh
  BY <1>1, <1>2, <1>4 DEF UpdateOutcome, Outcome
<1>5. CASE s.fresh /\ s.front
  BY <1>1, <1>3, <1>5 DEF UpdateOutcome, Outcome, waiting
<1>6. CASE s.fresh /\ ~s.front /\ MustEscape(Reset, s)
  <2>1. o.planner = [Reset EXCEPT !.escape = IF @ = "none" THEN AwaySide(s, c) ELSE @]
    BY <1>1, <1>6 DEF UpdateOutcome, Outcome
  <2> QED
    BY <2>1 DEF Reset
<1>7. CASE s.fresh /\ ~s.front /\ ~MustEscape(Reset, s)
  <2>1. [Reset EXCEPT !.escape = "none"] = Reset
    BY DEF Reset
  <2>2. o = StateOutcome(IF s.link THEN waiting ELSE Reset, s, c)
    BY <1>1, <1>2, <1>7, <2>1 DEF UpdateOutcome, waiting
  <2>3. CASE s.link
    BY <1>3, <2>2, <2>3 DEF StateOutcome, Outcome
  <2>4. CASE ~s.link
    BY <1>2, <2>2, <2>4 DEF StateOutcome, Outcome
  <2> QED
    BY <2>3, <2>4
<1> QED
  BY <1>4, <1>5, <1>6, <1>7

\* A rescue that the mission ends leaves neither path nor wait in the planner.
THEOREM FreshStart == Spec => HandoffStartsAfresh
<1> DEFINE Fresh == rescueActive /\ ~rescueActive' /\ UNCHANGED <<answered, resulted>>
                      => ~planner'.path /\ planner'.age = 0
<1>1. Next => Fresh
  <2> SUFFICES ASSUME Next, rescueActive, ~rescueActive', UNCHANGED <<answered, resulted>>
               PROVE  ~planner'.path /\ planner'.age = 0
    OBVIOUS
  <2>0. ~Reset.path /\ Reset.age = 0 /\ PlannerNow = Reset
    BY DEF Reset, PlannerNow
  <2>1. CASE \E view \in Views : DirectIteration(view)
    <3>1. PICK view \in Views : DirectIteration(view)
      BY <2>1
    <3>2. CASE DriveStraight(view) \/ FollowLocalPlan(view)
      BY <2>0, <3>2, FreshOutcome DEF DriveStraight, FollowLocalPlan, Consult
    <3> QED
      BY <2>0, <3>1, <3>2 DEF DirectIteration, SkipBlockedNode, AwaitBlockedSlot,
                              HoldInCorridor
  <2>2. CASE ReachWithRescue \/ ReachTarget \/ StartRescue \/ StopForCharger
    BY <2>0, <2>2 DEF ReachWithRescue, ReachTarget, StartRescue, StopForCharger, rescueVars
  <2>3. ~SlotClears /\ ~Turn /\ ~Turned /\ ~Clock
    BY DEF SlotClears, Turn, Turned, Clock, rescueVars
  <2>4. ~Nav2 /\ ~ChargerRequest /\ ~RcCarAtStop
    BY DEF Nav2, Accept, Reject, Finish, ChargerRequest, RcCarAtStop, rescueVars
  <2>5. ASSUME NEW i \in Goals PROVE ~GoalResponse(i) /\ ~GoalResult(i)
    BY DEF GoalResponse, GoalResult
  <2> QED
    BY <2>1, <2>2, <2>3, <2>4, <2>5 DEF Next, Iterate, Callback
<1> QED
  BY <1>1, PTL DEF Spec, HandoffStartsAfresh
-----------------------------------------------------------------------------
\* The goals that may drive with the mission's consent, as OneDriver counts them.
Granted == {i \in held : i \notin cancelSent /\ server[i] # "ended"}

\* At most the goal of the handle drives, and none without a rescue.
HandleDrives ==
  /\ Granted \subseteq {handle} \cap Goals
  /\ ~rescueActive => Granted = {}

LEMMA GrantedIsHandle == IInv => HandleDrives
<1> SUFFICES ASSUME IInv PROVE HandleDrives
  OBVIOUS
<1>1. Granted \subseteq {handle} \cap Goals
  BY DEF IInv, TypeOK, GoalInv, HeldGoalsReleased, Granted
<1>2. ~rescueActive => handle = NoGoal
  BY DEF IInv, GoalInv, RescueConsistent
<1> QED
  BY <1>1, <1>2, GoalFacts DEF HandleDrives

\* A rescue that goes on keeps its goal, and one that starts has no handle yet.
LEMMA RescueKeepsGoal ==
  ASSUME IInv, Next, rescueActive'
  PROVE  (rescueActive /\ activeId' = activeId) \/ handle' = NoGoal
<1>1. CASE Iterate
  BY <1>1 DEF Iterate, DirectIteration, SkipBlockedNode, AwaitBlockedSlot, DriveStraight,
              HoldInCorridor, FollowLocalPlan, DirectControl, CancelRescue, ReachWithRescue,
              ReachTarget, StartRescue, StopForCharger, rescueVars, IInv, GoalInv,
              RescueConsistent
<1>2. CASE SlotClears \/ Turn \/ Turned \/ Clock
  BY <1>2 DEF SlotClears, Turn, Turned, Clock, rescueVars
<1>3. CASE Callback
  BY <1>3 DEF Callback, GoalResponse, GoalResult, ChargerRequest, RcCarAtStop, rescueVars
<1>4. CASE Nav2
  BY <1>4 DEF Nav2, Accept, Reject, Finish, rescueVars
<1> QED
  BY <1>1, <1>2, <1>3, <1>4 DEF Next

\* Every step moves the drive as MotionAuthority has it move, or not at all.
LEMMA MotionStep ==
  ASSUME IInv, IInv', HandleDrives, HandleDrives', [Next]_vars
  PROVE  [Motion!Next]_(Motion!vars)
<1>1. /\ Granted \subseteq {handle} \cap Goals /\ (~rescueActive => Granted = {})
      /\ Granted' \subseteq {handle'} \cap Goals /\ (~rescueActive' => Granted' = {})
  BY DEF HandleDrives
<1>2. rescueActive \in BOOLEAN /\ rescueActive' \in BOOLEAN
  BY DEF IInv, TypeOK
<1>3. CASE UNCHANGED vars
  BY <1>3 DEF vars, rescueVars, actionVars, Motion!vars
<1>4. CASE ~rescueActive' /\ rescueActive
  BY <1>1, <1>4 DEF Motion!Next, Motion!TakeBack, Granted
<1>5. CASE ~rescueActive' /\ ~rescueActive
  BY <1>1, <1>5 DEF Motion!Next, Motion!Withdraw, Granted
<1>6. CASE rescueActive' /\ Next
  <2>1. (rescueActive /\ activeId' = activeId) \/ handle' = NoGoal
    BY <1>6, RescueKeepsGoal
  <2>2. CASE handle' = NoGoal
    <3>1. Granted' = {}
      BY <1>1, <2>2, GoalFacts
    <3>2. CASE rescueActive
      BY <1>6, <3>1, <3>2 DEF Motion!Next, Motion!Withdraw, Granted
    <3>3. CASE ~rescueActive
      BY <1>1, <1>2, <1>6, <3>1, <3>3 DEF Motion!Next, Motion!StepAside, Granted
    <3> QED
      BY <1>2, <3>2, <3>3
  <2>3. CASE rescueActive /\ activeId' = activeId /\ handle' # NoGoal
    <3>1. handle' = activeId /\ handle \in {NoGoal, activeId}
      BY <2>3 DEF IInv, GoalInv, RescueConsistent
    <3>2. Granted \subseteq {handle'}
      BY <1>1, <3>1, GoalFacts
    <3>3. CASE Granted' = {}
      BY <1>6, <2>3, <3>3 DEF Motion!Next, Motion!Withdraw, Granted
    <3>4. CASE Granted' = {handle'} /\ Granted = {}
      BY <1>1, <1>6, <2>3, <3>4 DEF Motion!Next, Motion!Grant, Granted
    <3>5. CASE Granted' = {handle'} /\ Granted = {handle'}
      BY <1>6, <2>3, <3>5 DEF Motion!vars, Granted
    <3> QED
      BY <1>1, <3>2, <3>3, <3>4, <3>5
  <2> QED
    BY <2>1, <2>2, <2>3
<1> QED
  BY <1>2, <1>3, <1>4, <1>5, <1>6

\* The rescue implements MotionAuthority: the mission drives only when the goal
\* whose handle it held is cancelled or over, and a goal gets the drive only from
\* nobody.
THEOREM RescueImplementsMotion == Spec => OneDriver
<1>1. Init => Motion!Init
  BY DEF Init, Motion!Init
<1>2. IInv /\ IInv' /\ HandleDrives /\ HandleDrives' /\ [Next]_vars => [Motion!Next]_(Motion!vars)
  BY MotionStep
<1> QED
  BY <1>1, <1>2, GrantedIsHandle, Invariance, PTL DEF Spec, OneDriver, Motion!Spec

\* Nav2 never has two goals that the mission lets drive, and none while the
\* mission drives itself.
THEOREM DriveExclusive == Spec => []Motion!Exclusive
<1>1. HandleDrives /\ TypeOK => Motion!Exclusive
  BY DEF HandleDrives, Motion!Exclusive, Granted
<1>2. IInv => TypeOK
  BY DEF IInv
<1> QED
  BY <1>1, <1>2, GrantedIsHandle, Invariance, PTL
=============================================================================
