------------------------- MODULE ChargerParkingProofs -------------------------
(***************************************************************************)
(* Theorems about ChargerParking: the inflation radius and the goals of    *)
(* Nav2, for every time limit, every number of escapes and of mission      *)
(* processes, whatever fails and wherever a process dies.                  *)
(***************************************************************************)
EXTENDS ChargerParking, TLAPS

\* What the types alone do not say: an escape does not cover more steps than it
\* tries, and the goal that is waited for or watched is one that was sent.
TypeInv ==
  /\ TypeOK
  /\ escaped <= tries
  /\ pc \in {"answer", "watch"} => goal \in Goals

\* Its parts, for steps that touch many variables.
Flags ==
  /\ pc \in Places /\ area \in Areas
  /\ requested \in BOOLEAN /\ active \in BOOLEAN /\ reached \in BOOLEAN
  /\ override \in BOOLEAN /\ applied \in BOOLEAN /\ lost \in BOOLEAN
  /\ restoreValue \in Radii \cup {NoValue} /\ radius \in Radii

Counts ==
  /\ attempts \in 0..MaxEscapes /\ processes \in 1..MaxProcesses
  /\ navAge \in 0..(NavTimeout + 1) /\ stuckAge \in 0..StuckLimit
  /\ holdAge \in {NoReference} \cup 0..HoldLimit
  /\ tries \in 0..EscapeTries /\ escaped \in 0..EscapeTries /\ escaped <= tries

Sent ==
  /\ goal \in Goals \cup {0} /\ held \subseteq Goals /\ released \subseteq Goals
  /\ server \in [Goals -> GoalStates]
  /\ pc \in {"answer", "watch"} => goal \in Goals

\* Who has the drive: a goal that was neither cancelled nor taken the result of
\* is the one that is watched.
Granted == held \ released

GoalInv ==
  /\ Granted # {} => pc = "watch"
  /\ Granted \subseteq {goal}

\* The value that the mission will write back was read from the costmap, and
\* only area B overrides it.
RadiusInv ==
  /\ RadiusAccounted
  /\ pc = "write" => restoreValue = radius
  /\ restoreValue = "lowered" => lost
  /\ applied => area = "B"
  /\ pc \in Overriding => area = "B"
  /\ pc = "down" => ~applied

IInv == TypeInv /\ GoalInv /\ RadiusInv

\* Every counter starts within its bound.
LEMMA Bounds ==
  /\ 0 \in 0..MaxEscapes /\ 0 \in 0..(NavTimeout + 1) /\ 0 \in 0..StuckLimit
  /\ 0 \in 0..HoldLimit /\ 0 \in 0..EscapeTries /\ 1 \in 1..MaxProcesses
BY ChargerAssumption

LEMMA InitIInv == Init => IInv
<1> SUFFICES ASSUME Init PROVE IInv
  OBVIOUS
<1>1. TypeInv
  <2>1. /\ pc \in Places /\ area \in Areas /\ goal \in Goals \cup {0}
        /\ held \subseteq Goals /\ released \subseteq Goals
        /\ restoreValue \in Radii \cup {NoValue} /\ radius \in Radii
    BY DEF Init, Places, Radii
  <2>2. server \in [Goals -> GoalStates]
    BY DEF Init, GoalStates
  <2>3. holdAge \in {NoReference} \cup 0..HoldLimit /\ escaped <= tries
    BY DEF Init
  <2> QED
    BY <2>1, <2>2, <2>3, Bounds DEF Init, TypeInv, TypeOK
<1>2. GoalInv
  BY DEF Init, GoalInv, Granted
<1>3. RadiusInv
  BY DEF Init, RadiusInv, RadiusAccounted, Overriding, NoValue
<1> QED
  BY <1>1, <1>2, <1>3 DEF IInv
-----------------------------------------------------------------------------
\* The end of navigate_to_charger_entry leads to the places it may lead to.
LEMMA ArriveType ==
  ASSUME TypeOK, NEW r \in BOOLEAN, Arrive(r)
  PROVE  /\ pc' \in {"restore", "rotate", "done"}
         /\ active' \in BOOLEAN /\ reached' \in BOOLEAN
BY DEF TypeOK, Arrive

\* The beginning of an escape keeps the types, too.
LEMMA BeginEscapeType ==
  ASSUME TypeInv, BeginEscape
  PROVE  /\ pc' \in {"restore", "rotate", "done", "escape"}
         /\ active' \in BOOLEAN /\ reached' \in BOOLEAN
         /\ attempts' \in 0..MaxEscapes
         /\ tries' \in 0..EscapeTries /\ escaped' \in 0..EscapeTries /\ escaped' <= tries'
<1>1. CASE Arrive(FALSE) /\ UNCHANGED escapeVars
  BY <1>1, ArriveType DEF TypeInv, TypeOK, escapeVars
<1>2. CASE /\ attempts < MaxEscapes /\ attempts' = attempts + 1
           /\ pc' = "escape" /\ tries' = 0 /\ escaped' = 0
           /\ UNCHANGED <<reached, active>>
  <2>1. attempts' \in 0..MaxEscapes
    BY <1>2, ChargerAssumption DEF TypeInv, TypeOK
  <2> QED
    BY <1>2, <2>1, Bounds DEF TypeInv, TypeOK
<1> QED
  BY <1>1, <1>2 DEF BeginEscape

LEMMA RequestType ==
  ASSUME TypeInv,
         \/ HandleMissionCommand \/ BeginCharger \/ ReadRadius \/ WriteRadius
         \/ RestoreRadius
  PROVE  TypeInv'
<1> USE DEF TypeInv, TypeOK, Places, Overriding, Planning, Parking, Radii, vars,
            requestVars, radiusVars, goalVars, ageVars, escapeVars
<1>1. CASE HandleMissionCommand
  BY <1>1 DEF HandleMissionCommand
<1>2. CASE BeginCharger
  BY <1>2, Bounds DEF BeginCharger
<1>3. CASE ReadRadius
  BY <1>3 DEF ReadRadius
<1>4. CASE WriteRadius
  <2>1. Flags'
    BY <1>4 DEF WriteRadius, Flags
  <2>2. Counts'
    BY <1>4 DEF WriteRadius, Counts
  <2>3. Sent'
    BY <1>4 DEF WriteRadius, Sent
  <2> QED
    BY <2>1, <2>2, <2>3 DEF Flags, Counts, Sent
<1>5. CASE RestoreRadius
  <2>1. Flags'
    BY <1>5 DEF RestoreRadius, Flags
  <2>2. Counts'
    BY <1>5 DEF RestoreRadius, Counts
  <2>3. Sent'
    BY <1>5 DEF RestoreRadius, Sent
  <2> QED
    BY <2>1, <2>2, <2>3 DEF Flags, Counts, Sent
<1> QED
  BY <1>1, <1>2, <1>3, <1>4, <1>5

LEMMA GoalRequestType ==
  ASSUME TypeInv,
         \/ \E look \in Looks :
               \/ WaitForServer(look) \/ RequestPlan(look) \/ PlanAnswered(look)
               \/ PlanReady(look) \/ PlanTimeout(look)
         \/ SendGoal \/ GoalAnswered
  PROVE  TypeInv'
<1> USE DEF TypeInv, TypeOK, Places, Overriding, Planning, Parking, requestVars, radiusVars,
            goalVars, ageVars, escapeVars
<1>1. ASSUME NEW look \in Looks, WaitForServer(look) PROVE TypeInv'
  <2>1. Flags'
    BY <1>1, ArriveType DEF WaitForServer, Flags
  <2>2. Counts'
    BY <1>1, ArriveType DEF WaitForServer, Counts
  <2>3. Sent'
    BY <1>1, ArriveType DEF WaitForServer, Sent
  <2> QED
    BY <2>1, <2>2, <2>3 DEF Flags, Counts, Sent
<1>2. ASSUME NEW look \in Looks, RequestPlan(look) \/ PlanReady(look) \/ PlanTimeout(look)
      PROVE  TypeInv'
  <2>1. Flags'
    BY <1>2, ArriveType DEF RequestPlan, PlanReady, PlanTimeout, NoPath, Near, Flags
  <2>2. Counts'
    BY <1>2, ArriveType DEF RequestPlan, PlanReady, PlanTimeout, NoPath, Near, Counts
  <2>3. Sent'
    BY <1>2, ArriveType DEF RequestPlan, PlanReady, PlanTimeout, NoPath, Near, Sent
  <2> QED
    BY <2>1, <2>2, <2>3 DEF Flags, Counts, Sent
<1>3. ASSUME NEW look \in Looks, PlanAnswered(look) PROVE TypeInv'
  <2>1. Flags'
    BY <1>3, ArriveType, Bounds DEF PlanAnswered, NoPath, Near, Flags
  <2>2. Counts'
    BY <1>3, ArriveType, Bounds DEF PlanAnswered, NoPath, Near, Counts
  <2>3. Sent'
    BY <1>3, ArriveType, Bounds DEF PlanAnswered, NoPath, Near, Sent
  <2> QED
    BY <2>1, <2>2, <2>3 DEF Flags, Counts, Sent
<1>4. CASE SendGoal
  BY <1>4 DEF SendGoal, GoalStates
<1>5. CASE GoalAnswered
  <2>1. CASE Arrive(FALSE) /\ UNCHANGED <<held, ageVars>>
    BY <1>5, <2>1, ArriveType DEF GoalAnswered
  <2>2. CASE pc' = "watch"
    BY <1>5, <2>2, Bounds DEF GoalAnswered, Arrive
  <2> QED
    BY <1>5, <2>1, <2>2 DEF GoalAnswered
<1> QED
  BY <1>1, <1>2, <1>3, <1>4, <1>5

LEMMA WatchType ==
  ASSUME TypeInv, NEW look \in Looks, NEW nearLook \in Looks,
         NEW moved \in BOOLEAN, NEW progress \in BOOLEAN,
         \/ HandOff(look, moved) \/ GiveUpStuck(look, moved, progress)
         \/ Watch(look, moved, progress) \/ NavigationTimeout(look, moved, nearLook)
         \/ TakeResult(nearLook)
  PROVE  TypeInv'
<1> USE DEF TypeInv, TypeOK, Places, Overriding, Planning, Parking, requestVars, radiusVars,
            goalVars, ageVars, escapeVars
<1>1. CASE HandOff(look, moved)
  BY <1>1, ArriveType DEF HandOff, Watching, CancelGoal
<1>2. CASE GiveUpStuck(look, moved, progress)
  BY <1>2, BeginEscapeType DEF GiveUpStuck, Watching, CancelGoal
<1>3. CASE Watch(look, moved, progress)
  BY <1>3, Bounds DEF Watch, Watching, TrackHold
<1>4. CASE NavigationTimeout(look, moved, nearLook)
  <2>1. Flags'
    BY <1>4, ArriveType, BeginEscapeType DEF NavigationTimeout, Watching, CancelGoal, Flags
  <2>2. Counts'
    BY <1>4, ArriveType, BeginEscapeType DEF NavigationTimeout, Watching, CancelGoal, Counts
  <2>3. Sent'
    BY <1>4, ArriveType, BeginEscapeType DEF NavigationTimeout, Watching, CancelGoal, Sent
  <2> QED
    BY <2>1, <2>2, <2>3 DEF Flags, Counts, Sent
<1>5. CASE TakeResult(nearLook)
  <2>1. Flags'
    BY <1>5, ArriveType, BeginEscapeType DEF TakeResult, Flags
  <2>2. Counts'
    BY <1>5, ArriveType, BeginEscapeType DEF TakeResult, Counts
  <2>3. Sent'
    BY <1>5, ArriveType, BeginEscapeType DEF TakeResult, Sent
  <2> QED
    BY <2>1, <2>2, <2>3 DEF Flags, Counts, Sent
<1> QED
  BY <1>1, <1>2, <1>3, <1>4, <1>5

LEMMA EscapeType ==
  ASSUME TypeInv, NEW look \in Looks, EscapeStep \/ EndEscape(look)
  PROVE  TypeInv'
<1> USE DEF TypeInv, TypeOK, Places, Overriding, Planning, Parking, requestVars, radiusVars,
            goalVars, ageVars, escapeVars
<1>1. CASE EscapeStep
  <2>1. CASE Arrive(FALSE) /\ UNCHANGED <<tries, escaped>>
    BY <1>1, <2>1, ArriveType DEF EscapeStep
  <2>2. CASE UNCHANGED <<pc, reached, active>>
    BY <1>1, <2>2, ChargerAssumption DEF EscapeStep, DriveOutcomes, Arrive
  <2> QED
    BY <1>1, <2>1, <2>2 DEF EscapeStep
<1>2. CASE EndEscape(look)
  <2>1. Flags'
    BY <1>2, ArriveType DEF EndEscape, Flags
  <2>2. Counts'
    BY <1>2, ArriveType DEF EndEscape, Counts
  <2>3. Sent'
    BY <1>2, ArriveType DEF EndEscape, Sent
  <2> QED
    BY <2>1, <2>2, <2>3 DEF Flags, Counts, Sent
<1> QED
  BY <1>1, <1>2

LEMMA RestType ==
  ASSUME TypeInv,
         \/ SkipParking \/ Park \/ Nav2Answers \/ Nav2Finishes \/ Tick \/ Die \/ Restart
         \/ UNCHANGED vars
  PROVE  TypeInv'
<1> USE DEF TypeInv, TypeOK, Places, Overriding, Planning, Parking, requestVars, radiusVars,
            goalVars, ageVars, escapeVars
<1>1. CASE SkipParking \/ Park
  BY <1>1 DEF SkipParking, Park, RotateToCorner, DriveToCorner, ReverseArc, ReverseDock, GoOn
<1>2. CASE Nav2Answers \/ Nav2Finishes
  <2>1. server' \in [Goals -> GoalStates]
    BY <1>2 DEF Nav2Answers, Nav2Finishes, Accept, Reject, FinishGoal, GoalStates, Over
  <2> QED
    BY <1>2, <2>1 DEF Nav2Answers, Nav2Finishes
<1>3. CASE Tick
  <2>1. /\ navAge' \in 0..(NavTimeout + 1) /\ stuckAge' \in 0..StuckLimit
        /\ holdAge' \in {NoReference} \cup 0..HoldLimit
    BY <1>3, ChargerAssumption DEF Tick, Later
  <2> QED
    BY <1>3, <2>1 DEF Tick
<1>4. CASE Die
  <2>1. holdAge' \in {NoReference} \cup 0..HoldLimit /\ escaped' <= tries'
    BY <1>4 DEF Die, Forget
  <2>2. restoreValue' \in Radii \cup {NoValue} /\ held' \subseteq Goals /\ released' \subseteq Goals
    BY <1>4 DEF Die, Forget
  <2>3. /\ pc' = "down" /\ area' = area /\ goal' = goal /\ radius' = radius
        /\ server' = server /\ processes' = processes /\ lost' \in BOOLEAN
        /\ requested' = FALSE /\ active' = FALSE /\ override' = FALSE
        /\ applied' = FALSE /\ reached' = FALSE /\ attempts' = 0
        /\ navAge' = 0 /\ stuckAge' = 0 /\ tries' = 0 /\ escaped' = 0
    BY <1>4 DEF Die, Forget
  <2> QED
    BY <2>1, <2>2, <2>3, Bounds
<1>5. CASE Restart
  BY <1>5, ChargerAssumption DEF Restart
<1>6. CASE UNCHANGED vars
  BY <1>6 DEF vars
<1> QED
  BY <1>1, <1>2, <1>3, <1>4, <1>5, <1>6

LEMMA TypeStep ==
  ASSUME TypeInv, [Next]_vars
  PROVE  TypeInv'
<1>1. CASE Navigate
  <2>1. ASSUME NEW look \in Looks, NEW moved \in BOOLEAN, NEW progress \in BOOLEAN,
               NEW nearLook \in Looks,
               \/ HandOff(look, moved) \/ GiveUpStuck(look, moved, progress)
               \/ Watch(look, moved, progress) \/ NavigationTimeout(look, moved, nearLook)
               \/ TakeResult(nearLook)
        PROVE  TypeInv'
    BY <2>1, WatchType
  <2>2. ASSUME NEW look \in Looks, EscapeStep \/ EndEscape(look)
        PROVE  TypeInv'
    BY <2>2, EscapeType
  <2>3. Looks # {} /\ BOOLEAN # {}
    BY DEF Looks
  <2> QED
    BY <1>1, <2>1, <2>2, <2>3, GoalRequestType DEF Navigate
<1> QED
  BY <1>1, RequestType, RestType DEF Next
-----------------------------------------------------------------------------
(* The inflation radius *)

\* Everything between the override and the end of the way leaves the radius and
\* the value to restore alone, and goes on on the way or to the restore.
LEMMA NavigateRadius ==
  ASSUME TypeInv, RadiusInv, Navigate
  PROVE  RadiusInv'
<1>1. UNCHANGED radiusVars /\ area' = area
  BY DEF Navigate, WaitForServer, RequestPlan, PlanAnswered, PlanReady, PlanTimeout, SendGoal,
         GoalAnswered, HandOff, GiveUpStuck, Watch, NavigationTimeout, TakeResult, EscapeStep,
         EndEscape, requestVars
<1>2. pc' \notin Overriding \cup {"down"} /\ (pc' \in Planning \cup {"plan"} => area = "A" \/ pc \in Planning \cup {"plan"})
  BY DEF Navigate, WaitForServer, RequestPlan, PlanAnswered, PlanReady, PlanTimeout, SendGoal,
         GoalAnswered, HandOff, GiveUpStuck, Watch, NavigationTimeout, TakeResult, EscapeStep,
         EndEscape, Arrive, BeginEscape, NoPath, Overriding, Planning, Watching
<1>3. applied => pc' \in {"server", "send", "answer", "watch", "escape", "restore", "plan"} \cup Planning
  BY DEF Navigate, WaitForServer, RequestPlan, PlanAnswered, PlanReady, PlanTimeout, SendGoal,
         GoalAnswered, HandOff, GiveUpStuck, Watch, NavigationTimeout, TakeResult, EscapeStep,
         EndEscape, Arrive, BeginEscape, NoPath, Planning, Watching
<1>4. RadiusAccounted'
  BY <1>1, <1>2, <1>3 DEF RadiusInv, RadiusAccounted, radiusVars, Planning
<1>5. pc' # "write" /\ pc' # "down" /\ pc' \notin Overriding
  BY <1>2 DEF Overriding
<1>6. (restoreValue' = "lowered" => lost') /\ (applied' => area' = "B")
  BY <1>1 DEF RadiusInv, radiusVars
<1> QED
  BY <1>4, <1>5, <1>6 DEF RadiusInv

LEMMA RadiusStep ==
  ASSUME TypeInv, RadiusInv, [Next]_vars
  PROVE  RadiusInv'
<1>1. CASE HandleMissionCommand
  BY <1>1 DEF HandleMissionCommand, RadiusInv, RadiusAccounted, radiusVars, Overriding
<1>2. CASE BeginCharger
  BY <1>2 DEF BeginCharger, RadiusInv, RadiusAccounted, radiusVars, Overriding
<1>3. CASE ReadRadius
  BY <1>3 DEF ReadRadius, RadiusInv, RadiusAccounted, requestVars, Overriding, NoValue,
              TypeInv, TypeOK, Radii
<1>4. CASE WriteRadius
  BY <1>4 DEF WriteRadius, RadiusInv, RadiusAccounted, requestVars, Overriding, NoValue,
              TypeInv, TypeOK, Radii
<1>5. CASE RestoreRadius
  BY <1>5 DEF RestoreRadius, RadiusInv, RadiusAccounted, Overriding, NoValue,
              TypeInv, TypeOK, Radii
<1>6. CASE SkipParking \/ Park
  BY <1>6 DEF SkipParking, Park, RotateToCorner, DriveToCorner, ReverseArc, ReverseDock, GoOn,
              RadiusInv, RadiusAccounted, radiusVars, Overriding
<1>7. CASE Nav2Answers \/ Nav2Finishes \/ Tick \/ UNCHANGED vars
  BY <1>7 DEF Nav2Answers, Nav2Finishes, Tick, vars, RadiusInv, RadiusAccounted, requestVars,
              radiusVars, Overriding
<1>8. CASE Die
  BY <1>8 DEF Die, Forget, RadiusInv, RadiusAccounted, Overriding, NoValue
<1>9. CASE Restart
  BY <1>9 DEF Restart, RadiusInv, RadiusAccounted, radiusVars, Overriding
<1> QED
  BY <1>1, <1>2, <1>3, <1>4, <1>5, <1>6, <1>7, <1>8, <1>9, NavigateRadius DEF Next
-----------------------------------------------------------------------------
(* The goals of Nav2 *)

\* The goal that is watched got its handle when the watch began, and is given
\* back when it ends.
LEMMA NavigateGoal ==
  ASSUME GoalInv, Navigate
  PROVE  GoalInv' /\ (pc' = "watch" => pc = "answer" \/ (pc = "watch" /\ goal' = goal))
<1>1. ASSUME NEW look \in Looks,
             \/ WaitForServer(look) \/ RequestPlan(look) \/ PlanAnswered(look)
             \/ PlanReady(look) \/ PlanTimeout(look) \/ EndEscape(look)
      PROVE  pc # "watch" /\ UNCHANGED goalVars /\ pc' # "watch"
  BY <1>1 DEF WaitForServer, RequestPlan, PlanAnswered, PlanReady, PlanTimeout, EndEscape,
              NoPath, Arrive
<1>2. CASE SendGoal
  BY <1>2 DEF SendGoal, GoalInv, Granted
<1>3. CASE GoalAnswered
  BY <1>3 DEF GoalAnswered, Arrive, GoalInv, Granted
<1>4. ASSUME NEW look \in Looks, NEW moved \in BOOLEAN, NEW progress \in BOOLEAN,
             NEW nearLook \in Looks,
             \/ HandOff(look, moved) \/ GiveUpStuck(look, moved, progress)
             \/ NavigationTimeout(look, moved, nearLook) \/ TakeResult(nearLook)
      PROVE  pc' # "watch" /\ goal' = goal /\ held' = held /\ released' = released \cup {goal}
  BY <1>4 DEF HandOff, GiveUpStuck, NavigationTimeout, TakeResult, CancelGoal, BeginEscape,
              Arrive, Watching
<1>5. ASSUME NEW look \in Looks, NEW moved \in BOOLEAN, NEW progress \in BOOLEAN,
             Watch(look, moved, progress)
      PROVE  pc = "watch" /\ pc' = pc /\ UNCHANGED goalVars
  BY <1>5 DEF Watch, Watching
<1>6. CASE EscapeStep
  BY <1>6 DEF EscapeStep, Arrive, goalVars, GoalInv, Granted
<1>7. ASSUME UNCHANGED goalVars, pc # "watch" \/ pc' = pc
      PROVE  GoalInv'
  BY <1>7 DEF goalVars, GoalInv, Granted
<1>8. ASSUME goal' = goal, held' = held, released' = released \cup {goal}
      PROVE  GoalInv'
  BY <1>8 DEF GoalInv, Granted
<1> QED
  BY <1>1, <1>2, <1>3, <1>4, <1>5, <1>6, <1>7, <1>8 DEF Navigate, goalVars

LEMMA GoalStep ==
  ASSUME GoalInv, [Next]_vars
  PROVE  GoalInv' /\ (pc' = "watch" => pc = "answer" \/ (pc = "watch" /\ goal' = goal))
<1>1. CASE HandleMissionCommand \/ BeginCharger
  BY <1>1 DEF HandleMissionCommand, BeginCharger, goalVars, GoalInv, Granted
<1>2. CASE ReadRadius \/ WriteRadius \/ RestoreRadius
  BY <1>2 DEF ReadRadius, WriteRadius, RestoreRadius, goalVars, GoalInv, Granted
<1>3. CASE SkipParking \/ Park
  BY <1>3 DEF SkipParking, Park, RotateToCorner, DriveToCorner, ReverseArc, ReverseDock, GoOn,
              goalVars, GoalInv, Granted
<1>4. CASE Nav2Answers \/ Nav2Finishes \/ Tick \/ UNCHANGED vars
  BY <1>4 DEF Nav2Answers, Nav2Finishes, Tick, vars, goalVars, GoalInv, Granted
<1>5. CASE Die \/ Restart
  BY <1>5 DEF Die, Forget, Restart, goalVars, GoalInv, Granted
<1> QED
  BY <1>1, <1>2, <1>3, <1>4, <1>5, NavigateGoal DEF Next
-----------------------------------------------------------------------------
LEMMA Invariance == Spec => []IInv
<1>1. IInv /\ [Next]_vars => IInv'
  BY TypeStep, RadiusStep, GoalStep DEF IInv
<1> QED
  BY <1>1, InitIInv, PTL DEF Spec

\* The types of ChargerParking, for every limit and number of processes.
THEOREM TypeCorrect == Spec => []TypeOK
<1>1. IInv => TypeOK
  BY DEF IInv, TypeInv
<1> QED
  BY <1>1, Invariance, PTL

\* apply_ and restore_charger_nav2_inflation: the costmap has the lowered radius
\* only on the way to the charger, with the configured value at hand, unless a
\* restore failed or a process died.
THEOREM RadiusKept == Spec => []RadiusAccounted
<1>1. IInv => RadiusAccounted
  BY DEF IInv, RadiusInv
<1> QED
  BY <1>1, Invariance, PTL

\* Every step moves the drive as MotionAuthority has it move, or not at all.
LEMMA MotionStep ==
  ASSUME IInv, IInv', [Next]_vars
  PROVE  [Motion!Next]_(Motion!vars)
<1> DEFINE M == pc \in {"mission", "escape"} \cup Parking
<1>1. /\ Granted # {} => pc = "watch" /\ Granted = {goal}
      /\ Granted' # {} => pc' = "watch" /\ Granted' = {goal'} /\ goal' \in Goals
  BY DEF IInv, GoalInv, TypeInv
<1>2. pc' = "watch" => pc = "answer" \/ (pc = "watch" /\ goal' = goal)
  BY GoalStep DEF IInv
<1>3. CASE M /\ M'
  BY <1>1, <1>3 DEF Parking, Motion!vars, Granted
<1>4. CASE M /\ ~M'
  <2>1. Granted = {} /\ Granted' = {}
    BY <1>1, <1>2, <1>4 DEF Parking
  <2> QED
    BY <1>4, <2>1 DEF Motion!Next, Motion!StepAside, Granted
<1>5. CASE ~M /\ M'
  <2>1. Granted' = {}
    BY <1>1, <1>5 DEF Parking
  <2> QED
    BY <1>5, <2>1 DEF Motion!Next, Motion!TakeBack, Granted
<1>6. CASE ~M /\ ~M'
  <2>1. CASE Granted' = {}
    BY <1>6, <2>1 DEF Motion!Next, Motion!Withdraw, Granted
  <2>2. CASE Granted' # {} /\ Granted = {}
    <3>1. Granted' = {goal'} /\ goal' \in Goals
      BY <1>1, <2>2
    <3> QED
      BY <1>6, <2>2, <3>1 DEF Motion!Next, Motion!Grant, Granted
  <2>3. CASE Granted' # {} /\ Granted # {}
    <3>1. Granted' = Granted
      BY <1>1, <1>2, <2>3
    <3> QED
      BY <1>6, <3>1 DEF Motion!vars, Granted
  <2> QED
    BY <2>1, <2>2, <2>3
<1> QED
  BY <1>3, <1>4, <1>5, <1>6

\* The way to the charger implements MotionAuthority: the mission escapes, parks
\* and sends another goal only when the last one is cancelled or over.
THEOREM ParkingImplementsMotion == Spec => OneDriver
<1>1. Init => Motion!Init
  BY DEF Init, Motion!Init
<1>2. IInv /\ IInv' /\ [Next]_vars => [Motion!Next]_(Motion!vars)
  BY MotionStep
<1> QED
  BY <1>1, <1>2, Invariance, PTL DEF Spec, OneDriver, Motion!Spec

\* Nav2 never has two goals of a living mission to follow, and none while the
\* mission drives itself.
THEOREM DriveExclusive == Spec => []Motion!Exclusive
<1>1. IInv => Motion!Exclusive
  BY DEF IInv, GoalInv, TypeInv, Granted, Motion!Exclusive, Parking
<1> QED
  BY <1>1, Invariance, PTL
=============================================================================
