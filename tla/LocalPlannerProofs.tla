-------------------------- MODULE LocalPlannerProofs --------------------------
(***************************************************************************)
(* What one call of update() does to any planner, for every scan: the      *)
(* lemmas that the proofs about the modules using the planner rest on.     *)
(* Then the theorems about LocalPlanner, for every waiting time PlanWait   *)
(* and every sequence of scans, updates and resets.                        *)
(***************************************************************************)
EXTENDS LocalPlanner, TLAPS

\* reset() leaves a planner.
LEMMA ResetType == Reset \in Planners
BY PlanWaitAssumption DEF Reset, Planners, PlannerStates

\* enter_state() leaves a planner in the state asked for.
LEMMA EnterType ==
  ASSUME NEW p \in Planners, NEW s \in PlannerStates
  PROVE  /\ Enter(p, s) \in Planners
         /\ Enter(p, s).state = s
         /\ Enter(p, s).path = p.path
         /\ Enter(p, s).age = IF p.state = s THEN p.age ELSE 0
<1>1. CASE p.state = s
  BY <1>1 DEF Enter
<1>2. CASE p.state # s
  <2>1. Enter(p, s) = [p EXCEPT !.state = s, !.age = 0]
    BY <1>2 DEF Enter
  <2>2. 0 \in 0..PlanWait
    BY PlanWaitAssumption
  <2>3. [p EXCEPT !.state = s, !.age = 0] \in Planners
    BY <2>2 DEF Planners
  <2> QED
    BY <1>2, <2>1, <2>3 DEF Planners
<1> QED
  BY <1>1, <1>2

\* make_plan() changes the path only.
LEMMA MakePlanType ==
  ASSUME NEW p \in Planners, NEW c \in Circumstances
  PROVE  /\ MakePlan(p, c) \in Planners
         /\ MakePlan(p, c).state = p.state
         /\ MakePlan(p, c).age = p.age
         /\ MakePlan(p, c).path = (c.plan # "none")
BY DEF MakePlan, Planners

\* Giving up a side escape changes the escape only.
LEMMA NoEscapeType ==
  ASSUME NEW p \in Planners, NEW e \in Sides \cup {"none"}
  PROVE  /\ [p EXCEPT !.escape = e] \in Planners
         /\ [p EXCEPT !.escape = e].state = p.state
         /\ [p EXCEPT !.escape = e].age = p.age
         /\ [p EXCEPT !.escape = e].path = p.path
BY DEF Planners

\* The side to turn to is a side.
LEMMA AwaySideType ==
  ASSUME NEW s \in Scans, NEW c \in Circumstances
  PROVE  AwaySide(s, c) \in Sides
BY DEF AwaySide, Scans, Circumstances, Sides
-----------------------------------------------------------------------------
\* What a step of the planner, from p to q saying d, always keeps.  A detour is
\* followed with a path if the planner keeps to one; it starts only out of a halt
\* that has lasted long enough; a halt entered anew has lasted no time; and a
\* planner that says "blocked" was blocked.
Sound(p, q, d) ==
  /\ q \in Planners
  /\ d \in Decisions
  /\ q.state = "follow_detour" =>
       \/ p.state = "follow_detour" /\ q.path = p.path
       \/ p.state \in {"stop_and_plan", "blocked"} /\ p.age = PlanWait /\ q.path
  /\ q.state \in {"stop_and_plan", "blocked"} =>
       \/ q.age = 0
       \/ p.state = q.state /\ q.age = p.age
  /\ d = "blocked" => p.state = "blocked"

\* Every branch of the state machine is sound.
LEMMA StateOutcomeSound ==
  ASSUME NEW p \in Planners, NEW s \in Scans, NEW c \in Circumstances
  PROVE  Sound(p, StateOutcome(p, s, c).planner, StateOutcome(p, s, c).says)
<1>1. ASSUME p.state = "normal"
      PROVE  Sound(p, StateOutcome(p, s, c).planner, StateOutcome(p, s, c).says)
  BY <1>1 DEF StateOutcome, Outcome, Sound, Decisions
<1>2. ASSUME p.state = "stop_and_plan"
      PROVE  Sound(p, StateOutcome(p, s, c).planner, StateOutcome(p, s, c).says)
  <2> DEFINE next == IF c.plan = "path" THEN "follow_detour" ELSE "blocked"
  <2>1. /\ Enter(MakePlan(p, c), next) \in Planners
        /\ Enter(MakePlan(p, c), next).state = next
        /\ c.plan = "path" => Enter(MakePlan(p, c), next).path
        /\ Enter(MakePlan(p, c), next).age = 0
    <3>1. next \in PlannerStates
      BY DEF PlannerStates
    <3>2. p.state # next
      BY <1>2
    <3> HIDE DEF next
    <3>3. /\ MakePlan(p, c) \in Planners
          /\ MakePlan(p, c).state # next
          /\ c.plan = "path" => MakePlan(p, c).path
      BY <3>2, MakePlanType
    <3> QED
      BY <3>1, <3>3, EnterType
  <2>2. p.age \in 0..PlanWait
    BY DEF Planners
  <2>3. CASE Waited(p)
    <3>1. StateOutcome(p, s, c) = Outcome(Enter(MakePlan(p, c), next), "stop_and_plan")
      BY <1>2, <2>3 DEF StateOutcome
    <3>2. p.age = PlanWait
      BY <2>2, <2>3, PlanWaitAssumption DEF Waited
    <3> HIDE DEF next
    <3>3. next \in {"follow_detour", "blocked"} /\ (next = "follow_detour" => c.plan = "path")
      BY DEF next
    <3> QED
      BY <1>2, <2>1, <3>1, <3>2, <3>3 DEF Outcome, Sound, Decisions
  <2>4. CASE ~Waited(p)
    <3>1. StateOutcome(p, s, c) = Outcome(p, "stop_and_plan")
      BY <1>2, <2>4 DEF StateOutcome
    <3> QED
      BY <1>2, <3>1 DEF Outcome, Sound, Decisions
  <2> QED
    BY <2>3, <2>4
<1>3. ASSUME p.state = "follow_detour"
      PROVE  Sound(p, StateOutcome(p, s, c).planner, StateOutcome(p, s, c).says)
  <2>1. /\ Enter(p, "stop_and_plan") \in Planners
        /\ Enter(p, "stop_and_plan").state = "stop_and_plan"
        /\ Enter(p, "stop_and_plan").age = 0
    BY <1>3, EnterType DEF PlannerStates
  <2>2. Reset \in Planners /\ Reset.state = "normal"
    BY ResetType DEF Reset
  <2>3. \/ StateOutcome(p, s, c) = Outcome(Reset, "none")
        \/ StateOutcome(p, s, c) = Outcome(Enter(p, "stop_and_plan"), "stop_and_plan")
        \/ StateOutcome(p, s, c) = Outcome(p, "follow_detour")
    BY <1>3 DEF StateOutcome
  <2> QED
    BY <1>3, <2>1, <2>2, <2>3 DEF Outcome, Sound, Decisions
<1>4. ASSUME p.state = "blocked"
      PROVE  Sound(p, StateOutcome(p, s, c).planner, StateOutcome(p, s, c).says)
  <2>1. /\ Enter(MakePlan(p, c), "follow_detour") \in Planners
        /\ Enter(MakePlan(p, c), "follow_detour").state = "follow_detour"
        /\ c.plan = "path" => Enter(MakePlan(p, c), "follow_detour").path
    BY MakePlanType, EnterType DEF PlannerStates
  <2>2. Reset \in Planners /\ Reset.state = "normal"
    BY ResetType DEF Reset
  <2>3. Waited(p) => p.age = PlanWait
    BY PlanWaitAssumption DEF Waited, Planners
  <2>4. \/ StateOutcome(p, s, c) = Outcome(Reset, "none")
        \/ /\ Waited(p) /\ c.plan = "path"
           /\ StateOutcome(p, s, c)
                = Outcome(Enter(MakePlan(p, c), "follow_detour"), "detour_ready")
        \/ StateOutcome(p, s, c) = Outcome(MakePlan(p, c), "blocked")
        \/ StateOutcome(p, s, c) = Outcome(p, "blocked")
    BY <1>4 DEF StateOutcome
  <2>5. /\ MakePlan(p, c) \in Planners
        /\ MakePlan(p, c).state = "blocked"
        /\ MakePlan(p, c).age = p.age
    BY <1>4, MakePlanType
  <2> QED
    BY <1>4, <2>1, <2>2, <2>3, <2>4, <2>5 DEF Outcome, Sound, Decisions
<1>5. p.state \in {"normal", "stop_and_plan", "follow_detour", "blocked"}
  BY DEF Planners, PlannerStates
<1> QED
  BY <1>1, <1>2, <1>3, <1>4, <1>5

\* Every call of update() is sound, whatever the scan.
LEMMA UpdateOutcomeSound ==
  ASSUME NEW p \in Planners, NEW s \in Scans, NEW c \in Circumstances
  PROVE  Sound(p, UpdateOutcome(p, s, c).planner, UpdateOutcome(p, s, c).says)
<1>1. CASE ~s.fresh
  <2>1. UpdateOutcome(p, s, c) = Outcome(Reset, "none")
    BY <1>1 DEF UpdateOutcome
  <2> QED
    BY <2>1, ResetType DEF Outcome, Reset, Sound, Decisions
<1>2. CASE s.fresh /\ s.front
  <2>1. UpdateOutcome(p, s, c) = Outcome(Enter(p, "stop_and_plan"), "stop_and_plan")
    BY <1>2 DEF UpdateOutcome
  <2>2. /\ Enter(p, "stop_and_plan") \in Planners
        /\ Enter(p, "stop_and_plan").state = "stop_and_plan"
        /\ Enter(p, "stop_and_plan").age = IF p.state = "stop_and_plan" THEN p.age ELSE 0
    BY EnterType DEF PlannerStates
  <2> QED
    BY <2>1, <2>2 DEF Outcome, Sound, Decisions
<1>3. CASE s.fresh /\ ~s.front /\ MustEscape(p, s)
  <2> DEFINE e == IF p.escape = "none" THEN AwaySide(s, c) ELSE p.escape
  <2>1. UpdateOutcome(p, s, c) = Outcome([p EXCEPT !.escape = e], "side_escape")
    BY <1>3 DEF UpdateOutcome
  <2>2. e \in Sides \cup {"none"}
    BY AwaySideType DEF Planners
  <2>3. p.state # "follow_detour"
    BY <1>3 DEF MustEscape
  <2> HIDE DEF e
  <2> DEFINE q == [p EXCEPT !.escape = e]
  <2>4. q \in Planners /\ q.state = p.state /\ q.age = p.age
    BY <2>2, NoEscapeType
  <2>5. UpdateOutcome(p, s, c).planner = q /\ UpdateOutcome(p, s, c).says = "side_escape"
    BY <2>1 DEF Outcome
  <2> HIDE DEF q
  <2> QED
    BY <2>3, <2>4, <2>5 DEF Sound, Decisions
<1>4. CASE s.fresh /\ ~s.front /\ ~MustEscape(p, s)
  <2> DEFINE q == [p EXCEPT !.escape = "none"]
             r == IF q.state = "normal" /\ s.link THEN Enter(q, "stop_and_plan") ELSE q
  <2>1. UpdateOutcome(p, s, c) = StateOutcome(r, s, c)
    BY <1>4 DEF UpdateOutcome
  <2>2. q \in Planners /\ q.state = p.state /\ q.age = p.age /\ q.path = p.path
    BY NoEscapeType
  <2> HIDE DEF q
  <2>3. /\ r \in Planners
        /\ \/ r = q
           \/ p.state = "normal" /\ r.state = "stop_and_plan" /\ r.age = 0
    BY <2>2, EnterType DEF PlannerStates
  <2> HIDE DEF r
  <2>4. Sound(r, StateOutcome(r, s, c).planner, StateOutcome(r, s, c).says)
    BY <2>3, StateOutcomeSound
  <2> QED
    BY <2>1, <2>2, <2>3, <2>4, PlanWaitAssumption DEF Sound
<1> QED
  BY <1>1, <1>2, <1>3, <1>4

\* With an obstacle in front in a fresh scan, the robot is told to stop.
LEMMA FrontStops ==
  ASSUME NEW p, NEW s, NEW c, s.fresh, s.front
  PROVE  UpdateOutcome(p, s, c).says = "stop_and_plan"
BY DEF UpdateOutcome, Outcome
-----------------------------------------------------------------------------
\* A halt is at least as old as the state of the planner that it is in.
HaltCovers == Halting(local) => local.age <= halted

\* The inductive invariant: types, the path of a detour, and the halt.  The
\* last is what makes HaltBeforeDetour true: a detour starts when the age of the
\* state reaches PlanWait, and only HaltCovers ties that age to the halt.
LocalIInv == LocalTypeOK /\ DetourHasPath /\ HaltCovers

\* The initial state satisfies the inductive invariant.
LEMMA LocalInitIInv == LocalInit => LocalIInv
BY ResetType, PlanWaitAssumption
   DEF LocalInit, LocalIInv, LocalTypeOK, DetourHasPath, HaltCovers, Halting, Reset, NoScan,
       Scans, Clear, Critical, Decisions

\* A control tick preserves it.
LEMMA ControlIInv ==
  ASSUME LocalIInv, NEW c \in Circumstances, ControlWith(c)
  PROVE  LocalIInv'
<1> DEFINE p == local'
<1>1. Sound(local, local', said') /\ scan' = scan /\ halted' = HaltedIn(local')
  BY UpdateOutcomeSound DEF LocalIInv, LocalTypeOK, ControlWith
<1>2. LocalTypeOK'
  <2>1. local' \in Planners /\ said' \in Decisions
    BY <1>1 DEF Sound
  <2>2. halted' \in 0..PlanWait
    BY <1>1, PlanWaitAssumption DEF HaltedIn, LocalIInv, LocalTypeOK
  <2> QED
    BY <1>1, <2>1, <2>2 DEF LocalIInv, LocalTypeOK
<1>3. DetourHasPath'
  BY <1>1 DEF LocalIInv, DetourHasPath, Sound
<1>4. HaltCovers'
  <2> SUFFICES ASSUME Halting(local') PROVE local'.age <= halted'
    BY DEF HaltCovers, Halting
  <2>1. halted' = halted /\ halted \in 0..PlanWait
    BY <1>1 DEF HaltedIn, LocalIInv, LocalTypeOK
  <2>2. CASE local'.age = 0
    BY <2>1, <2>2, PlanWaitAssumption
  <2>3. CASE local.state = local'.state /\ local'.age = local.age
    BY <2>1, <2>3 DEF LocalIInv, HaltCovers, Halting
  <2> QED
    BY <1>1, <2>2, <2>3 DEF Sound, Halting
<1> QED
  BY <1>2, <1>3, <1>4 DEF LocalIInv

\* Every step preserves it.
LEMMA LocalNextIInv == LocalIInv /\ [LocalNext]_localVars => LocalIInv'
<1> SUFFICES ASSUME LocalIInv, [LocalNext]_localVars PROVE LocalIInv'
  OBVIOUS
<1>1. CASE Sense
  BY <1>1 DEF Sense, LocalIInv, LocalTypeOK, DetourHasPath, HaltCovers, Halting
<1>2. CASE ScanExpires
  BY <1>2 DEF ScanExpires, LocalIInv, LocalTypeOK, DetourHasPath, HaltCovers, Halting, Scans
<1>3. CASE Control
  BY <1>3, ControlIInv DEF Control
<1>4. CASE CallerResets
  BY <1>4, ResetType, PlanWaitAssumption
     DEF CallerResets, LocalIInv, LocalTypeOK, DetourHasPath, HaltCovers, Halting, Reset
<1>5. CASE LocalClock
  <2>1. local \in Planners /\ halted \in 0..PlanWait /\ local.age \in 0..PlanWait
    BY DEF LocalIInv, LocalTypeOK, Planners
  <2>2. local.age + 1 \in 0..PlanWait
    BY <1>5, <2>1, PlanWaitAssumption DEF LocalClock
  <2>3. /\ local' \in Planners
        /\ local'.state = local.state
        /\ local'.path = local.path
        /\ local'.age = local.age + 1
    BY <1>5, <2>1, <2>2 DEF LocalClock, Planners
  <2>4. halted' \in 0..PlanWait
    BY <1>5, <2>1, PlanWaitAssumption DEF LocalClock
  <2>5. LocalTypeOK'
    BY <1>5, <2>3, <2>4 DEF LocalClock, LocalIInv, LocalTypeOK
  <2>6. DetourHasPath'
    BY <2>3 DEF LocalIInv, DetourHasPath
  <2>7. HaltCovers'
    BY <1>5, <2>1, <2>2, <2>3, PlanWaitAssumption DEF LocalClock, LocalIInv, HaltCovers, Halting
  <2> QED
    BY <2>5, <2>6, <2>7 DEF LocalIInv
<1>6. CASE UNCHANGED localVars
  BY <1>6 DEF localVars, LocalIInv, LocalTypeOK, DetourHasPath, HaltCovers, Halting
<1> QED
  BY <1>1, <1>2, <1>3, <1>4, <1>5, <1>6 DEF LocalNext

\* The inductive invariant holds in every reachable state.
LEMMA LocalInvariance == LocalSpec => []LocalIInv
BY LocalInitIInv, LocalNextIInv, PTL DEF LocalSpec
-----------------------------------------------------------------------------
\* Every variable keeps its type.
THEOREM LocalTypeCorrect == LocalSpec => []LocalTypeOK
BY LocalInvariance, PTL DEF LocalIInv

\* The planner never follows a detour without a path: update() never hands pure
\* pursuit an empty path_ left by a failed search or a reset.
THEOREM DetourPath == LocalSpec => []DetourHasPath
BY LocalInvariance, PTL DEF LocalIInv

\* Whatever scans, emergencies and resets come, a detour starts only after a halt
\* of stop_and_plan_seconds without a break.
THEOREM DetourAfterHalt == LocalSpec => HaltBeforeDetour
<1> DEFINE Starts == local.state # "follow_detour" /\ local'.state = "follow_detour"
<1>1. LocalIInv /\ [LocalNext]_localVars => [Starts => halted = PlanWait]_localVars
  <2> SUFFICES ASSUME LocalIInv, LocalNext, Starts PROVE halted = PlanWait
    OBVIOUS
  <2>1. PICK c \in Circumstances : ControlWith(c)
    <3>1. ~Sense /\ ~ScanExpires
      BY DEF Sense, ScanExpires
    <3>2. ~CallerResets
      BY DEF CallerResets, Reset
    <3>3. ~LocalClock
      BY DEF LocalClock, LocalIInv, LocalTypeOK, Planners
    <3> QED
      BY <3>1, <3>2, <3>3 DEF LocalNext, Control
  <2>2. Sound(local, local', said')
    BY <2>1, UpdateOutcomeSound DEF LocalIInv, LocalTypeOK, ControlWith
  <2>3. local.state \in {"stop_and_plan", "blocked"} /\ local.age = PlanWait
    BY <2>2 DEF Sound
  <2> QED
    BY <2>3, PlanWaitAssumption DEF LocalIInv, LocalTypeOK, HaltCovers, Halting
<1> QED
  BY <1>1, LocalInvariance, PTL DEF LocalSpec, HaltBeforeDetour

\* A control tick never answers an obstacle in front with a motion.
THEOREM FrontMeansStop == LocalSpec => StopsInFront
<1>1. [LocalNext]_localVars => [Control /\ scan.fresh /\ scan.front => said' \notin Moving]_localVars
  <2> SUFFICES ASSUME NEW c \in Circumstances, ControlWith(c), scan.fresh, scan.front
               PROVE  said' \notin Moving
    BY DEF Control
  <2> QED
    BY FrontStops DEF ControlWith, Moving
<1> QED
  BY <1>1, PTL DEF LocalSpec, StopsInFront
=============================================================================
