--------------------------------- MODULE RcCar ---------------------------------
(***************************************************************************)
(* The RC car that follows the robot                                       *)
(* (src/src/amr_topology/src/rc_car_follower_node.cpp), as operators: what *)
(* a mode message and a control step make of it and what it reports.  The  *)
(* poses are abstracted to what the node tests: are they known and fresh,  *)
(* is the target of a manoeuvre reached; the wheel commands to still and   *)
(* moving.  A mode message is repeated every 500 ms, so the node must know *)
(* what it has already done.                                               *)
(***************************************************************************)
EXTENDS Naturals

CONSTANT
  BProfile   \* b_profile_enabled() with enable_b_straight_latch

ASSUME BProfileAssumption == BProfile \in BOOLEAN

\* Modes in which the car carries out one manoeuvre and reports its end.
Manoeuvres == {"TurnCcw90", "TurnCw90", "AlignBStopYaw", "DriveForward2cm",
               "DriveToPostArucoTarget"}

Modes == Manoeuvres \cup {"Stop", "Follow", "Align", "TurnPrepareLeft"}

Turns == {"TurnCcw90", "TurnCw90"}

\* Manoeuvres measured from where they began: turn_*_target_yaw_ and
\* after_turn_forward_start_pose_.
Measured == Turns \cup {"DriveForward2cm"}

\* The mode each message asks for.  set_mode takes any other text for "stop".
ModeOf == [follow |-> "Follow", align |-> "Align",
           turn_prepare_left |-> "TurnPrepareLeft",
           turn_ccw_90 |-> "TurnCcw90", turn_cw_90 |-> "TurnCw90",
           align_b_stop_yaw |-> "AlignBStopYaw",
           drive_forward_2cm |-> "DriveForward2cm",
           drive_to_post_aruco_target |-> "DriveToPostArucoTarget",
           stop |-> "Stop"]

Commands == DOMAIN ModeOf

StartStatus == [TurnCcw90 |-> "turn_ccw_90_started",
                TurnCw90 |-> "turn_cw_90_started",
                AlignBStopYaw |-> "b_stop_align_started",
                DriveForward2cm |-> "drive_forward_2cm_started",
                DriveToPostArucoTarget |-> "post_aruco_target_started"]

EndStatus == [TurnCcw90 |-> "turn_ccw_90_done",
              TurnCw90 |-> "turn_cw_90_done",
              AlignBStopYaw |-> "b_stop_align_done",
              DriveForward2cm |-> "drive_forward_2cm_done",
              DriveToPostArucoTarget |-> "post_aruco_target_arrived"]

Statuses == {StartStatus[g] : g \in Manoeuvres} \cup {EndStatus[g] : g \in Manoeuvres}

\* done: the *_completed_ flags; from: is there a reference a measured manoeuvre
\* began at, taken when this one began ("own") or left by an earlier one ("old");
\* latched: b_straight_latched_; posed: follower_pose_ has a value; ready:
\* encoder_ready_; link: the serial port is open; moving: the wheel command that
\* the Arduino received last.
Cars == [mode    : Modes,
         done    : SUBSET Manoeuvres,
         from    : [Measured -> {"none", "own", "old"}],
         latched : BOOLEAN,
         posed   : BOOLEAN,
         ready   : BOOLEAN,
         link    : BOOLEAN,
         moving  : BOOLEAN]

NewCar == [mode |-> "Stop", done |-> {}, from |-> [g \in Measured |-> "none"],
           latched |-> FALSE, posed |-> FALSE, ready |-> FALSE, link |-> TRUE,
           moving |-> FALSE]

\* What a handler leaves: the car, the status it publishes, and whether it sends
\* a wheel command, and which.
Reply(car, says, sends) == [car |-> car, says |-> says, sends |-> sends]
-----------------------------------------------------------------------------
\* What a mode that is no manoeuvre forgets.  Mutant: the flags stay.
ForgetKeepsDone(car) == [car EXCEPT !.from = [@ EXCEPT !["DriveForward2cm"] = "none"]]

Forget(car) ==
  [car EXCEPT !.done = {}, !.from = [@ EXCEPT !["DriveForward2cm"] = "none"]]

\* References become old when their manoeuvre is left.
Aged(car) ==
  [car EXCEPT !.from = [g \in Measured |->
     IF @[g] = "own" /\ car.mode # g THEN "old" ELSE @[g]]]

\* The reference of manoeuvre g is taken from the pose, if there is one.  Mutant:
\* only if there is none yet.
MarkOnce(car, g) ==
  IF car.posed /\ car.from[g] = "none"
  THEN [car EXCEPT !.from = [@ EXCEPT ![g] = "own"]] ELSE car

Mark(car, g) ==
  IF car.posed THEN [car EXCEPT !.from = [@ EXCEPT ![g] = "own"]] ELSE car

\* A repeated message of a manoeuvre that has its reference changes nothing.
UnderWay(car, g) ==
  /\ car.mode = g
  /\ \/ g = "DriveToPostArucoTarget"
     \/ g \in Measured /\ car.from[g] # "none"

\* A manoeuvre begins; a turn makes a later drive forward possible again.
Begin(car, g) ==
  LET marked == IF g \in Measured THEN Mark(car, g) ELSE car
      begun  == [marked EXCEPT !.mode = g, !.latched = FALSE]
  IN  IF g \in Turns
      THEN [begun EXCEPT !.done = @ \ {"DriveForward2cm"},
                         !.from = [@ EXCEPT !["DriveForward2cm"] = "none"]]
      ELSE begun

\* A manoeuvre that was completed before: the car stands, and reports nothing.
AlreadyDone(car, g) ==
  [car EXCEPT !.mode = "Stop",
              !.from = IF g \in Measured THEN [@ EXCEPT ![g] = "none"] ELSE @]

\* set_mode().  Mutant: a manoeuvre is begun again although it was completed.
SetModeAgain(car, m) ==
  LET g == ModeOf[m]
  IN  IF g \in Manoeuvres
      THEN IF UnderWay(car, g) THEN Reply(car, "none", "none")
           ELSE Reply(Aged(Begin(car, g)), StartStatus[g], "none")
      ELSE Reply(Aged([Forget(car) EXCEPT !.mode = g,
                                          !.latched = @ /\ m = "follow"]),
                 "none", IF m = "stop" THEN "still" ELSE "none")

SetMode(car, m) ==
  LET g == ModeOf[m]
  IN  IF g \in Manoeuvres
      THEN IF g \in car.done THEN Reply(Aged(AlreadyDone(car, g)), "none", "still")
           ELSE IF UnderWay(car, g) THEN Reply(car, "none", "none")
           ELSE Reply(Aged(Begin(car, g)), StartStatus[g], "none")
      ELSE Reply(Aged([Forget(car) EXCEPT !.mode = g,
                                          !.latched = @ /\ m = "follow"]),
                 "none", IF m = "stop" THEN "still" ELSE "none")
-----------------------------------------------------------------------------
\* What a control step depends on: are the poses fresh, is the delay after the
\* start of "follow" over, is the manoeuvre at its target, do the wheels turn in
\* this part of the duty cycle and at this distance, is the car on the straight.
Circumstances == [follower : BOOLEAN, leader : BOOLEAN, delayed : BOOLEAN,
                  reached : BOOLEAN, drives : BOOLEAN, straight : BOOLEAN]

Blind(car, c) ==
  \/ ~car.posed
  \/ ~c.follower
  \/ car.mode \notin Manoeuvres /\ ~c.leader

\* make_turn_*_command, make_b_stop_align_command, make_after_turn_forward_command
\* and make_drive_to_post_aruco_target_command at the target.  Mutant: the flag of
\* the drive forward is not set.
FinishForgets(car, g) ==
  [car EXCEPT !.mode = "Stop",
              !.done = IF g \in {"AlignBStopYaw", "DriveForward2cm"} THEN @ ELSE @ \cup {g},
              !.from = IF g \in Measured THEN [@ EXCEPT ![g] = "none"] ELSE @]

Finish(car, g) ==
  [car EXCEPT !.mode = "Stop",
              !.done = IF g = "AlignBStopYaw" THEN @ ELSE @ \cup {g},
              !.from = IF g \in Measured THEN [@ EXCEPT ![g] = "none"] ELSE @]

\* A measured manoeuvre that had no pose when it was asked for takes its reference
\* in a control step, a drive forward only once the encoders are ready.
Aimed(car) ==
  IF /\ car.mode \in Measured
     /\ car.from[car.mode] = "none"
     /\ car.mode \in Turns \/ car.ready
  THEN Mark(car, car.mode) ELSE car

\* A measured manoeuvre is not at its end in the step that takes its reference.
AtTarget(car, c) ==
  c.reached /\ (car.mode \in Measured => car.from[car.mode] # "none")

Wheels(moves) == IF moves THEN "moving" ELSE "still"

\* control_step().  Mutant: a car that stands is not told so again.
ControlStepSilent(car, c) ==
  IF car.mode = "Stop" THEN Reply(car, "none", "none")
  ELSE IF Blind(car, c) \/ ~car.ready THEN Reply(car, "none", "still")
  ELSE IF car.mode \in Manoeuvres /\ AtTarget(car, c)
  THEN Reply(Finish(car, car.mode), EndStatus[car.mode], "still")
  ELSE Reply(Aimed(car), "none", Wheels(c.drives))

ControlStep(car, c) ==
  IF \/ car.mode = "Stop"
     \/ Blind(car, c)
     \/ car.mode \in {"Follow", "TurnPrepareLeft"} /\ c.delayed
  THEN Reply(car, "none", "still")
  ELSE IF ~car.ready THEN Reply(Aimed(car), "none", "still")
  ELSE IF car.mode \in Manoeuvres
  THEN IF AtTarget(car, c)
       THEN Reply(Finish(car, car.mode), EndStatus[car.mode], "still")
       ELSE Reply(Aimed(car), "none",
                  Wheels(car.mode # "DriveToPostArucoTarget" \/ c.drives))
  ELSE Reply([car EXCEPT !.latched =
                BProfile /\ car.mode = "Follow" /\ (@ \/ c.straight)],
             "none", Wheels(c.drives))

\* send_pwm_command(): a failed write closes the port, and the Arduino keeps the
\* command it has.
Sent(car, sends, works) ==
  IF sends = "none" \/ ~car.link THEN car
  ELSE IF works THEN [car EXCEPT !.moving = (sends = "moving")]
  ELSE [car EXCEPT !.link = FALSE]

\* serial_odom_step(), once there is a leader's pose to start from or the start is
\* a parameter (without either it leaves all as it is): the car has a pose, and the
\* first line of ticks is the baseline of the encoders.
Odometry(car, ticks) ==
  [car EXCEPT !.posed = TRUE, !.ready = @ \/ (car.link /\ ticks)]

\* try_open_serial_port().
Reopened(car) == [car EXCEPT !.link = TRUE, !.ready = FALSE]
=============================================================================
