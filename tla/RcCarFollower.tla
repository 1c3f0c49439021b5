----------------------------- MODULE RcCarFollower -----------------------------
(***************************************************************************)
(* The RC car's node on its own: any mode message at any time, control     *)
(* steps, odometry, and a serial line that may be lost and comes back.     *)
(***************************************************************************)
EXTENDS RcCar

VARIABLES
  node,    \* the member variables of RcCarFollowerNode
  status,  \* the last status published
  asked,   \* history: the last mode message
  told     \* history: ends reported since a different message came, up to two

nodeVars == <<node, status, asked, told>>
-----------------------------------------------------------------------------
NodeInit ==
  /\ \E mode \in {"Stop", "Follow"}, link \in BOOLEAN :
       node = [NewCar EXCEPT !.mode = mode, !.link = link]
  /\ status = "none"
  /\ asked = "stop"
  /\ told = 0

\* What a handler's reply r makes of the car and the topic.
Answer(r, works) ==
  /\ node' = Sent(r.car, r.sends, works)
  /\ status' = IF r.says = "none" THEN status ELSE r.says

\* mode_sub_ delivers message m.
Command(m) ==
  /\ \E works \in BOOLEAN : Answer(SetMode(node, m), works)
  /\ asked' = m
  /\ told' = IF m = asked THEN told ELSE 0

Controlled(c, works) ==
  LET r == ControlStep(node, c)
  IN  /\ Answer(r, works)
      /\ told' = IF r.says = "none" \/ told = 2 THEN told ELSE told + 1
      /\ UNCHANGED asked

\* control_timer_ expires.
Control == \E c \in Circumstances, works \in BOOLEAN : Controlled(c, works)

\* odom_timer_ expires.
Odometer ==
  /\ \E ticks \in BOOLEAN : node' = Odometry(node, ticks)
  /\ UNCHANGED <<status, asked, told>>

\* A read or a write finds the serial line gone.
LoseSerial ==
  /\ node.link
  /\ node' = [node EXCEPT !.link = FALSE]
  /\ UNCHANGED <<status, asked, told>>

\* serial_retry_timer_ expires and the port opens.
Reopen ==
  /\ ~node.link
  /\ node' = Reopened(node)
  /\ UNCHANGED <<status, asked, told>>

NodeNext == (\E m \in Commands : Command(m)) \/ Control \/ Odometer \/ LoseSerial \/ Reopen

NodeSpec == NodeInit /\ [][NodeNext]_nodeVars

\* A control step whose write succeeds.
Delivers == node.link /\ \E c \in Circumstances : Controlled(c, TRUE)

\* The timers expire, the port opens again, and an open line carries a command now
\* and then.
NodeFairSpec == NodeSpec /\ WF_nodeVars(Reopen) /\ SF_nodeVars(Delivers)
-----------------------------------------------------------------------------
\* A manoeuvre under way does not count as completed.
NodeTypeOK ==
  /\ node \in Cars
  /\ node.mode \notin node.done
  /\ status \in Statuses \cup {"none"}
  /\ asked \in Commands
  /\ told \in 0..2

\* A manoeuvre is measured from where it began and never from where an earlier,
\* abandoned one did: the reference that set_mode and "stop" leave behind
\* (turn_*_target_yaw_ is never reset by them) is not the target of the next turn.
NoStaleTarget == node.mode \in Measured => node.from[node.mode] # "old"

\* However often a message is repeated, its manoeuvre is carried out and reported
\* once.  align_b_stop_yaw has no such flag: it aligns to a fixed yaw.
RepeatedOnce == asked # "align_b_stop_yaw" => told <= 1

\* The straight latch of the B route belongs to following: no turn, stop or
\* finished manoeuvre leaves it set for the next drive.
LatchOnlyFollowing == node.latched => node.mode = "Follow"

\* A car that is told to stop, and to nothing else, stops in the end, though the
\* serial line fails at the moment the command is written.
StopReachesWheels == <>[](node.mode = "Stop") => <>[](~node.moving)
=============================================================================
