------------------------------ MODULE RcCarProofs ------------------------------
(***************************************************************************)
(* Theorems about the RC car: RcCarFollower, for either profile and every  *)
(* sequence of mode messages, control steps, odometry and failures of the  *)
(* serial line; and Convoy, the car with a mission of either area, for any *)
(* depth of the queue of statuses and any number of failed writes.  Both   *)
(* rest on the same lemmas about the handlers of the car's node.           *)
(***************************************************************************)
EXTENDS RcCarFollower, Convoy, SequenceTheorems, TLAPS

\* What every handler keeps of the car.  A car without a pose has no reference at
\* all: that is why a manoeuvre begun without one cannot meet an old reference.  A
\* car that follows has no flag: that is why the early return for a completed
\* manoeuvre, which leaves the latch alone, cannot take a latched car out of Follow.
Good(c) ==
  /\ c \in Cars
  /\ c.mode \notin c.done
  /\ c.mode \in Measured => c.from[c.mode] # "old"
  /\ c.latched => c.mode = "Follow"
  /\ c.mode = "Follow" => c.done = {}
  /\ ~c.posed => \A g \in Measured : c.from[g] = "none"

\* A manoeuvre is under way only if the last message asked for it, and once its end
\* was reported the car stands and has the flag.
Obeys ==
  /\ node.mode \in Manoeuvres => node.mode = ModeOf[asked]
  /\ told >= 1 /\ asked # "align_b_stop_yaw"
       => node.mode = "Stop" /\ ModeOf[asked] \in node.done

\* The inductive invariant.  RepeatedOnce alone is not inductive: Obeys says that a
\* reported car stands and will stand, whatever is repeated.
NodeIInv == NodeTypeOK /\ Good(node) /\ Obeys /\ RepeatedOnce
-----------------------------------------------------------------------------
\* Every message asks for a mode, and "align_b_stop_yaw" alone for its own.
LEMMA ModeOfType ==
  ASSUME NEW m \in Commands
  PROVE  /\ ModeOf[m] \in Modes
         /\ ModeOf[m] = "AlignBStopYaw" => m = "align_b_stop_yaw"
BY DEF Commands, ModeOf, Modes, Manoeuvres

\* Ageing touches the references of other manoeuvres only.
LEMMA AgedType ==
  ASSUME NEW c \in Cars
  PROVE  /\ Aged(c) \in Cars
         /\ Aged(c).mode = c.mode /\ Aged(c).done = c.done
         /\ Aged(c).latched = c.latched /\ Aged(c).posed = c.posed
         /\ \A g \in Measured : /\ c.from[g] = "none" => Aged(c).from[g] = "none"
                                /\ c.mode = g => Aged(c).from[g] = c.from[g]
BY DEF Aged, Cars

\* A manoeuvre that begins forgets at most the drive forward.
LEMMA BeginType ==
  ASSUME NEW c \in Cars, NEW g \in Manoeuvres
  PROVE  /\ Begin(c, g) \in Cars
         /\ \/ Begin(c, g).done = c.done
            \/ g \in Turns /\ Begin(c, g).done = c.done \ {"DriveForward2cm"}
<1> DEFINE marked == IF g \in Measured THEN Mark(c, g) ELSE c
           begun == [marked EXCEPT !.mode = g, !.latched = FALSE]
<1>1. marked \in Cars /\ marked.done = c.done
  BY DEF Mark, Cars
<1>2. begun \in Cars /\ begun.done = c.done
  BY <1>1 DEF Cars, Modes
<1> HIDE DEF marked, begun
<1>3. CASE g \notin Turns
  <2>1. Begin(c, g) = begun
    BY <1>3 DEF Begin, begun, marked
  <2> QED
    BY <1>2, <2>1
<1>4. CASE g \in Turns
  <2>1. Begin(c, g) = [begun EXCEPT !.done = @ \ {"DriveForward2cm"},
                                    !.from = [@ EXCEPT !["DriveForward2cm"] = "none"]]
    BY <1>4 DEF Begin, begun, marked
  <2>2. begun.done \ {"DriveForward2cm"} \in SUBSET Manoeuvres
    BY <1>2 DEF Cars
  <2>3. [begun.from EXCEPT !["DriveForward2cm"] = "none"]
          \in [Measured -> {"none", "own", "old"}]
    BY <1>2 DEF Cars
  <2> QED
    BY <1>2, <1>4, <2>1, <2>2, <2>3 DEF Cars
<1> QED
  BY <1>3, <1>4

\* A manoeuvre that is not completed begins well.
LEMMA BeginGood ==
  ASSUME NEW c, Good(c), NEW g \in Manoeuvres, g \notin c.done
  PROVE  Good(Aged(Begin(c, g))) /\ Aged(Begin(c, g)).mode = g
<1> DEFINE marked == IF g \in Measured THEN Mark(c, g) ELSE c
           begun == [marked EXCEPT !.mode = g, !.latched = FALSE]
<1>1. /\ marked \in Cars /\ marked.done = c.done /\ marked.posed = c.posed
      /\ g \in Measured => marked.from[g] # "old"
      /\ ~c.posed => \A h \in Measured : marked.from[h] = "none"
  BY DEF Good, Mark, Cars
<1>2. /\ begun \in Cars /\ begun.mode = g /\ begun.done = c.done
      /\ begun.posed = c.posed /\ ~begun.latched /\ begun.from = marked.from
  BY <1>1 DEF Cars, Modes
<1> HIDE DEF marked, begun
<1>3. /\ Begin(c, g) \in Cars /\ Begin(c, g).mode = g /\ ~Begin(c, g).latched
      /\ Begin(c, g).posed = c.posed /\ g \notin Begin(c, g).done
      /\ g \in Measured => Begin(c, g).from[g] # "old"
      /\ ~c.posed => \A h \in Measured : Begin(c, g).from[h] = "none"
  <2>1. CASE g \notin Turns
    <3>1. Begin(c, g) = begun
      BY <2>1 DEF Begin, begun, marked
    <3> QED
      BY <1>1, <1>2, <3>1
  <2>2. CASE g \in Turns
    <3>1. Begin(c, g) = [begun EXCEPT !.done = @ \ {"DriveForward2cm"},
                                      !.from = [@ EXCEPT !["DriveForward2cm"] = "none"]]
      BY <2>2 DEF Begin, begun, marked
    <3>2. /\ Begin(c, g).from = [begun.from EXCEPT !["DriveForward2cm"] = "none"]
          /\ Begin(c, g).done = begun.done \ {"DriveForward2cm"}
          /\ Begin(c, g).mode = begun.mode /\ Begin(c, g).latched = begun.latched
          /\ Begin(c, g).posed = begun.posed
      BY <1>2, <3>1 DEF Cars
    <3>3. Begin(c, g) \in Cars
      <4>1. begun.done \ {"DriveForward2cm"} \in SUBSET Manoeuvres
        BY <1>2 DEF Cars
      <4>2. [begun.from EXCEPT !["DriveForward2cm"] = "none"]
              \in [Measured -> {"none", "own", "old"}]
        BY <1>2 DEF Cars
      <4> QED
        BY <1>2, <3>1, <4>1, <4>2 DEF Cars
    <3>4. g # "DriveForward2cm" /\ begun.from \in [Measured -> {"none", "own", "old"}]
      BY <1>2, <2>2 DEF Turns, Cars
    <3>5. \A h \in Measured : Begin(c, g).from[h] \in {"none", begun.from[h]}
      BY <3>2, <3>4
    <3>6. Begin(c, g).from[g] = begun.from[g]
      BY <2>2, <3>2, <3>4 DEF Measured
    <3> QED
      BY <1>1, <1>2, <3>2, <3>3, <3>5, <3>6
  <2> QED
    BY <2>1, <2>2
<1>4. g # "Follow"
  BY DEF Manoeuvres
<1> QED
  BY <1>3, <1>4, AgedType DEF Good

\* A mode message leaves a good car in the mode it asks for, or standing; a
\* manoeuvre that was completed stays so.
LEMMA SetModeGood ==
  ASSUME NEW c, Good(c), NEW m \in Commands
  PROVE  LET r == SetMode(c, m)
         IN  /\ Good(r.car)
             /\ r.car.mode \in {ModeOf[m], "Stop"}
             /\ r.says \in Statuses \cup {"none"}
             /\ ModeOf[m] \in c.done => r.car.mode = "Stop" /\ ModeOf[m] \in r.car.done
<1> DEFINE g == ModeOf[m]
<1>0. g \in Modes
  BY ModeOfType
<1>1. CASE g \notin Manoeuvres
  <2> DEFINE idle == [Forget(c) EXCEPT !.mode = g, !.latched = @ /\ m = "follow"]
  <2>1. /\ idle \in Cars /\ idle.mode = g /\ idle.done = {} /\ idle.posed = c.posed
        /\ idle.latched => m = "follow"
        /\ ~c.posed => \A h \in Measured : idle.from[h] = "none"
    BY <1>0 DEF Good, Forget, Cars
  <2>2. m = "follow" => g = "Follow"
    BY DEF ModeOf
  <2>3. g \notin Measured /\ c.done \subseteq Manoeuvres
    BY <1>1 DEF Measured, Turns, Manoeuvres, Good, Cars
  <2>4. SetMode(c, m).car = Aged(idle) /\ SetMode(c, m).says = "none"
    BY <1>1 DEF SetMode, Reply
  <2> HIDE DEF idle, g
  <2>5. Good(Aged(idle)) /\ Aged(idle).mode = g
    BY <2>1, <2>2, <2>3, AgedType DEF Good
  <2> QED
    BY <1>1, <2>3, <2>4, <2>5 DEF g
<1>2. CASE g \in Manoeuvres /\ g \in c.done
  <2>1. /\ AlreadyDone(c, g) \in Cars /\ AlreadyDone(c, g).mode = "Stop"
        /\ AlreadyDone(c, g).done = c.done /\ AlreadyDone(c, g).posed = c.posed
        /\ AlreadyDone(c, g).latched = c.latched
        /\ ~c.posed => \A h \in Measured : AlreadyDone(c, g).from[h] = "none"
    BY DEF Good, AlreadyDone, Cars, Modes
  <2>2. SetMode(c, m).car = Aged(AlreadyDone(c, g)) /\ SetMode(c, m).says = "none"
    BY <1>2 DEF SetMode, Reply
  <2> HIDE DEF g
  <2>3. Good(Aged(AlreadyDone(c, g)))
    <3>1. "Stop" \notin c.done /\ "Stop" \notin Measured
      BY DEF Good, Cars, Manoeuvres, Measured, Turns
    <3>2. ~c.latched
      BY <1>2 DEF Good
    <3> QED
      BY <2>1, <3>1, <3>2, AgedType DEF Good
  <2> QED
    BY <1>2, <2>1, <2>2, <2>3, AgedType DEF g
<1>3. CASE g \in Manoeuvres /\ g \notin c.done /\ UnderWay(c, g)
  <2>1. SetMode(c, m).car = c /\ SetMode(c, m).says = "none"
    BY <1>3 DEF SetMode, Reply
  <2> QED
    BY <1>3, <2>1 DEF UnderWay
<1>4. CASE g \in Manoeuvres /\ g \notin c.done /\ ~UnderWay(c, g)
  <2>1. SetMode(c, m).car = Aged(Begin(c, g)) /\ SetMode(c, m).says = StartStatus[g]
    BY <1>4 DEF SetMode, Reply
  <2> QED
    BY <1>4, <2>1, BeginGood DEF Statuses
<1> QED
  BY <1>1, <1>2, <1>3, <1>4
-----------------------------------------------------------------------------
\* A manoeuvre that reaches its target leaves a good car that stands, with the flag.
LEMMA FinishGood ==
  ASSUME NEW c, Good(c), NEW g \in Manoeuvres, c.mode = g
  PROVE  /\ Good(Finish(c, g)) /\ Finish(c, g).mode = "Stop"
         /\ g # "AlignBStopYaw" => Finish(c, g).done = c.done \cup {g}
<1>1. /\ "Stop" \notin Manoeuvres /\ "Stop" \notin Measured /\ "Stop" \in Modes
      /\ ~c.latched
  BY DEF Manoeuvres, Measured, Turns, Modes, Good
<1>2. c.done \cup {g} \in SUBSET Manoeuvres /\ c.done \in SUBSET Manoeuvres
  BY DEF Good, Cars
<1>3. /\ Finish(c, g).mode = "Stop"
      /\ Finish(c, g).done = IF g = "AlignBStopYaw" THEN c.done ELSE c.done \cup {g}
      /\ Finish(c, g).latched = c.latched /\ Finish(c, g).posed = c.posed
      /\ ~c.posed => \A h \in Measured : Finish(c, g).from[h] = "none"
  BY DEF Good, Finish, Cars
<1>4. Finish(c, g) \in Cars
  BY <1>1, <1>2 DEF Good, Finish, Cars
<1> QED
  BY <1>1, <1>2, <1>3, <1>4 DEF Good

\* A manoeuvre that takes its reference late takes a reference of its own.
LEMMA AimedGood ==
  ASSUME NEW c, Good(c)
  PROVE  Good(Aimed(c)) /\ Aimed(c).mode = c.mode /\ Aimed(c).done = c.done
BY DEF Aimed, Mark, Good, Cars

\* A control step changes a good car only by ending the manoeuvre under way, which
\* is the only end it reports.
LEMMA ControlStepGood ==
  ASSUME NEW c, Good(c), NEW how \in Circumstances
  PROVE  LET r == ControlStep(c, how)
         IN  /\ Good(r.car)
             /\ \/ r.car.mode = c.mode /\ r.car.done = c.done /\ r.says = "none"
                \/ /\ c.mode \in Manoeuvres /\ r.car.mode = "Stop"
                   /\ r.says = EndStatus[c.mode]
                   /\ c.mode # "AlignBStopYaw" => r.car.done = c.done \cup {c.mode}
<1> DEFINE r == ControlStep(c, how)
           waits == \/ c.mode = "Stop" \/ Blind(c, how)
                    \/ c.mode \in {"Follow", "TurnPrepareLeft"} /\ how.delayed
<1>1. CASE waits
  BY <1>1 DEF ControlStep, Reply
<1>2. CASE ~waits /\ ~c.ready
  BY <1>2, AimedGood DEF ControlStep, Reply
<1>3. CASE ~waits /\ c.ready /\ c.mode \in Manoeuvres /\ AtTarget(c, how)
  BY <1>3, FinishGood DEF ControlStep, Reply
<1>4. CASE ~waits /\ c.ready /\ c.mode \in Manoeuvres /\ ~AtTarget(c, how)
  BY <1>4, AimedGood DEF ControlStep, Reply
<1>5. CASE ~waits /\ c.ready /\ c.mode \notin Manoeuvres
  <2> DEFINE latched == BProfile /\ c.mode = "Follow" /\ (c.latched \/ how.straight)
             d == [c EXCEPT !.latched = latched]
  <2>1. latched \in BOOLEAN
    OBVIOUS
  <2>2. latched => c.mode = "Follow"
    OBVIOUS
  <2>3. r.car = d /\ r.says = "none"
    BY <1>5 DEF ControlStep, Reply
  <2> HIDE DEF latched, r, waits
  <2>4. /\ d \in Cars /\ d.mode = c.mode /\ d.done = c.done /\ d.from = c.from
        /\ d.posed = c.posed /\ d.latched = latched
    BY <2>1 DEF Good, Cars
  <2> HIDE DEF d
  <2>5. Good(d)
    BY <2>2, <2>4 DEF Good
  <2> QED
    BY <2>3, <2>4, <2>5 DEF r
<1> QED
  BY <1>1, <1>2, <1>3, <1>4, <1>5

\* The write of a wheel command, the odometry and the reopened port touch nothing
\* that a good car is good by.
LEMMA OthersGood ==
  ASSUME NEW c, Good(c), NEW sends, NEW works \in BOOLEAN, NEW ticks \in BOOLEAN
  PROVE  /\ Good(Sent(c, sends, works))
         /\ Sent(c, sends, works).mode = c.mode /\ Sent(c, sends, works).done = c.done
         /\ Good(Odometry(c, ticks))
         /\ Odometry(c, ticks).mode = c.mode /\ Odometry(c, ticks).done = c.done
         /\ Good(Reopened(c))
         /\ Reopened(c).mode = c.mode /\ Reopened(c).done = c.done
         /\ Good([c EXCEPT !.link = FALSE])
<1>1. /\ Good(Sent(c, sends, works))
      /\ Sent(c, sends, works).mode = c.mode /\ Sent(c, sends, works).done = c.done
  BY DEF Good, Sent, Cars
<1>2. /\ Good(Odometry(c, ticks))
      /\ Odometry(c, ticks).mode = c.mode /\ Odometry(c, ticks).done = c.done
  BY DEF Good, Odometry, Cars
<1>3. /\ Good(Reopened(c))
      /\ Reopened(c).mode = c.mode /\ Reopened(c).done = c.done
  BY DEF Good, Reopened, Cars
<1>4. Good([c EXCEPT !.link = FALSE])
  BY DEF Good, Cars
<1> QED
  BY <1>1, <1>2, <1>3, <1>4
-----------------------------------------------------------------------------
\* The first states satisfy the inductive invariant.
LEMMA NodeInitIInv == NodeInit => NodeIInv
<1> SUFFICES ASSUME NodeInit PROVE NodeIInv
  OBVIOUS
<1>1. PICK mode \in {"Stop", "Follow"}, link \in BOOLEAN :
        node = [NewCar EXCEPT !.mode = mode, !.link = link]
  BY DEF NodeInit
<1>2. mode \in Modes /\ mode \notin Manoeuvres /\ mode \notin Measured
  BY DEF Modes, Manoeuvres, Measured, Turns
<1>3. Good(node) /\ node.mode \notin Manoeuvres
  BY <1>1, <1>2 DEF NewCar, Good, Cars
<1>4. "stop" \in Commands
  BY DEF Commands, ModeOf
<1> QED
  BY <1>3, <1>4 DEF NodeInit, NodeIInv, NodeTypeOK, Good, Obeys, RepeatedOnce

\* A mode message preserves it.
LEMMA CommandIInv ==
  ASSUME NodeIInv, NEW m \in Commands, Command(m)
  PROVE  NodeIInv'
<1> DEFINE r == SetMode(node, m)
<1>1. Good(node) /\ node \in Cars
  BY DEF NodeIInv, Good
<1>2. /\ Good(r.car)
      /\ r.car.mode \in {ModeOf[m], "Stop"}
      /\ r.says \in Statuses \cup {"none"}
      /\ ModeOf[m] \in node.done => r.car.mode = "Stop" /\ ModeOf[m] \in r.car.done
  BY <1>1, SetModeGood
<1>3. PICK works \in BOOLEAN : Answer(r, works)
  BY DEF Command
<1> HIDE DEF r
<1>4. Good(node') /\ node'.mode = r.car.mode /\ node'.done = r.car.done
  BY <1>2, <1>3, OthersGood DEF Answer
<1>5. NodeTypeOK'
  BY <1>2, <1>3, <1>4 DEF Answer, Command, NodeIInv, NodeTypeOK, Good
<1>6. "Stop" \notin Manoeuvres
  BY DEF Manoeuvres
<1>7. Obeys'
  BY <1>2, <1>4, <1>6 DEF Command, NodeIInv, Obeys, NodeTypeOK
<1>8. RepeatedOnce'
  BY DEF Command, NodeIInv, RepeatedOnce
<1> QED
  BY <1>4, <1>5, <1>7, <1>8 DEF NodeIInv

\* A control step preserves it.
LEMMA ControlIInv ==
  ASSUME NodeIInv, NEW how \in Circumstances, NEW works \in BOOLEAN, Controlled(how, works)
  PROVE  NodeIInv'
<1> DEFINE r == ControlStep(node, how)
<1>1. Good(node) /\ node \in Cars
  BY DEF NodeIInv, Good
<1>2. /\ Good(r.car)
      /\ \/ r.car.mode = node.mode /\ r.car.done = node.done /\ r.says = "none"
         \/ /\ node.mode \in Manoeuvres /\ r.car.mode = "Stop"
            /\ r.says = EndStatus[node.mode]
            /\ node.mode # "AlignBStopYaw" => node.mode \in r.car.done
  BY <1>1, ControlStepGood
<1>3. /\ Answer(r, works) /\ asked' = asked
      /\ told' = IF r.says = "none" \/ told = 2 THEN told ELSE told + 1
  BY DEF Controlled
<1> HIDE DEF r
<1>4. Good(node') /\ node'.mode = r.car.mode /\ node'.done = r.car.done
  BY <1>2, <1>3, OthersGood DEF Answer
<1>5. NodeTypeOK'
  <2>1. r.says \in Statuses \cup {"none"}
    BY <1>2 DEF Statuses
  <2> QED
    BY <1>3, <1>4, <2>1 DEF Answer, NodeIInv, NodeTypeOK, Good
<1>6. "Stop" \notin Manoeuvres
  BY DEF Manoeuvres
<1>7. Obeys'
  <2>1. CASE r.says = "none" /\ r.car.mode = node.mode /\ r.car.done = node.done
    BY <1>3, <1>4, <2>1 DEF NodeIInv, Obeys, NodeTypeOK
  <2>2. CASE /\ node.mode \in Manoeuvres /\ r.car.mode = "Stop"
             /\ node.mode # "AlignBStopYaw" => node.mode \in r.car.done
    <3>1. node.mode = ModeOf[asked] /\ asked \in Commands
      BY <2>2 DEF NodeIInv, Obeys, NodeTypeOK
    <3>2. asked # "align_b_stop_yaw" => node.mode # "AlignBStopYaw"
      BY <3>1, ModeOfType
    <3> QED
      BY <1>3, <1>4, <1>6, <2>2, <3>1, <3>2 DEF Obeys
  <2> QED
    BY <1>2, <2>1, <2>2
<1>8. RepeatedOnce'
  <2> SUFFICES ASSUME asked' # "align_b_stop_yaw" PROVE told' <= 1
    BY DEF RepeatedOnce
  <2>1. told \in 0..2 /\ told <= 1 /\ asked # "align_b_stop_yaw"
    BY <1>3 DEF NodeIInv, NodeTypeOK, RepeatedOnce
  <2>2. CASE told = 0
    BY <1>3, <2>2
  <2>3. CASE told = 1
    <3>1. node.mode = "Stop"
      BY <2>1, <2>3 DEF NodeIInv, Obeys
    <3>2. r.says = "none"
      BY <1>2, <1>6, <3>1
    <3> QED
      BY <1>3, <2>3, <3>2
  <2> QED
    BY <2>1, <2>2, <2>3
<1> QED
  BY <1>4, <1>5, <1>7, <1>8 DEF NodeIInv

\* Every step preserves it.
LEMMA NodeNextIInv == NodeIInv /\ [NodeNext]_nodeVars => NodeIInv'
<1> SUFFICES ASSUME NodeIInv, [NodeNext]_nodeVars PROVE NodeIInv'
  OBVIOUS
<1>0. Good(node)
  BY DEF NodeIInv
<1>1. ASSUME NEW m \in Commands, Command(m) PROVE NodeIInv'
  BY <1>1, CommandIInv
<1>2. CASE Control
  BY <1>2, ControlIInv DEF Control
<1>3. CASE Odometer
  <2>1. PICK ticks \in BOOLEAN : node' = Odometry(node, ticks)
    BY <1>3 DEF Odometer
  <2>2. Good(node') /\ node'.mode = node.mode /\ node'.done = node.done
    BY <1>0, <2>1, OthersGood
  <2> QED
    BY <1>3, <2>2 DEF Odometer, NodeIInv, NodeTypeOK, Obeys, RepeatedOnce, Good
<1>4. CASE LoseSerial
  <2>1. Good(node')
    BY <1>0, <1>4, OthersGood DEF LoseSerial
  <2>2. node'.mode = node.mode /\ node'.done = node.done
    BY <1>0, <1>4 DEF LoseSerial, Good, Cars
  <2> QED
    BY <1>4, <2>1, <2>2 DEF LoseSerial, NodeIInv, NodeTypeOK, Obeys, RepeatedOnce, Good
<1>5. CASE Reopen
  <2>1. Good(node') /\ node'.mode = node.mode /\ node'.done = node.done
    BY <1>0, <1>5, OthersGood DEF Reopen
  <2> QED
    BY <1>5, <2>1 DEF Reopen, NodeIInv, NodeTypeOK, Obeys, RepeatedOnce, Good
<1>6. CASE UNCHANGED nodeVars
  BY <1>6 DEF nodeVars, NodeIInv, NodeTypeOK, Obeys, RepeatedOnce, Good
<1> QED
  BY <1>1, <1>2, <1>3, <1>4, <1>5, <1>6 DEF NodeNext

\* The invariant holds in every reachable state.
LEMMA NodeInvariance == NodeSpec => []NodeIInv
BY NodeInitIInv, NodeNextIInv, PTL DEF NodeSpec
-----------------------------------------------------------------------------
\* The variables keep their types, and no manoeuvre under way counts as completed.
THEOREM NodeTypeCorrect == NodeSpec => []NodeTypeOK
<1>1. NodeIInv => NodeTypeOK
  BY DEF NodeIInv
<1> QED
  BY <1>1, NodeInvariance, PTL

\* No manoeuvre is measured from where an earlier one began.
THEOREM OwnTarget == NodeSpec => []NoStaleTarget
<1>1. NodeIInv => NoStaleTarget
  BY DEF NodeIInv, Good, NoStaleTarget
<1> QED
  BY <1>1, NodeInvariance, PTL

\* A message, however often repeated, has its manoeuvre carried out once: after the
\* first report the car stands, and only a car that does not stand reports.
THEOREM ReportedOnce == NodeSpec => []RepeatedOnce
<1>1. NodeIInv => RepeatedOnce
  BY DEF NodeIInv
<1> QED
  BY <1>1, NodeInvariance, PTL

\* The straight latch is set only while the car follows.
THEOREM LatchFollows == NodeSpec => []LatchOnlyFollowing
<1>1. NodeIInv => LatchOnlyFollowing
  BY DEF NodeIInv, Good, LatchOnlyFollowing
<1> QED
  BY <1>1, NodeInvariance, PTL
-----------------------------------------------------------------------------
(* The car and the mission *)

\* Every unread mode message is of these kinds.
Only(kinds) == \A i \in 1..Len(modes) : modes[i] \in kinds

\* The last message on its way is the last mode that was published; with none on
\* its way, a car that was last told to stop stands.
Channel ==
  /\ modes # <<>> => modes[Len(modes)] = leader.lastMode
  /\ modes = <<>> /\ leader.lastMode = "stop" => car.mode = "Stop"

\* What run() has told the car when it comes to a place.
LastModeAt(place) ==
  CASE place = "start" -> "none"
    [] place \in {"drive", "pause"} -> IF leader.stopSent THEN "stop" ELSE "follow"
    [] place = "awaitTurn" -> "turn_ccw_90"
    [] place = "awaitForward" -> "drive_forward_2cm"
    [] OTHER -> "stop"

LeaderInv ==
  /\ leader.lastMode = LastModeAt(pc)
  /\ leader.parking <=> pc = "charger"
  /\ leader.monitoring => pc = "drive"
  /\ pc \in {"charger", "ended"} => ~leader.detecting

\* The stages of the car, with what it has completed since it heard of the mission.
CarIs(m, d, t, a) ==
  car.mode \in m /\ car.done = d /\ turned = t /\ advanced = a

Waits == CarIs({"Follow", "Stop"}, {}, 0, 0)
Turning == CarIs({"TurnCcw90"}, {}, 0, 0)
Turned == CarIs({"Stop"}, {"TurnCcw90"}, 1, 0)
Advancing == CarIs({"DriveForward2cm"}, {"TurnCcw90"}, 1, 0)
Advanced == CarIs({"Stop"}, {"TurnCcw90", "DriveForward2cm"}, 1, 1)

\* No status is known or on its way.
Quiet == statuses = <<>> /\ leader.status = "none"

\* The statuses known or on their way are about manoeuvre g, and its end, once it
\* has ended, is the last of them.
Reports(g, ended) ==
  /\ \A i \in 1..Len(statuses) :
       \/ statuses[i] = StartStatus[g]
       \/ statuses[i] = EndStatus[g] /\ i = Len(statuses) /\ ended
  /\ leader.status \in {"none", StartStatus[g], EndStatus[g]}
  /\ leader.status = EndStatus[g] => ended /\ statuses = <<>>

\* Places before the handshake, and after it.
Together == {"drive", "pause", "settle", "search", "approach", "align"}
Apart == {"aboutFace", "backUp", "handOver", "hold"}

TurnAsked ==
  \/ /\ modes # <<>> /\ Waits /\ Quiet
     /\ Len(modes) = 2 => modes[1] = "stop"
  \/ modes = <<>> /\ Turning /\ Reports("TurnCcw90", FALSE)
  \/ modes = <<>> /\ Turned /\ Reports("TurnCcw90", TRUE)

ForwardAsked ==
  /\ Only({"drive_forward_2cm"})
  /\ \/ Turned /\ Quiet
     \/ Advancing /\ Reports("DriveForward2cm", FALSE)
     \/ Advanced /\ Reports("DriveForward2cm", TRUE)

\* A late request for the drive forward meets a car that has it behind it.
HandedOver ==
  /\ car.mode = "Stop" /\ turned = 1 /\ advanced = 1
  /\ Len(modes) = 2 =>
       \/ modes[1] = "stop"
       \/ modes[1] = "drive_forward_2cm" /\ "DriveForward2cm" \in car.done

\* What the mission may take for granted of the car where it is.
CarInv ==
  /\ ~heard => turned = 0 /\ advanced = 0
  /\ pc = "start" => ~heard /\ modes = <<>>
  /\ pc \notin {"start", "drive", "idle", "charger", "ended"} => heard
  /\ pc \in Together => Only({"follow", "stop"}) /\ (heard => Waits)
  /\ pc \in {"search", "approach", "align"} => statuses = <<>>
  /\ pc = "awaitTurn" => TurnAsked
  /\ pc = "awaitForward" => ForwardAsked
  /\ pc \in Apart => HandedOver

\* The inductive invariant.  What the mission concludes from a status is true of
\* the car only because of what cannot be on its way at that place any more.
IInv == TypeOK /\ Good(car) /\ Channel /\ LeaderInv /\ CarInv
-----------------------------------------------------------------------------
\* What a mission's message makes of a good car, and what the car says to it.
LEMMA SetModeDoes ==
  ASSUME NEW c, Good(c), NEW m \in MissionModes
  PROVE  LET r == SetMode(c, m)
             g == ModeOf[m]
         IN  /\ m \in Commands
             /\ g \notin Manoeuvres =>
                  r.car.mode = g /\ r.car.done = {} /\ r.says = "none"
             /\ g \in Manoeuvres /\ g \in c.done =>
                  r.car.mode = "Stop" /\ r.car.done = c.done /\ r.says = "none"
             /\ g \in Manoeuvres /\ g \notin c.done =>
                  /\ r.car.mode = g
                  /\ r.car.done = c.done \/ (g \in Turns /\ r.car.done = c.done \ {"DriveForward2cm"})
                  /\ r.says = StartStatus[g] \/ (c.mode = g /\ r.says = "none")
<1> DEFINE g == ModeOf[m] r == SetMode(c, m)
<1>0. m \in Commands /\ g \in Modes /\ c \in Cars
  BY ModeOfType DEF MissionModes, Commands, ModeOf, Good
<1>1. CASE g \notin Manoeuvres
  <2> DEFINE idle == [Forget(c) EXCEPT !.mode = g, !.latched = @ /\ m = "follow"]
  <2>1. idle \in Cars /\ idle.mode = g /\ idle.done = {}
    BY <1>0 DEF Forget, Cars
  <2>2. r.car = Aged(idle) /\ r.says = "none"
    BY <1>1 DEF SetMode, Reply
  <2> HIDE DEF idle, g, r
  <2>3. r.car.mode = g /\ r.car.done = {}
    BY <2>1, <2>2, AgedType
  <2> QED
    BY <1>0, <1>1, <2>2, <2>3 DEF g, r
<1>2. CASE g \in Manoeuvres /\ g \in c.done
  <2>1. /\ AlreadyDone(c, g) \in Cars /\ AlreadyDone(c, g).mode = "Stop"
        /\ AlreadyDone(c, g).done = c.done
    BY <1>0 DEF AlreadyDone, Cars, Modes
  <2>2. r.car = Aged(AlreadyDone(c, g)) /\ r.says = "none"
    BY <1>2 DEF SetMode, Reply
  <2> HIDE DEF g, r
  <2>3. r.car.mode = "Stop" /\ r.car.done = c.done
    BY <2>1, <2>2, AgedType
  <2> QED
    BY <1>0, <1>2, <2>2, <2>3 DEF g, r
<1>3. CASE g \in Manoeuvres /\ g \notin c.done /\ UnderWay(c, g)
  <2>1. r.car = c /\ r.says = "none" /\ c.mode = g
    BY <1>3 DEF SetMode, Reply, UnderWay
  <2> QED
    BY <1>0, <1>3, <2>1
<1>4. CASE g \in Manoeuvres /\ g \notin c.done /\ ~UnderWay(c, g)
  <2>1. r.car = Aged(Begin(c, g)) /\ r.says = StartStatus[g]
    BY <1>4 DEF SetMode, Reply
  <2> HIDE DEF g, r
  <2>2. /\ Begin(c, g) \in Cars
        /\ \/ Begin(c, g).done = c.done
           \/ g \in Turns /\ Begin(c, g).done = c.done \ {"DriveForward2cm"}
    BY <1>0, <1>4, BeginType
  <2>3. r.car.mode = g /\ r.car.done = Begin(c, g).done
    BY <1>4, <2>1, <2>2, AgedType, BeginGood
  <2> QED
    BY <1>0, <1>4, <2>1, <2>2, <2>3 DEF g, r
<1> QED
  BY <1>1, <1>2, <1>3, <1>4

\* The statuses are distinct, so that one of them says one thing.
LEMMA StatusValues ==
  /\ StartStatus["TurnCcw90"] = "turn_ccw_90_started"
  /\ EndStatus["TurnCcw90"] = "turn_ccw_90_done"
  /\ StartStatus["DriveForward2cm"] = "drive_forward_2cm_started"
  /\ EndStatus["DriveForward2cm"] = "drive_forward_2cm_done"
  /\ \A g \in Manoeuvres : StartStatus[g] \in Statuses /\ EndStatus[g] \in Statuses
  /\ ModeOf["follow"] = "Follow" /\ ModeOf["stop"] = "Stop"
  /\ ModeOf["turn_ccw_90"] = "TurnCcw90"
  /\ ModeOf["drive_forward_2cm"] = "DriveForward2cm"
  /\ "TurnCcw90" \in Manoeuvres /\ "DriveForward2cm" \in Manoeuvres
  /\ "Follow" \notin Manoeuvres /\ "Stop" \notin Manoeuvres
BY DEF StartStatus, EndStatus, Statuses, ModeOf, Manoeuvres

\* A message sent is the last one on its way, behind at most the one before it.
LEMMA SendsType ==
  ASSUME modes \in Seq(MissionModes), NEW m \in MissionModes, Sends(m)
  PROVE  /\ modes' \in Seq(MissionModes) /\ modes' # <<>>
         /\ Len(modes') \in {1, 2} /\ modes'[Len(modes')] = m
         /\ Len(modes') = 2 => modes # <<>> /\ modes'[1] = modes[Len(modes)]
<1>1. CASE modes' = <<m>>
  BY <1>1
<1>2. CASE modes # <<>> /\ modes' = <<modes[Len(modes)], m>>
  <2> DEFINE l == modes[Len(modes)]
  <2>1. l \in MissionModes
    BY <1>2
  <2> HIDE DEF l
  <2>2. modes' = <<l, m>> /\ modes # <<>>
    BY <1>2 DEF l
  <2>3. modes' \in Seq(MissionModes) /\ Len(modes') = 2 /\ modes'[1] = l /\ modes'[2] = m
    BY <2>1, <2>2
  <2> QED
    BY <2>2, <2>3 DEF l
<1> QED
  BY <1>1, <1>2 DEF Sends

\* Kinds of messages on their way stay so when one of the kind is sent.
LEMMA SendsOnly ==
  ASSUME modes \in Seq(MissionModes), NEW m \in MissionModes, Sends(m),
         NEW kinds, Only(kinds), m \in kinds
  PROVE  Only(kinds)'
<1>1. /\ modes' \in Seq(MissionModes) /\ Len(modes') \in {1, 2}
      /\ modes'[Len(modes')] = m
      /\ Len(modes') = 2 => modes # <<>> /\ modes'[1] = modes[Len(modes)]
  BY SendsType
<1>2. modes # <<>> => modes[Len(modes)] \in kinds
  BY DEF Only
<1> QED
  BY <1>1, <1>2 DEF Only

\* Where the two publications leave the mission.
LEMMA PublishType ==
  ASSUME modes \in Seq(MissionModes), Len(modes) <= 2,
         NEW l \in Leaders, NEW m \in MissionModes, Publish(l, m) \/ (m = "stop" /\ ForceStop(l))
  PROVE  /\ leader' \in Leaders /\ leader'.lastMode = m
         /\ leader'.monitoring = l.monitoring /\ leader'.stopSent = l.stopSent
         /\ leader'.requested = l.requested /\ leader'.parking = l.parking
         /\ leader'.detecting = l.detecting
         /\ \/ m = l.lastMode /\ modes' = modes /\ leader' = l
            \/ Sends(m)
         /\ m # l.lastMode => Sends(m)
         /\ m # l.lastMode /\ m \in {"turn_ccw_90", "drive_forward_2cm"}
              => leader'.status = "none"
         /\ modes' \in Seq(MissionModes) /\ Len(modes') <= 2
<1>1. /\ leader' \in Leaders /\ leader'.lastMode = m
      /\ leader'.monitoring = l.monitoring /\ leader'.stopSent = l.stopSent
      /\ leader'.requested = l.requested /\ leader'.parking = l.parking
      /\ leader'.detecting = l.detecting
  BY DEF Publish, ForceStop, Leaders, MissionModes
<1>2. /\ \/ m = l.lastMode /\ modes' = modes /\ leader' = l
         \/ Sends(m)
      /\ m # l.lastMode => Sends(m)
  BY DEF Publish, ForceStop
<1>3. m # l.lastMode /\ m \in {"turn_ccw_90", "drive_forward_2cm"}
        => leader'.status = "none"
  BY DEF Publish, Leaders
<1>4. modes' \in Seq(MissionModes) /\ Len(modes') <= 2
  <2>1. CASE modes' = modes
    BY <2>1
  <2>2. CASE Sends(m)
    BY <2>2, SendsType
  <2> QED
    BY <1>2, <2>1, <2>2
<1> QED
  BY <1>1, <1>2, <1>3, <1>4

\* The queue keeps a new status, behind those that were there.
LEMMA QueuedType ==
  ASSUME statuses \in Seq(Statuses), Len(statuses) <= StatusDepth, NEW s \in Statuses
  PROVE  /\ Queued(s) \in Seq(Statuses)
         /\ Len(Queued(s)) \in 1..StatusDepth
         /\ Queued(s)[Len(Queued(s))] = s
         /\ \A i \in 1..Len(Queued(s)) :
              i < Len(Queued(s)) => \E j \in 1..Len(statuses) : Queued(s)[i] = statuses[j]
<1> DEFINE q == Append(statuses, s)
<1>0. StatusDepth \in Nat /\ StatusDepth >= 1
  BY ConvoyAssumption
<1>1. /\ q \in Seq(Statuses) /\ Len(q) = Len(statuses) + 1 /\ q[Len(q)] = s
      /\ \A i \in 1..Len(statuses) : q[i] = statuses[i]
  OBVIOUS
<1> HIDE DEF q
<1>2. CASE Len(q) > StatusDepth
  <2>1. Queued(s) = Tail(q) /\ Len(q) = StatusDepth + 1 /\ q # <<>>
    BY <1>0, <1>1, <1>2 DEF Queued, q
  <2>2. /\ Tail(q) \in Seq(Statuses) /\ Len(Tail(q)) = StatusDepth
        /\ \A i \in 1..StatusDepth : Tail(q)[i] = q[i + 1]
    BY <1>0, <1>1, <2>1
  <2>3. \A i \in 1..StatusDepth : i < StatusDepth => i + 1 \in 1..Len(statuses)
    BY <1>0, <1>1, <2>1
  <2> QED
    BY <1>0, <1>1, <2>1, <2>2, <2>3
<1>3. CASE ~(Len(q) > StatusDepth)
  <2>1. Queued(s) = q
    BY <1>3 DEF Queued, q
  <2> QED
    BY <1>0, <1>1, <1>3, <2>1
<1> QED
  BY <1>2, <1>3

\* A handler's reply is a good car, and its status is queued and counted.
LEMMA CarAnswersType ==
  ASSUME TypeOK, NEW r, Good(r.car), r.says \in Statuses \cup {"none"}, CarAnswers(r)
  PROVE  /\ Good(car') /\ car'.mode = r.car.mode /\ car'.done = r.car.done
         /\ failures' \in 0..MaxFailures
         /\ statuses' \in Seq(Statuses) /\ Len(statuses') <= StatusDepth
         /\ r.says = "none" => statuses' = statuses
         /\ r.says # "none" => statuses' = Queued(r.says)
         /\ turned' \in 0..2 /\ advanced' \in 0..2
         /\ turned' = IF heard /\ r.says = "turn_ccw_90_done" /\ turned < 2
                      THEN turned + 1 ELSE turned
         /\ advanced' = IF heard /\ r.says = "drive_forward_2cm_done" /\ advanced < 2
                        THEN advanced + 1 ELSE advanced
<1>1. PICK works \in BOOLEAN : car' = Sent(r.car, r.sends, works)
  BY DEF CarAnswers
<1>2. Good(car') /\ car'.mode = r.car.mode /\ car'.done = r.car.done
  <2> DEFINE c == r.car sends == r.sends
  <2> HIDE DEF c, sends
  <2>1. car' = Sent(c, sends, works) /\ Good(c)
    BY <1>1 DEF c, sends
  <2>2. Good(car') /\ car'.mode = c.mode /\ car'.done = c.done
    BY <2>1, OthersGood
  <2> QED
    BY <2>2 DEF c
<1>7. failures' \in 0..MaxFailures
  <2>1. \/ failures' = failures
        \/ failures < MaxFailures /\ failures' = failures + 1
    BY DEF CarAnswers
  <2>2. failures \in 0..MaxFailures /\ MaxFailures \in Nat
    BY ConvoyAssumption DEF TypeOK
  <2> QED
    BY <2>1, <2>2
<1>3. /\ r.says = "none" => statuses' = statuses
      /\ r.says # "none" => statuses' = Queued(r.says)
  BY DEF CarAnswers
<1>4. statuses' \in Seq(Statuses) /\ Len(statuses') <= StatusDepth
  BY <1>3, QueuedType, ConvoyAssumption DEF TypeOK
<1>5. /\ turned' = IF heard /\ r.says = "turn_ccw_90_done" /\ turned < 2
                   THEN turned + 1 ELSE turned
      /\ advanced' = IF heard /\ r.says = "drive_forward_2cm_done" /\ advanced < 2
                     THEN advanced + 1 ELSE advanced
  BY StatusValues DEF CarAnswers, Count
<1>6. turned' \in 0..2 /\ advanced' \in 0..2
  BY <1>5 DEF TypeOK
<1> QED
  BY <1>2, <1>3, <1>4, <1>5, <1>6, <1>7

\* Another status of a manoeuvre that had not ended is the last one on its way.
LEMMA ReportsMore ==
  ASSUME TypeOK, NEW g \in Manoeuvres, Reports(g, FALSE), leader' = leader,
         NEW s \in {StartStatus[g], EndStatus[g]}, statuses' = Queued(s),
         NEW ended \in BOOLEAN, s = EndStatus[g] => ended,
         StartStatus[g] # EndStatus[g]
  PROVE  Reports(g, ended)'
<1>1. s \in Statuses
  BY StatusValues
<1>2. /\ Len(statuses') \in 1..StatusDepth /\ statuses'[Len(statuses')] = s
      /\ \A i \in 1..Len(statuses') :
           i < Len(statuses') => \E j \in 1..Len(statuses) : statuses'[i] = statuses[j]
  BY <1>1, QueuedType DEF TypeOK
<1>3. \A j \in 1..Len(statuses) : statuses[j] = StartStatus[g]
  BY DEF Reports
<1>4. ASSUME NEW i \in 1..Len(statuses')
      PROVE  \/ statuses'[i] = StartStatus[g]
             \/ statuses'[i] = EndStatus[g] /\ i = Len(statuses') /\ ended
  <2>1. CASE i < Len(statuses')
    BY <1>2, <1>3, <2>1
  <2>2. CASE i = Len(statuses')
    BY <1>2, <2>2
  <2> QED
    BY <1>2, <2>1, <2>2, ConvoyAssumption
<1> QED
  BY <1>4 DEF Reports

\* With no status known or on its way, there is none of a manoeuvre that did not end.
LEMMA QuietReports ==
  ASSUME Quiet, NEW g \in Manoeuvres, EndStatus[g] # "none"
  PROVE  Reports(g, FALSE)
BY DEF Quiet, Reports

\* A step that leaves the mode and the flags of the car keeps what is said of it.
LEMMA SameCar ==
  ASSUME IInv, car'.mode = car.mode, car'.done = car.done,
         UNCHANGED <<area, pc, leader, modes, statuses, heard, turned, advanced>>
  PROVE  Channel' /\ LeaderInv' /\ CarInv'
<1>1. Channel' /\ LeaderInv'
  BY DEF IInv, Channel, LeaderInv, LastModeAt
<1>2. Waits' = Waits /\ Turned' = Turned /\ Turning' = Turning
  BY DEF Waits, Turned, Turning, CarIs
<1>3. Advancing' = Advancing /\ Advanced' = Advanced
  BY DEF Advancing, Advanced, CarIs
<1>4. CarInv'
  BY <1>2, <1>3 DEF IInv, CarInv, TurnAsked, ForwardAsked, HandedOver, Quiet, Reports, Only
<1> QED
  BY <1>1, <1>4

\* The first of one or two messages, and what it leaves.
LEMMA FirstOfTwo ==
  ASSUME NEW S, NEW q \in Seq(S), q # <<>>, Len(q) <= 2
  PROVE  /\ Len(q) \in {1, 2} /\ Head(q) = q[1] /\ Head(q) \in S
         /\ Tail(q) \in Seq(S)
         /\ Len(q) = 1 => Tail(q) = <<>> /\ Len(Tail(q)) = 0
         /\ Len(q) = 2 => Tail(q) # <<>> /\ Len(Tail(q)) = 1 /\ Tail(q)[1] = q[2]
<1> DEFINE n == Len(q) t == Tail(q)
<1>1. n \in Nat \ {0} /\ Head(q) = q[1] /\ n <= 2
  BY EmptySeq
<1>2. /\ Head(q) \in S /\ t \in Seq(S) /\ Len(t) = n - 1
      /\ \A i \in 1..Len(t) : t[i] = q[i + 1]
  BY HeadTailProperties
<1> HIDE DEF n, t
<1>3. n \in {1, 2}
  BY <1>1
<1>4. ASSUME n = 2 PROVE t # <<>> /\ Len(t) = 1 /\ t[1] = q[2]
  <2>1. Len(t) = 1
    BY <1>2, <1>4
  <2>2. 1 \in 1..Len(t)
    BY <2>1
  <2>3. t[1] = q[1 + 1]
    BY <1>2, <2>2
  <2>4. t # <<>>
    <3>1. Len(<<>>) # 1
      OBVIOUS
    <3> QED
      BY <2>1, <3>1, Zenon
  <2> QED
    BY <2>1, <2>3, <2>4
<1>5. n = 1 => t = <<>> /\ Len(t) = 0
  BY <1>2, EmptySeq
<1> QED
  BY <1>1, <1>2, <1>3, <1>4, <1>5 DEF n, t

\* The car reads a mode message.
LEMMA HearsIInv ==
  ASSUME IInv, CarHears
  PROVE  IInv'
<1> DEFINE m == Head(modes) r == SetMode(car, m)
<1>0. /\ modes # <<>> /\ modes' = Tail(modes) /\ CarAnswers(r) /\ heard' = TRUE
      /\ area' = area /\ pc' = pc /\ leader' = leader
  BY DEF CarHears, CarAnswers
<1>1. /\ Len(modes) \in {1, 2} /\ m = modes[1] /\ m \in MissionModes
      /\ modes' \in Seq(MissionModes)
      /\ Len(modes) = 1 => modes' = <<>> /\ Len(modes') = 0
      /\ Len(modes) = 2 => modes' # <<>> /\ Len(modes') = 1 /\ modes'[1] = modes[2]
  BY <1>0, FirstOfTwo DEF IInv, TypeOK
<1>2. modes[Len(modes)] = leader.lastMode
  BY <1>0 DEF IInv, Channel
<1>3. Good(r.car) /\ r.says \in Statuses \cup {"none"}
  BY <1>1, SetModeDoes, SetModeGood DEF IInv
<1> DEFINE g == ModeOf[m]
<1>4. /\ g \notin Manoeuvres => r.car.mode = g /\ r.car.done = {} /\ r.says = "none"
      /\ g \in Manoeuvres /\ g \in car.done =>
           r.car.mode = "Stop" /\ r.car.done = car.done /\ r.says = "none"
      /\ g \in Manoeuvres /\ g \notin car.done =>
           /\ r.car.mode = g
           /\ r.car.done = car.done \/ (g \in Turns /\ r.car.done = car.done \ {"DriveForward2cm"})
           /\ r.says = StartStatus[g] \/ (car.mode = g /\ r.says = "none")
  BY <1>1, SetModeDoes DEF IInv
<1> HIDE DEF r
<1>5. /\ Good(car') /\ car'.mode = r.car.mode /\ car'.done = r.car.done
      /\ failures' \in 0..MaxFailures
      /\ statuses' \in Seq(Statuses) /\ Len(statuses') <= StatusDepth
      /\ r.says = "none" => statuses' = statuses
      /\ r.says # "none" => statuses' = Queued(r.says)
      /\ turned' \in 0..2 /\ advanced' \in 0..2
      /\ turned' = IF heard /\ r.says = "turn_ccw_90_done" /\ turned < 2
                   THEN turned + 1 ELSE turned
      /\ advanced' = IF heard /\ r.says = "drive_forward_2cm_done" /\ advanced < 2
                     THEN advanced + 1 ELSE advanced
  BY <1>0, <1>3, CarAnswersType DEF IInv
<1>6. TypeOK'
  BY <1>0, <1>1, <1>5 DEF IInv, TypeOK, Good
<1> HIDE DEF m
<1>7. Channel'
  <2>1. CASE Len(modes) = 1
    BY <1>0, <1>1, <1>2, <1>4, <1>5, <2>1, StatusValues DEF Channel
  <2>2. CASE Len(modes) = 2
    BY <1>0, <1>1, <1>2, <2>2 DEF Channel
  <2> QED
    BY <1>1, <2>1, <2>2
<1>8. LeaderInv'
  BY <1>0 DEF IInv, LeaderInv, LastModeAt
<1>9. CarInv'
  <2>1. pc # "start" /\ LeaderInv /\ CarInv
    BY <1>0 DEF IInv, CarInv
  <2>2. ASSUME pc \in Together PROVE Only({"follow", "stop"})' /\ Waits'
    <3>1. Only({"follow", "stop"}) /\ turned = 0 /\ advanced = 0
      BY <2>1, <2>2 DEF CarInv, Waits, CarIs
    <3>2. m \in {"follow", "stop"} /\ (Len(modes) = 2 => modes[2] \in {"follow", "stop"})
      BY <1>1, <3>1 DEF Only
    <3>3. Only({"follow", "stop"})'
      BY <1>1, <3>2 DEF Only
    <3>4. car'.mode \in {"Follow", "Stop"} /\ car'.done = {} /\ r.says = "none"
      BY <1>4, <1>5, <3>2, StatusValues
    <3> QED
      BY <1>5, <3>1, <3>3, <3>4 DEF Waits, CarIs
  <2>3. ASSUME pc \in {"search", "approach", "align"} PROVE statuses' = <<>>
    <3>1. Only({"follow", "stop"}) /\ statuses = <<>>
      BY <2>1, <2>3 DEF CarInv, Together
    <3>2. m \in {"follow", "stop"}
      BY <1>1, <3>1 DEF Only
    <3> QED
      BY <1>4, <1>5, <3>1, <3>2, StatusValues
  <2>4. ASSUME pc = "awaitTurn" PROVE TurnAsked'
    <3>1. /\ Waits /\ Quiet /\ leader.lastMode = "turn_ccw_90"
          /\ Len(modes) = 2 => modes[1] = "stop"
      BY <1>0, <2>1, <2>4 DEF CarInv, TurnAsked, LeaderInv, LastModeAt
    <3>2. CASE Len(modes) = 2
      <4>1. car'.mode = "Stop" /\ car'.done = {} /\ r.says = "none"
        BY <1>1, <1>4, <1>5, <3>1, <3>2, StatusValues
      <4>2. Waits' /\ Quiet'
        BY <1>0, <1>5, <3>1, <4>1 DEF Waits, CarIs, Quiet
      <4> QED
        BY <1>1, <3>2, <4>2 DEF TurnAsked
    <3>3. CASE Len(modes) = 1
      <4>1. m = "turn_ccw_90"
        BY <1>1, <1>2, <3>1, <3>3
      <4>2. /\ car'.mode = "TurnCcw90" /\ car'.done = {}
            /\ r.says = StartStatus["TurnCcw90"]
        BY <1>4, <1>5, <3>1, <4>1, StatusValues DEF Waits, CarIs
      <4>3. Turning' /\ statuses' = Queued(StartStatus["TurnCcw90"])
        BY <1>5, <3>1, <4>2, StatusValues DEF Waits, Turning, CarIs
      <4>4. Reports("TurnCcw90", FALSE)'
        BY <1>0, <3>1, <4>3, QuietReports, ReportsMore, StatusValues DEF IInv
      <4> QED
        BY <1>1, <3>3, <4>3, <4>4 DEF TurnAsked
    <3> QED
      BY <1>1, <3>2, <3>3
  <2>5. ASSUME pc = "awaitForward" PROVE ForwardAsked'
    <3>1. ForwardAsked /\ Only({"drive_forward_2cm"})
      BY <2>1, <2>5 DEF CarInv, ForwardAsked
    <3>2. m = "drive_forward_2cm" /\ (Len(modes) = 2 => modes[2] = "drive_forward_2cm")
      BY <1>1, <3>1 DEF Only
    <3>3. Only({"drive_forward_2cm"})'
      BY <1>1, <3>2 DEF Only
    <3>4. "DriveForward2cm" \notin Turns /\ g = "DriveForward2cm" /\ g \in Manoeuvres
      BY <3>2, StatusValues DEF Turns
    <3>5. CASE Turned /\ Quiet
      <4>1. /\ car'.mode = "DriveForward2cm" /\ car'.done = {"TurnCcw90"}
            /\ r.says = StartStatus["DriveForward2cm"]
        BY <1>4, <1>5, <3>4, <3>5 DEF Turned, CarIs
      <4>2. Advancing' /\ statuses' = Queued(StartStatus["DriveForward2cm"])
        BY <1>5, <3>5, <4>1, StatusValues DEF Turned, Advancing, CarIs
      <4>3. Reports("DriveForward2cm", FALSE)'
        BY <1>0, <3>5, <4>2, QuietReports, ReportsMore, StatusValues DEF IInv
      <4> QED
        BY <3>3, <4>2, <4>3 DEF ForwardAsked
    <3>6. CASE Advancing /\ Reports("DriveForward2cm", FALSE)
      <4>1. /\ car'.mode = "DriveForward2cm" /\ car'.done = {"TurnCcw90"}
            /\ r.says \in {"none", StartStatus["DriveForward2cm"]}
        BY <1>4, <1>5, <3>4, <3>6 DEF Advancing, CarIs
      <4>2. Advancing'
        BY <1>5, <3>6, <4>1, StatusValues DEF Advancing, CarIs
      <4>3. Reports("DriveForward2cm", FALSE)'
        <5>1. CASE r.says = "none"
          BY <1>0, <1>5, <3>6, <5>1 DEF Reports
        <5>2. CASE r.says = StartStatus["DriveForward2cm"]
          <6>1. statuses' = Queued(StartStatus["DriveForward2cm"])
            BY <1>5, <5>2, StatusValues
          <6> QED
            BY <1>0, <3>6, <6>1, ReportsMore, StatusValues DEF IInv
        <5> QED
          BY <4>1, <5>1, <5>2
      <4> QED
        BY <3>3, <4>2, <4>3 DEF ForwardAsked
    <3>7. CASE Advanced /\ Reports("DriveForward2cm", TRUE)
      <4>1. /\ car'.mode = "Stop" /\ car'.done = {"TurnCcw90", "DriveForward2cm"}
            /\ r.says = "none"
        BY <1>4, <1>5, <3>4, <3>7 DEF Advanced, CarIs
      <4>2. Advanced'
        BY <1>5, <3>7, <4>1 DEF Advanced, CarIs
      <4>3. Reports("DriveForward2cm", TRUE)'
        BY <1>0, <1>5, <3>7, <4>1 DEF Reports
      <4> QED
        BY <3>3, <4>2, <4>3 DEF ForwardAsked
    <3> QED
      BY <3>1, <3>5, <3>6, <3>7 DEF ForwardAsked
  <2>6. ASSUME pc \in Apart PROVE HandedOver'
    <3>1. HandedOver /\ leader.lastMode = "stop"
      BY <2>1, <2>6 DEF CarInv, LeaderInv, LastModeAt, Apart
    <3>2. m = "stop" \/ (m = "drive_forward_2cm" /\ "DriveForward2cm" \in car.done)
      BY <1>1, <1>2, <3>1 DEF HandedOver
    <3>3. car'.mode = "Stop" /\ r.says = "none"
      BY <1>4, <1>5, <3>2, StatusValues
    <3> QED
      BY <1>1, <1>5, <3>1, <3>3 DEF HandedOver
  <2> QED
    BY <1>0, <2>1, <2>2, <2>3, <2>4, <2>5, <2>6 DEF CarInv
<1> QED
  BY <1>5, <1>6, <1>7, <1>8, <1>9 DEF IInv

\* The car's control step: only a manoeuvre under way changes anything, by its end.
LEMMA ControlsIInv ==
  ASSUME IInv, NEW how \in Circumstances, CarControls(how)
  PROVE  IInv'
<1> DEFINE r == ControlStep(car, how)
<1>0. /\ CarAnswers(r) /\ modes' = modes /\ heard' = heard
      /\ area' = area /\ pc' = pc /\ leader' = leader
  BY DEF CarControls, CarAnswers
<1>1. /\ Good(r.car)
      /\ \/ r.car.mode = car.mode /\ r.car.done = car.done /\ r.says = "none"
         \/ /\ car.mode \in Manoeuvres /\ r.car.mode = "Stop"
            /\ r.says = EndStatus[car.mode]
            /\ car.mode # "AlignBStopYaw" => r.car.done = car.done \cup {car.mode}
  BY ControlStepGood DEF IInv
<1>2. r.says \in Statuses \cup {"none"}
  BY <1>1, StatusValues
<1> HIDE DEF r
<1>3. /\ Good(car') /\ car'.mode = r.car.mode /\ car'.done = r.car.done
      /\ failures' \in 0..MaxFailures
      /\ statuses' \in Seq(Statuses) /\ Len(statuses') <= StatusDepth
      /\ r.says = "none" => statuses' = statuses
      /\ r.says # "none" => statuses' = Queued(r.says)
      /\ turned' \in 0..2 /\ advanced' \in 0..2
      /\ turned' = IF heard /\ r.says = "turn_ccw_90_done" /\ turned < 2
                   THEN turned + 1 ELSE turned
      /\ advanced' = IF heard /\ r.says = "drive_forward_2cm_done" /\ advanced < 2
                     THEN advanced + 1 ELSE advanced
  BY <1>0, <1>1, <1>2, CarAnswersType DEF IInv
<1>4. TypeOK'
  BY <1>0, <1>3 DEF IInv, TypeOK, Good
<1>5. CASE r.car.mode = car.mode /\ r.car.done = car.done /\ r.says = "none"
  BY <1>0, <1>3, <1>4, <1>5, SameCar DEF IInv
<1>6. CASE /\ car.mode \in Manoeuvres /\ r.car.mode = "Stop"
           /\ r.says = EndStatus[car.mode]
           /\ car.mode # "AlignBStopYaw" => r.car.done = car.done \cup {car.mode}
  <2>1. Channel' /\ LeaderInv'
    BY <1>0, <1>3, <1>6 DEF IInv, Channel, LeaderInv, LastModeAt
  <2>2. CarInv /\ ~Waits /\ car.mode # "Stop"
    BY <1>6, StatusValues DEF IInv, Waits, CarIs
  <2>3. ~heard => turned' = 0 /\ advanced' = 0
    BY <1>3, <2>2 DEF CarInv
  <2>4. pc \in Together => ~heard /\ Only({"follow", "stop"})'
    BY <1>0, <2>2 DEF CarInv, Only
  <2>5. ASSUME pc = "awaitTurn" PROVE TurnAsked'
    <3>1. heard /\ modes = <<>> /\ Turning /\ Reports("TurnCcw90", FALSE)
      BY <2>2, <2>5 DEF CarInv, TurnAsked, Turned, CarIs
    <3>2. /\ car.mode = "TurnCcw90" /\ car'.mode = "Stop" /\ car'.done = {"TurnCcw90"}
          /\ turned' = 1 /\ advanced' = 0
          /\ statuses' = Queued(EndStatus["TurnCcw90"])
      BY <1>3, <1>6, <3>1, StatusValues DEF Turning, CarIs
    <3>3. Turned'
      BY <3>2 DEF Turned, CarIs
    <3>4. Reports("TurnCcw90", TRUE)'
      BY <1>0, <3>1, <3>2, ReportsMore, StatusValues DEF IInv
    <3> QED
      BY <1>0, <3>1, <3>3, <3>4 DEF TurnAsked
  <2>6. ASSUME pc = "awaitForward" PROVE ForwardAsked'
    <3>1. heard /\ Advancing /\ Reports("DriveForward2cm", FALSE)
      BY <2>2, <2>6 DEF CarInv, ForwardAsked, Turned, Advanced, CarIs
    <3>2. /\ car.mode = "DriveForward2cm" /\ car'.mode = "Stop"
          /\ car'.done = {"TurnCcw90", "DriveForward2cm"}
          /\ turned' = 1 /\ advanced' = 1
          /\ statuses' = Queued(EndStatus["DriveForward2cm"])
      BY <1>3, <1>6, <3>1, StatusValues DEF Advancing, CarIs
    <3>3. Advanced'
      BY <3>2 DEF Advanced, CarIs
    <3>4. Reports("DriveForward2cm", TRUE)'
      BY <1>0, <3>1, <3>2, ReportsMore, StatusValues DEF IInv
    <3>5. Only({"drive_forward_2cm"})'
      BY <1>0, <2>2, <2>6 DEF CarInv, ForwardAsked, Only
    <3> QED
      BY <3>3, <3>4, <3>5 DEF ForwardAsked
  <2>7. pc \notin Apart
    BY <2>2 DEF CarInv, HandedOver
  <2>8. pc \notin {"search", "approach", "align"}
    BY <2>2, <2>4 DEF CarInv, Together
  <2>9. CarInv'
    BY <1>0, <2>2, <2>3, <2>4, <2>5, <2>6, <2>7, <2>8 DEF CarInv
  <2> QED
    BY <1>3, <1>4, <2>1, <2>9 DEF IInv
<1> QED
  BY <1>1, <1>5, <1>6

\* The encoders speak, or the port opens again.
LEMMA OthersIInv ==
  ASSUME IInv, CarOdometry \/ CarReopens
  PROVE  IInv'
<1>1. Good(car') /\ car'.mode = car.mode /\ car'.done = car.done
  <2>1. CASE CarOdometry
    <3>1. PICK ticks \in BOOLEAN : car' = Odometry(car, ticks)
      BY <2>1 DEF CarOdometry
    <3> QED
      BY <3>1, OthersGood DEF IInv
  <2>2. CASE CarReopens
    BY <2>2, OthersGood DEF CarReopens, IInv
  <2> QED
    BY <2>1, <2>2
<1>2. UNCHANGED <<area, pc, leader, modes, statuses, failures, heard, turned, advanced>>
  BY DEF CarOdometry, CarReopens
<1>3. TypeOK'
  BY <1>1, <1>2 DEF IInv, TypeOK, Good
<1> QED
  BY <1>1, <1>2, <1>3, SameCar DEF IInv
-----------------------------------------------------------------------------
(* Callbacks of the mission *)

\* The mission leaves the car alone, and with it all that is said of the car alone.
LEMMA CarAlone ==
  ASSUME UNCHANGED carVars
  PROVE  /\ Good(car') = Good(car)
         /\ Waits' = Waits /\ Turning' = Turning /\ Turned' = Turned
         /\ Advancing' = Advancing /\ Advanced' = Advanced
BY DEF carVars, Good, Waits, Turning, Turned, Advancing, Advanced, CarIs

\* A status arrives: it is about what the mission waits for.
LEMMA HearStatusIInv ==
  ASSUME IInv, HearStatus
  PROVE  IInv'
<1>1. /\ statuses # <<>> /\ statuses' = Tail(statuses) /\ statuses \in Seq(Statuses)
      /\ leader' = [leader EXCEPT !.status = Head(statuses)] /\ leader \in Leaders
      /\ modes' = modes /\ area' = area /\ pc' = pc /\ UNCHANGED carVars
  BY DEF HearStatus, Callback, IInv, TypeOK
<1>2. /\ Head(statuses) = statuses[1] /\ Head(statuses) \in Statuses
      /\ Tail(statuses) \in Seq(Statuses) /\ Len(Tail(statuses)) = Len(statuses) - 1
      /\ \A i \in 1..Len(Tail(statuses)) : Tail(statuses)[i] = statuses[i + 1]
      /\ Len(statuses) \in Nat \ {0}
  BY <1>1, HeadTailProperties, EmptySeq
<1>3. /\ leader' \in Leaders /\ leader'.status = Head(statuses)
      /\ leader'.lastMode = leader.lastMode /\ leader'.stopSent = leader.stopSent
      /\ leader'.parking = leader.parking /\ leader'.monitoring = leader.monitoring
      /\ leader'.detecting = leader.detecting
  BY <1>1, <1>2 DEF Leaders
<1>4. TypeOK'
  BY <1>1, <1>2, <1>3, ConvoyAssumption DEF IInv, TypeOK, carVars
<1>5. Channel' /\ LeaderInv'
  BY <1>1, <1>3 DEF IInv, Channel, LeaderInv, LastModeAt, carVars
<1>6. ASSUME NEW g \in {"TurnCcw90", "DriveForward2cm"}, NEW ended \in BOOLEAN,
             Reports(g, ended)
      PROVE  Reports(g, ended)'
  <2>1. \A i \in 1..Len(statuses') :
          i + 1 \in 1..Len(statuses) /\ statuses'[i] = statuses[i + 1]
    BY <1>1, <1>2
  <2>2. \A i \in 1..Len(statuses') :
          \/ statuses'[i] = StartStatus[g]
          \/ statuses'[i] = EndStatus[g] /\ i = Len(statuses') /\ ended
    BY <1>1, <1>2, <1>6, <2>1 DEF Reports
  <2>3. \/ statuses[1] = StartStatus[g]
        \/ statuses[1] = EndStatus[g] /\ Len(statuses) = 1 /\ ended
    <3>1. 1 \in 1..Len(statuses)
      BY <1>2
    <3>2. \/ statuses[1] = StartStatus[g]
          \/ statuses[1] = EndStatus[g] /\ 1 = Len(statuses) /\ ended
      BY <1>6, <3>1 DEF Reports
    <3> QED
      BY <3>2
  <2>4. StartStatus[g] # EndStatus[g]
    BY StatusValues
  <2>5. Len(statuses) = 1 => statuses' = <<>>
    <3>1. Len(statuses) = 1 => Len(statuses') = 0 /\ statuses' \in Seq(Statuses)
      BY <1>1, <1>2
    <3> QED
      BY <3>1, EmptySeq
  <2> QED
    BY <1>2, <1>3, <2>2, <2>3, <2>4, <2>5 DEF Reports
<1>7. CarInv'
  BY <1>1, <1>6, CarAlone, StatusValues
     DEF IInv, CarInv, TurnAsked, ForwardAsked, HandedOver, Quiet, Only, carVars
<1> QED
  BY <1>1, <1>4, <1>5, <1>7, CarAlone DEF IInv

\* A step of the mission or its callbacks keeps what its message, if there is one,
\* says of the channel.
LEMMA ChannelStep ==
  ASSUME TypeOK, Channel, car' = car,
         \/ modes' = modes /\ leader'.lastMode = leader.lastMode
         \/ leader'.lastMode \in MissionModes /\ Sends(leader'.lastMode)
  PROVE  Channel'
<1>1. CASE modes' = modes /\ leader'.lastMode = leader.lastMode
  BY <1>1 DEF Channel
<1>2. CASE leader'.lastMode \in MissionModes /\ Sends(leader'.lastMode)
  <2> DEFINE m == leader'.lastMode
  <2>1. modes' # <<>> /\ modes'[Len(modes')] = m
    <3>1. m \in MissionModes /\ Sends(m)
      BY <1>2
    <3> HIDE DEF m
    <3> QED
      BY <3>1, SendsType DEF TypeOK
  <2> QED
    BY <2>1 DEF Channel
<1> QED
  BY <1>1, <1>2

\* A message of the present mode, sent again, is one of the kinds on their way.
LEMMA AgainOnly ==
  ASSUME TypeOK, NEW kinds, Only(kinds), NEW m \in MissionModes, m \in kinds,
         modes' = modes \/ Sends(m)
  PROVE  Only(kinds)'
<1>1. CASE modes' = modes
  BY <1>1 DEF Only
<1>2. CASE Sends(m)
  BY <1>2, SendsOnly DEF TypeOK
<1> QED
  BY <1>1, <1>2

\* The car comes to its stop of the area.
LEMMA CarAtStopIInv ==
  ASSUME IInv, CarAtStop
  PROVE  IInv'
<1> DEFINE l == [leader EXCEPT !.stopSent = TRUE]
<1>1. /\ leader.monitoring /\ ~leader.stopSent /\ Publish(l, "stop")
      /\ statuses' = statuses /\ area' = area /\ pc' = pc /\ UNCHANGED carVars
  BY DEF CarAtStop, Callback
<1>2. /\ pc = "drive" /\ leader.lastMode = "follow" /\ leader \in Leaders
  BY <1>1 DEF IInv, TypeOK, LeaderInv, LastModeAt
<1>3. /\ l \in Leaders /\ l.stopSent = TRUE /\ l.monitoring = leader.monitoring
      /\ l.parking = leader.parking /\ l.detecting = leader.detecting
      /\ l.lastMode = leader.lastMode
  BY <1>2 DEF Leaders
<1> HIDE DEF l
<1>4. "stop" \in MissionModes
  BY DEF MissionModes
<1>5. /\ leader' \in Leaders /\ leader'.lastMode = "stop" /\ leader'.stopSent
      /\ leader'.monitoring /\ leader'.parking = leader.parking
      /\ leader'.detecting = leader.detecting /\ Sends("stop")
      /\ modes' \in Seq(MissionModes) /\ Len(modes') <= 2
  BY <1>1, <1>2, <1>3, <1>4, PublishType DEF IInv, TypeOK
<1>6. TypeOK'
  BY <1>1, <1>5 DEF IInv, TypeOK, carVars
<1>7. Channel'
  BY <1>1, <1>4, <1>5, ChannelStep DEF IInv, carVars
<1>8. LeaderInv'
  BY <1>1, <1>2, <1>5 DEF IInv, LeaderInv, LastModeAt
<1>9. Only({"follow", "stop"})'
  BY <1>2, <1>4, <1>5, AgainOnly DEF IInv, CarInv, Together
<1>10. CarInv'
  BY <1>1, <1>2, <1>9, CarAlone DEF IInv, CarInv, Together, Apart, carVars
<1> QED
  BY <1>1, <1>6, <1>7, <1>8, <1>10, CarAlone DEF IInv

\* A charger request waits in a flag.
LEMMA ChargerCommandIInv ==
  ASSUME IInv, ChargerCommand
  PROVE  IInv'
<1>1. /\ leader' = [leader EXCEPT !.requested = TRUE] /\ leader \in Leaders
      /\ UNCHANGED <<area, pc, modes, statuses>> /\ UNCHANGED carVars
  BY DEF ChargerCommand, Callback, IInv, TypeOK
<1>2. /\ leader' \in Leaders /\ leader'.status = leader.status
      /\ leader'.lastMode = leader.lastMode /\ leader'.stopSent = leader.stopSent
      /\ leader'.parking = leader.parking /\ leader'.monitoring = leader.monitoring
      /\ leader'.detecting = leader.detecting
  BY <1>1 DEF Leaders
<1>3. TypeOK' /\ Channel' /\ LeaderInv'
  BY <1>1, <1>2 DEF IInv, TypeOK, Channel, LeaderInv, LastModeAt, carVars
<1>4. CarInv'
  BY <1>1, <1>2, CarAlone
     DEF IInv, CarInv, TurnAsked, ForwardAsked, HandedOver, Quiet, Reports, Only, carVars
<1> QED
  BY <1>1, <1>3, <1>4, CarAlone DEF IInv

\* After the handshake, only "stop" follows the last message.
LEMMA StopAgain ==
  ASSUME TypeOK, Channel, HandedOver, leader.lastMode = "stop", UNCHANGED carVars,
         modes' = modes \/ Sends("stop")
  PROVE  HandedOver'
<1>1. CASE modes' = modes
  BY <1>1 DEF HandedOver, carVars
<1>2. CASE Sends("stop")
  <2>1. "stop" \in MissionModes
    BY DEF MissionModes
  <2>2. Len(modes') = 2 => modes # <<>> /\ modes'[1] = modes[Len(modes)]
    BY <1>2, <2>1, SendsType DEF TypeOK
  <2> QED
    BY <2>2 DEF HandedOver, Channel, carVars
<1> QED
  BY <1>1, <1>2

\* The timer repeats the last mode, except a turn.
LEMMA RepublishIInv ==
  ASSUME IInv, Republish
  PROVE  IInv'
<1> DEFINE m == leader.lastMode
<1>1. /\ pc \in Spinning /\ UNCHANGED <<area, pc, statuses>> /\ UNCHANGED carVars
  BY DEF Republish, Callback
<1>2. /\ leader' = leader /\ m \in MissionModes /\ m # "turn_ccw_90" /\ Sends(m)
  <2>1. CASE leader.parking /\ ForceStop(leader)
    <3>1. m = "stop" /\ leader \in Leaders
      BY <2>1 DEF IInv, TypeOK, LeaderInv, LastModeAt
    <3>2. leader' = leader
      BY <2>1, <3>1 DEF ForceStop, Leaders
    <3> QED
      BY <2>1, <3>1, <3>2 DEF ForceStop, MissionModes
  <2>2. CASE /\ ~leader.parking
             /\ leader.lastMode \notin {"none", "turn_ccw_90"}
             /\ Sends(leader.lastMode)
             /\ UNCHANGED leader
    <3>1. leader.lastMode \in MissionModes \cup {"none"}
      BY DEF IInv, TypeOK, Leaders
    <3> QED
      BY <2>2, <3>1
  <2> QED
    BY <2>1, <2>2 DEF Republish
<1>3. modes' \in Seq(MissionModes) /\ Len(modes') <= 2
  BY <1>2, SendsType DEF IInv, TypeOK
<1>4. TypeOK' /\ LeaderInv'
  BY <1>1, <1>2, <1>3 DEF IInv, TypeOK, LeaderInv, LastModeAt, carVars
<1>5. Channel'
  BY <1>1, <1>2, ChannelStep DEF IInv, carVars
<1>6. pc # "awaitTurn" /\ pc # "start" /\ TypeOK /\ Channel /\ CarInv
  BY <1>1, <1>2 DEF IInv, LeaderInv, LastModeAt, Spinning
<1>7. pc \in Together => Only({"follow", "stop"})'
  <2>1. pc \in Together => m \in {"follow", "stop"}
    BY DEF IInv, LeaderInv, LastModeAt, Together
  <2> QED
    BY <1>2, <1>6, <2>1, AgainOnly DEF CarInv
<1>8. ASSUME pc = "awaitForward" PROVE ForwardAsked'
  <2>1. m = "drive_forward_2cm"
    BY <1>8 DEF IInv, LeaderInv, LastModeAt
  <2>2. Only({"drive_forward_2cm"})'
    BY <1>2, <1>6, <1>8, <2>1, AgainOnly DEF CarInv, ForwardAsked
  <2> QED
    BY <1>1, <1>2, <1>6, <1>8, <2>2, CarAlone DEF CarInv, ForwardAsked, Quiet, Reports
<1>9. ASSUME pc \in Apart PROVE HandedOver'
  <2>1. m = "stop"
    BY <1>9 DEF IInv, LeaderInv, LastModeAt, Apart
  <2> QED
    BY <1>1, <1>2, <1>6, <1>9, <2>1, StopAgain DEF CarInv
<1>10. CarInv'
  BY <1>1, <1>6, <1>7, <1>8, <1>9, CarAlone DEF CarInv, carVars
<1> QED
  BY <1>1, <1>4, <1>5, <1>10, CarAlone DEF IInv
-----------------------------------------------------------------------------
(* Steps of run() *)

\* A step of run() that publishes message m on its way to a place.
LEMMA MovesType ==
  ASSUME IInv, NEW to \in Places, NEW l \in Leaders, l.lastMode = leader.lastMode,
         NEW m \in MissionModes, Publish(l, m) \/ (m = "stop" /\ ForceStop(l)), Goes(to)
  PROVE  /\ TypeOK' /\ Good(car') /\ Channel' /\ pc' = to
         /\ UNCHANGED statuses /\ UNCHANGED carVars
         /\ leader'.lastMode = m
         /\ leader'.monitoring = l.monitoring /\ leader'.stopSent = l.stopSent
         /\ leader'.parking = l.parking /\ leader'.detecting = l.detecting
         /\ modes' = modes \/ Sends(m)
         /\ m # leader.lastMode => Sends(m)
         /\ m # leader.lastMode /\ m \in {"turn_ccw_90", "drive_forward_2cm"}
              => leader'.status = "none"
<1>1. /\ leader' \in Leaders /\ leader'.lastMode = m
      /\ leader'.monitoring = l.monitoring /\ leader'.stopSent = l.stopSent
      /\ leader'.parking = l.parking /\ leader'.detecting = l.detecting
      /\ \/ m = l.lastMode /\ modes' = modes
         \/ Sends(m)
      /\ m # l.lastMode => Sends(m)
      /\ m # l.lastMode /\ m \in {"turn_ccw_90", "drive_forward_2cm"}
           => leader'.status = "none"
      /\ modes' \in Seq(MissionModes) /\ Len(modes') <= 2
  BY PublishType DEF IInv, TypeOK
<1>2. pc' = to /\ area' = area /\ statuses' = statuses /\ UNCHANGED carVars
  BY DEF Goes
<1>3. TypeOK'
  BY <1>1, <1>2 DEF IInv, TypeOK, carVars
<1>4. Channel'
  BY <1>1, <1>2, ChannelStep DEF IInv, carVars
<1>5. Good(car')
  BY <1>2, CarAlone DEF IInv
<1> QED
  BY <1>1, <1>2, <1>3, <1>4, <1>5

\* A step of run() that publishes nothing.
LEMMA StepsType ==
  ASSUME IInv, NEW to \in Places, NEW l \in Leaders, l.lastMode = leader.lastMode,
         leader' = l, Goes(to), UNCHANGED modes
  PROVE  /\ TypeOK' /\ Good(car') /\ Channel' /\ pc' = to
         /\ UNCHANGED statuses /\ UNCHANGED carVars
<1>1. pc' = to /\ area' = area /\ statuses' = statuses /\ UNCHANGED carVars
  BY DEF Goes
<1>2. TypeOK'
  BY <1>1 DEF IInv, TypeOK, carVars
<1>3. Channel'
  BY <1>1 DEF IInv, Channel, carVars
<1>4. Good(car')
  BY <1>1, CarAlone DEF IInv
<1> QED
  BY <1>1, <1>2, <1>3, <1>4

\* run() begins: nothing of this mission is on its way yet.
LEMMA StartIInv ==
  ASSUME IInv, Start
  PROVE  IInv'
<1>1. /\ pc = "start" /\ leader \in Leaders /\ leader.lastMode = "none" /\ ~leader.parking
      /\ ~heard /\ modes = <<>> /\ turned = 0 /\ advanced = 0 /\ TypeOK
      /\ leader.monitoring = FALSE
  BY DEF Start, IInv, TypeOK, Leaders, LeaderInv, LastModeAt, CarInv
<1>2. {"follow", "stop"} \subseteq MissionModes /\ {"drive", "idle"} \subseteq Places
  BY DEF MissionModes, Places
<1> DEFINE l == [leader EXCEPT !.monitoring = TRUE, !.stopSent = FALSE]
<1>3. /\ l \in Leaders /\ l.lastMode = leader.lastMode /\ l.monitoring = TRUE
      /\ l.stopSent = FALSE /\ l.parking = leader.parking
  BY <1>1 DEF Leaders
<1>4. CASE Publish(l, "follow") /\ Goes("drive")
  <2> HIDE DEF l
  <2>1. /\ TypeOK' /\ Good(car') /\ Channel' /\ pc' = "drive"
        /\ UNCHANGED carVars /\ leader'.lastMode = "follow"
        /\ leader'.monitoring = TRUE /\ leader'.stopSent = FALSE
        /\ leader'.parking = leader.parking /\ Sends("follow")
    BY <1>1, <1>2, <1>3, <1>4, MovesType
  <2>2. LeaderInv'
    BY <1>1, <2>1 DEF LeaderInv, LastModeAt
  <2>3. modes' = <<"follow">>
    BY <1>1, <2>1 DEF Sends
  <2>4. Only({"follow", "stop"})'
    BY <2>3 DEF Only
  <2>5. CarInv'
    BY <1>1, <2>1, <2>4 DEF CarInv, Together, Apart, carVars
  <2> QED
    BY <2>1, <2>2, <2>5 DEF IInv
<1>5. CASE Publish(leader, "stop") /\ Goes("idle")
  <2>1. /\ TypeOK' /\ Good(car') /\ Channel' /\ pc' = "idle"
        /\ UNCHANGED carVars /\ leader'.lastMode = "stop"
        /\ leader'.monitoring = leader.monitoring
        /\ leader'.parking = leader.parking
    BY <1>1, <1>2, <1>5, MovesType
  <2>2. LeaderInv'
    BY <1>1, <2>1 DEF LeaderInv, LastModeAt
  <2>3. CarInv'
    BY <1>1, <2>1 DEF CarInv, Together, Apart, carVars
  <2> QED
    BY <2>1, <2>2, <2>3 DEF IInv
<1> QED
  BY <1>4, <1>5 DEF Start

\* Until the car is asked to turn, it follows or stands.
LEMMA TogetherIInv ==
  ASSUME IInv, TypeOK', Good(car'), Channel', LeaderInv', UNCHANGED carVars,
         pc \in Together, pc' \in Together, heard,
         NEW m \in {"follow", "stop"}, modes' = modes \/ Sends(m),
         statuses' = statuses,
         pc' \in {"search", "approach", "align"} => statuses = <<>>
  PROVE  IInv'
<1>1. Only({"follow", "stop"}) /\ Waits /\ TypeOK
  BY DEF IInv, CarInv
<1>2. m \in MissionModes
  BY DEF MissionModes
<1>3. Only({"follow", "stop"})'
  BY <1>1, <1>2, AgainOnly
<1>4. pc' \notin Apart /\ pc' \notin {"start", "awaitTurn", "awaitForward"}
  BY DEF Together, Apart
<1>5. heard' = heard /\ Waits'
  BY <1>1, CarAlone DEF carVars
<1>6. CarInv'
  BY <1>3, <1>4, <1>5 DEF CarInv
<1> QED
  BY <1>6 DEF IInv

\* The robot is at the leader slot.
LEMMA ArriveIInv ==
  ASSUME IInv, Arrive
  PROVE  IInv'
<1> DEFINE l == [leader EXCEPT !.monitoring = FALSE]
<1>1. /\ heard /\ leader \in Leaders /\ TypeOK
      /\ l \in Leaders /\ l.lastMode = leader.lastMode /\ l.monitoring = FALSE
      /\ l.stopSent = leader.stopSent /\ l.parking = leader.parking
  BY DEF Arrive, IInv, TypeOK, Leaders
<1>2. "stop" \in MissionModes /\ {"pause", "settle"} \subseteq Places
  BY DEF MissionModes, Places
<1>3. CASE Steps("drive", "pause", l)
  <2>1. pc = "drive" /\ leader' = l /\ Goes("pause") /\ UNCHANGED modes
    BY <1>3 DEF Steps
  <2>2. LeaderInv
    BY DEF IInv
  <2> HIDE DEF l
  <2>3. /\ TypeOK' /\ Good(car') /\ Channel' /\ pc' = "pause"
        /\ UNCHANGED statuses /\ UNCHANGED carVars
    BY <1>1, <1>2, <2>1, StepsType
  <2>4. LeaderInv'
    BY <1>1, <2>1, <2>2, <2>3 DEF LeaderInv, LastModeAt
  <2> QED
    BY <1>1, <2>1, <2>3, <2>4, TogetherIInv DEF Together
<1>4. CASE Moves("drive", "settle", l, "stop")
  <2>1. pc = "drive" /\ Publish(l, "stop") /\ Goes("settle")
    BY <1>4 DEF Moves
  <2>2. LeaderInv
    BY DEF IInv
  <2> HIDE DEF l
  <2>3. /\ TypeOK' /\ Good(car') /\ Channel' /\ pc' = "settle"
        /\ UNCHANGED statuses /\ UNCHANGED carVars
        /\ leader'.lastMode = "stop" /\ leader'.monitoring = l.monitoring
        /\ leader'.parking = l.parking /\ (modes' = modes \/ Sends("stop"))
    BY <1>1, <1>2, <2>1, MovesType
  <2>4. LeaderInv'
    BY <1>1, <2>1, <2>2, <2>3 DEF LeaderInv, LastModeAt
  <2> QED
    BY <1>1, <2>1, <2>3, <2>4, TogetherIInv DEF Together
<1> QED
  BY <1>3, <1>4 DEF Arrive

\* Mission A stops the car.
LEMMA PauseOverIInv ==
  ASSUME IInv, PauseOver
  PROVE  IInv'
<1>1. /\ pc = "pause" /\ Publish(leader, "stop") /\ Goes("settle") /\ leader \in Leaders
      /\ LeaderInv /\ heard
  BY DEF PauseOver, Moves, IInv, TypeOK, CarInv
<1>2. "stop" \in MissionModes /\ "settle" \in Places
  BY DEF MissionModes, Places
<1>3. /\ TypeOK' /\ Good(car') /\ Channel' /\ pc' = "settle"
      /\ UNCHANGED statuses /\ UNCHANGED carVars
      /\ leader'.lastMode = "stop" /\ leader'.monitoring = leader.monitoring
      /\ leader'.parking = leader.parking /\ (modes' = modes \/ Sends("stop"))
  BY <1>1, <1>2, MovesType
<1>4. LeaderInv'
  BY <1>1, <1>3 DEF LeaderInv, LastModeAt
<1> QED
  BY <1>1, <1>3, <1>4, TogetherIInv DEF Together

\* The steps between the places where the robot comes up to the marker.
LEMMA ApproachIInv ==
  ASSUME IInv, Settled \/ FindMarker \/ ReachMarker
  PROVE  IInv'
<1>1. PICK to \in {"search", "approach", "align"}, on \in BOOLEAN :
        /\ leader' = [leader EXCEPT !.detecting = on] /\ UNCHANGED modes /\ Goes(to)
  <2>1. leader \in Leaders
    BY DEF IInv, TypeOK
  <2>2. leader.detecting \in BOOLEAN /\ leader = [leader EXCEPT !.detecting = leader.detecting]
    BY <2>1 DEF Leaders
  <2>3. CASE Settled
    BY <2>3 DEF Settled, Steps
  <2>4. CASE FindMarker
    BY <2>2, <2>4 DEF FindMarker, Steps
  <2>5. CASE ReachMarker
    BY <2>5 DEF ReachMarker, Steps
  <2> QED
    BY <2>3, <2>4, <2>5
<1> DEFINE l == [leader EXCEPT !.detecting = on]
<1>2. /\ pc \in {"settle", "search", "approach"} /\ statuses = <<>> /\ heard
      /\ LeaderInv /\ leader \in Leaders
  BY DEF Settled, FindMarker, ReachMarker, Steps, IInv, TypeOK, CarInv
<1>3. /\ l \in Leaders /\ l.lastMode = leader.lastMode
      /\ l.monitoring = leader.monitoring /\ l.parking = leader.parking
  BY <1>2 DEF Leaders
<1>4. leader' = l
  BY <1>1
<1> HIDE DEF l
<1>5. to \in Places
  BY DEF Places
<1>6. /\ TypeOK' /\ Good(car') /\ Channel' /\ pc' = to
      /\ UNCHANGED statuses /\ UNCHANGED carVars
  BY <1>1, <1>3, <1>4, <1>5, StepsType
<1>7. LeaderInv'
  BY <1>2, <1>3, <1>4, <1>6 DEF LeaderInv, LastModeAt
<1> QED
  BY <1>1, <1>2, <1>6, <1>7, TogetherIInv DEF Together

\* The car is asked to turn: no status of an earlier mission is left to be taken
\* for the answer, and only "stop" can be ahead of the request.
LEMMA AskTurnIInv ==
  ASSUME IInv, AskTurn
  PROVE  IInv'
<1> DEFINE m == "turn_ccw_90"
<1>1. /\ pc = "align" /\ Publish(leader, m) /\ Goes("awaitTurn") /\ leader \in Leaders
      /\ leader.lastMode = "stop" /\ LeaderInv /\ heard /\ Waits /\ statuses = <<>>
      /\ TypeOK /\ Channel
  BY DEF AskTurn, Moves, IInv, TypeOK, CarInv, LeaderInv, LastModeAt, Together
<1>2. m \in MissionModes /\ "awaitTurn" \in Places
  BY DEF MissionModes, Places
<1>3. /\ TypeOK' /\ Good(car') /\ Channel' /\ pc' = "awaitTurn"
      /\ statuses' = statuses /\ UNCHANGED carVars
      /\ leader'.lastMode = m /\ leader'.monitoring = leader.monitoring
      /\ leader'.parking = leader.parking /\ Sends(m) /\ leader'.status = "none"
  BY <1>1, <1>2, MovesType
<1>4. LeaderInv'
  BY <1>1, <1>3 DEF LeaderInv, LastModeAt
<1>5. modes' # <<>> /\ (Len(modes') = 2 => modes'[1] = "stop")
  <2>1. modes' # <<>> /\ (Len(modes') = 2 => modes # <<>> /\ modes'[1] = modes[Len(modes)])
    BY <1>1, <1>2, <1>3, SendsType DEF TypeOK
  <2> QED
    BY <1>1, <2>1 DEF Channel
<1>6. TurnAsked'
  BY <1>1, <1>3, <1>5, CarAlone DEF TurnAsked, Quiet
<1>7. CarInv'
  BY <1>1, <1>3, <1>6 DEF CarInv, Together, Apart, carVars
<1> QED
  BY <1>3, <1>4, <1>7 DEF IInv

\* The end of the turn is reported: the car has turned, and has nothing to read.
LEMMA TurnReportedIInv ==
  ASSUME IInv, TurnReported
  PROVE  IInv'
<1> DEFINE m == "drive_forward_2cm"
<1>1. /\ pc = "awaitTurn" /\ Publish(leader, m) /\ Goes("awaitForward")
      /\ leader \in Leaders /\ leader.status = EndStatus["TurnCcw90"]
      /\ leader.lastMode = "turn_ccw_90" /\ LeaderInv /\ heard /\ TurnAsked /\ TypeOK
  BY DEF TurnReported, Moves, IInv, TypeOK, CarInv, LeaderInv, LastModeAt
<1>2. m \in MissionModes /\ "awaitForward" \in Places
  BY DEF MissionModes, Places
<1>3. /\ TypeOK' /\ Good(car') /\ Channel' /\ pc' = "awaitForward"
      /\ statuses' = statuses /\ UNCHANGED carVars
      /\ leader'.lastMode = m /\ leader'.monitoring = leader.monitoring
      /\ leader'.parking = leader.parking /\ Sends(m) /\ leader'.status = "none"
  BY <1>1, <1>2, MovesType
<1>4. LeaderInv'
  BY <1>1, <1>3 DEF LeaderInv, LastModeAt
<1>5. modes = <<>> /\ Turned /\ statuses = <<>>
  BY <1>1, StatusValues DEF TurnAsked, Quiet, Reports
<1>6. Only({m})'
  <2>1. modes' = <<m>>
    BY <1>3, <1>5 DEF Sends
  <2> QED
    BY <2>1 DEF Only
<1>7. ForwardAsked'
  BY <1>3, <1>5, <1>6, CarAlone DEF ForwardAsked, Quiet
<1>8. CarInv'
  BY <1>1, <1>3, <1>7 DEF CarInv, Together, Apart, carVars
<1> QED
  BY <1>3, <1>4, <1>8 DEF IInv

\* The end of the drive forward is reported: only requests for the drive that it
\* has behind it can still reach the car.
LEMMA ForwardReportedIInv ==
  ASSUME IInv, ForwardReported
  PROVE  IInv'
<1>1. /\ pc = "awaitForward" /\ Publish(leader, "stop") /\ Goes("aboutFace")
      /\ leader \in Leaders /\ leader.status = EndStatus["DriveForward2cm"]
      /\ leader.lastMode = "drive_forward_2cm" /\ LeaderInv /\ heard
      /\ ForwardAsked /\ TypeOK /\ Channel
  BY DEF ForwardReported, Moves, IInv, TypeOK, CarInv, LeaderInv, LastModeAt
<1>2. "stop" \in MissionModes /\ "aboutFace" \in Places
  BY DEF MissionModes, Places
<1>3. /\ TypeOK' /\ Good(car') /\ Channel' /\ pc' = "aboutFace"
      /\ statuses' = statuses /\ UNCHANGED carVars
      /\ leader'.lastMode = "stop" /\ leader'.monitoring = leader.monitoring
      /\ leader'.parking = leader.parking /\ Sends("stop")
  BY <1>1, <1>2, MovesType
<1>4. LeaderInv'
  BY <1>1, <1>3 DEF LeaderInv, LastModeAt
<1>5. Advanced
  BY <1>1, StatusValues DEF ForwardAsked, Quiet, Reports
<1>6. Len(modes') = 2 => modes'[1] = "drive_forward_2cm"
  <2>1. Len(modes') = 2 => modes # <<>> /\ modes'[1] = modes[Len(modes)]
    BY <1>1, <1>2, <1>3, SendsType DEF TypeOK
  <2> QED
    BY <1>1, <2>1 DEF Channel
<1>7. HandedOver'
  BY <1>3, <1>5, <1>6 DEF HandedOver, Advanced, CarIs, carVars
<1>8. CarInv'
  BY <1>1, <1>3, <1>7 DEF CarInv, Together, Apart, carVars
<1> QED
  BY <1>3, <1>4, <1>8 DEF IInv

\* The robot turns about, backs up and starts the arm.
LEMMA HandOverIInv ==
  ASSUME IInv, FaceAbout \/ BackUp \/ StartArm
  PROVE  IInv'
<1>1. /\ pc \in {"aboutFace", "backUp", "handOver"} /\ leader \in Leaders
      /\ leader.lastMode = "stop" /\ LeaderInv /\ heard /\ HandedOver /\ TypeOK /\ Channel
  BY DEF FaceAbout, BackUp, StartArm, Steps, Moves, IInv, TypeOK, CarInv, LeaderInv,
         LastModeAt, Apart
<1>2. PICK to \in {"backUp", "handOver", "hold"} :
        \/ leader' = leader /\ UNCHANGED modes /\ Goes(to)
        \/ Publish(leader, "stop") /\ Goes(to)
  BY DEF FaceAbout, BackUp, StartArm, Steps, Moves
<1>3. "stop" \in MissionModes /\ to \in Places
  BY DEF MissionModes, Places
<1>4. /\ TypeOK' /\ Good(car') /\ Channel' /\ pc' = to /\ UNCHANGED carVars
      /\ leader'.lastMode = "stop" /\ leader'.monitoring = leader.monitoring
      /\ leader'.parking = leader.parking /\ (modes' = modes \/ Sends("stop"))
  <2>1. CASE leader' = leader /\ UNCHANGED modes /\ Goes(to)
    BY <1>1, <1>3, <2>1, StepsType
  <2>2. CASE Publish(leader, "stop") /\ Goes(to)
    BY <1>1, <1>3, <2>2, MovesType
  <2> QED
    BY <1>2, <2>1, <2>2
<1>5. LeaderInv'
  BY <1>1, <1>4 DEF LeaderInv, LastModeAt
<1>6. HandedOver'
  BY <1>1, <1>4, StopAgain
<1>7. CarInv'
  BY <1>1, <1>4, <1>6 DEF CarInv, Together, Apart, carVars
<1> QED
  BY <1>4, <1>5, <1>7 DEF IInv

\* A charger request takes the mission over, and ends it.
LEMMA ChargerIInv ==
  ASSUME IInv, Interrupt \/ ChargerDone
  PROVE  IInv'
<1>0. leader \in Leaders /\ TypeOK /\ CarInv /\ LeaderInv /\ "stop" \in MissionModes
  BY DEF IInv, TypeOK, MissionModes
<1>1. PICK to \in {"charger", "ended"}, l \in Leaders :
        /\ ForceStop(l) /\ Goes(to) /\ l.lastMode = leader.lastMode
        /\ l.monitoring = FALSE /\ l.detecting = FALSE
        /\ l.parking = TRUE <=> to = "charger"
  <2>1. CASE Interrupt
    <3> DEFINE l == [leader EXCEPT !.requested = FALSE, !.parking = TRUE,
                                   !.monitoring = FALSE, !.stopSent = FALSE,
                                   !.detecting = FALSE]
    <3>1. /\ l \in Leaders /\ l.lastMode = leader.lastMode /\ l.parking = TRUE
          /\ l.monitoring = FALSE /\ l.detecting = FALSE
      BY <1>0 DEF Leaders
    <3>2. ForceStop(l) /\ Goes("charger")
      BY <2>1 DEF Interrupt
    <3> HIDE DEF l
    <3> QED
      BY <3>1, <3>2
  <2>2. CASE ChargerDone
    <3> DEFINE l == [leader EXCEPT !.parking = FALSE]
    <3>1. pc = "charger" /\ ForceStop(l) /\ Goes("ended")
      BY <2>2 DEF ChargerDone
    <3>2. /\ l \in Leaders /\ l.lastMode = leader.lastMode /\ l.parking = FALSE
          /\ l.monitoring = leader.monitoring /\ l.detecting = leader.detecting
      BY <1>0 DEF Leaders
    <3>3. leader.monitoring = FALSE /\ leader.detecting = FALSE
      BY <1>0, <3>1 DEF LeaderInv, Leaders
    <3> HIDE DEF l
    <3> QED
      BY <3>1, <3>2, <3>3
  <2> QED
    BY <2>1, <2>2
<1>2. to \in Places
  BY DEF Places
<1>3. /\ TypeOK' /\ Good(car') /\ Channel' /\ pc' = to /\ UNCHANGED carVars
      /\ leader'.lastMode = "stop" /\ leader'.monitoring = FALSE
      /\ leader'.parking = l.parking /\ leader'.detecting = FALSE
  BY <1>0, <1>1, <1>2, MovesType
<1>4. LeaderInv'
  BY <1>1, <1>3 DEF LeaderInv, LastModeAt
<1>5. CarInv'
  BY <1>0, <1>3 DEF CarInv, Together, Apart, carVars
<1> QED
  BY <1>3, <1>4, <1>5 DEF IInv
-----------------------------------------------------------------------------
(* The invariant and what it implies *)

\* A new car is good, and so is what an earlier mission may have left.
LEMMA LeftOverGood ==
  ASSUME NEW m \in {"Follow", "Stop", "TurnCcw90", "DriveForward2cm"},
         NEW d \in SUBSET {"TurnCcw90", "DriveForward2cm"},
         m \notin d, m = "Follow" => d = {}
  PROVE  Good(LeftOver(m, d))
<1> DEFINE f == [g \in Measured |-> IF g = m THEN "own" ELSE "none"]
<1>1. /\ f \in [Measured -> {"none", "own", "old"}]
      /\ \A g \in Measured : f[g] # "old"
  OBVIOUS
<1>2. m \in Modes /\ d \in SUBSET Manoeuvres
  BY DEF Modes, Manoeuvres
<1>3. LeftOver(m, d) = [NewCar EXCEPT !.mode = m, !.done = d, !.posed = TRUE,
                                      !.ready = TRUE, !.from = f]
  BY DEF LeftOver
<1> HIDE DEF f
<1> DEFINE c == LeftOver(m, d)
<1>4. c \in Cars
  BY <1>1, <1>2, <1>3 DEF Cars, NewCar
<1>5. /\ c.mode = m /\ c.done = d /\ c.from = f /\ c.latched = FALSE
      /\ c.posed = TRUE
  BY <1>3 DEF NewCar
<1> HIDE DEF c
<1>6. Good(c)
  BY <1>1, <1>4, <1>5 DEF Good
<1> QED
  BY <1>6 DEF c

\* It holds initially.
LEMMA InitIInv == Init => IInv
<1> SUFFICES ASSUME Init PROVE IInv
  OBVIOUS
<1>1. Good(car)
  <2>1. Good(NewCar)
    BY DEF Good, Cars, NewCar, Modes, Measured, Turns
  <2>2. car = NewCar \/ \E m \in {"Follow", "Stop", "TurnCcw90", "DriveForward2cm"},
                           d \in SUBSET {"TurnCcw90", "DriveForward2cm"} :
                           car = LeftOver(m, d) /\ m \notin d /\ (m = "Follow" => d = {})
    BY DEF Init, FirstCars
  <2> QED
    BY <2>1, <2>2, LeftOverGood
<1>2. leader \in Leaders
  BY DEF Init, Leaders
<1>3. TypeOK
  <2>1. car \in Cars /\ car.mode \notin car.done
    BY <1>1 DEF Good
  <2>2. /\ modes \in Seq(MissionModes) /\ Len(modes) <= 2
        /\ statuses \in Seq(Statuses) /\ Len(statuses) <= StatusDepth
    BY ConvoyAssumption DEF Init
  <2>3. failures \in 0..MaxFailures /\ turned \in 0..2 /\ advanced \in 0..2
    BY ConvoyAssumption DEF Init
  <2> QED
    BY <1>2, <2>1, <2>2, <2>3 DEF Init, TypeOK, Places
<1>4. Channel /\ LeaderInv
  BY DEF Init, Channel, LeaderInv, LastModeAt
<1>5. CarInv
  BY DEF Init, CarInv, Together, Apart
<1> QED
  BY <1>1, <1>3, <1>4, <1>5 DEF IInv

\* A step that changes nothing keeps it.
LEMMA StutterIInv ==
  ASSUME IInv, UNCHANGED vars
  PROVE  IInv'
<1>1. /\ car'.mode = car.mode /\ car'.done = car.done
      /\ UNCHANGED <<area, pc, leader, modes, statuses, failures, heard, turned, advanced>>
      /\ car' = car
  BY DEF vars
<1>2. TypeOK' /\ Good(car')
  BY <1>1 DEF IInv, TypeOK
<1> QED
  BY <1>1, <1>2, SameCar DEF IInv

\* Every step of the mission, of its callbacks and of the car preserves it.
LEMMA NextIInv == IInv /\ [Next]_vars => IInv'
<1> SUFFICES ASSUME IInv, [Next]_vars PROVE IInv'
  OBVIOUS
<1>1. CASE Mission
  BY <1>1, StartIInv, ArriveIInv, PauseOverIInv, ApproachIInv, AskTurnIInv,
     TurnReportedIInv, ForwardReportedIInv, HandOverIInv, ChargerIInv DEF Mission
<1>2. CASE HearStatus
  BY <1>2, HearStatusIInv
<1>3. CASE CarAtStop
  BY <1>3, CarAtStopIInv
<1>4. CASE ChargerCommand
  BY <1>4, ChargerCommandIInv
<1>5. CASE Republish
  BY <1>5, RepublishIInv
<1>6. CASE CarHears
  BY <1>6, HearsIInv
<1>7. CASE CarControl
  BY <1>7, ControlsIInv DEF CarControl
<1>8. CASE CarOdometry \/ CarReopens
  BY <1>8, OthersIInv
<1>9. CASE UNCHANGED vars
  BY <1>9, StutterIInv
<1> QED
  BY <1>1, <1>2, <1>3, <1>4, <1>5, <1>6, <1>7, <1>8, <1>9 DEF Next

\* The invariant holds in every reachable state.
LEMMA Invariance == Spec => []IInv
BY InitIInv, NextIInv, PTL DEF Spec

\* The variables of Convoy keep their types.
THEOREM TypeCorrect == Spec => []TypeOK
<1>1. IInv => TypeOK
  BY DEF IInv
<1> QED
  BY <1>1, Invariance, PTL

\* The car stands while the robot turns about, backs up and lets the arm work
\* beside it: a repeated request for the drive forward that arrives late meets a
\* car that has it behind it.
THEOREM StandsAtHandOver == Spec => []CarStandsAtHandOver
<1>1. IInv => CarStandsAtHandOver
  BY DEF IInv, CarInv, Apart, HandedOver, CarStandsAtHandOver
<1> QED
  BY <1>1, Invariance, PTL

\* A car that has read all that was sent stands from its stop of the area until it
\* is asked to turn, and after a charger request: the last message on its way is
\* always the last mode that run() or a callback published.
THEOREM StaysStopped == Spec => []CarStaysStopped
<1>1. IInv => CarStaysStopped
  BY DEF IInv, Channel, LeaderInv, LastModeAt, CarStaysStopped
<1> QED
  BY <1>1, Invariance, PTL

\* The robot goes on only when the car has carried out what it was asked for, once:
\* no status of an earlier mission is taken for the answer, and no repeated request
\* makes the car begin again.
THEOREM DoneOnce == Spec => []ManoeuvresOnce
<1>1. IInv => ManoeuvresOnce
  <2> SUFFICES ASSUME IInv PROVE ManoeuvresOnce
    OBVIOUS
  <2>1. pc \in Apart => turned = 1 /\ advanced = 1
    BY DEF IInv, CarInv, HandedOver
  <2>2. pc = "awaitForward" => turned = 1
    BY DEF IInv, CarInv, ForwardAsked, Turned, Advancing, Advanced, CarIs
  <2> QED
    BY <2>1, <2>2 DEF ManoeuvresOnce, Apart
<1> QED
  BY <1>1, Invariance, PTL
-----------------------------------------------------------------------------
(* Convoy implements Handshake *)

\* The car has the short drive behind it: a request for it only stops the car.
BehindIt ==
  /\ car.mode = "Stop" /\ "DriveForward2cm" \in car.done
  /\ turned = 1 /\ advanced = 1

\* A mission that has withdrawn: the car has completed the tasks in their order and
\* may still be at one, and what it reads first may be a request.
InOrderYet ==
  /\ turned \in {0, 1} /\ advanced \in {0, 1} /\ advanced <= turned
  /\ heard => car.mode \in {"Follow", "Stop"} \/ Turning \/ Advancing

LateRequest ==
  \/ modes = <<>>
  \/ modes[1] \in {"follow", "stop"}
  \/ modes[1] = "turn_ccw_90" /\ heard /\ Waits
  \/ modes[1] = "drive_forward_2cm" /\ heard /\ (Turned \/ Advancing \/ BehindIt)

\* What the handshake needs beyond IInv, of the places that IInv says nothing of.
RequestInv ==
  /\ pc = "idle" => Only({"stop"}) /\ (heard => Waits)
  /\ pc = "awaitForward" /\ Turned => modes # <<>>
  /\ pc \in {"charger", "ended"} => InOrderYet /\ LateRequest

\* What the car makes of the message it reads.
LEMMA HearsDoes ==
  ASSUME IInv, CarHears
  PROVE  /\ modes # <<>> /\ Len(modes) \in {1, 2} /\ modes[1] \in MissionModes
         /\ UNCHANGED <<pc, leader, turned, advanced>> /\ heard' = TRUE
         /\ Len(modes) = 1 => modes' = <<>> /\ Len(modes') = 0
         /\ Len(modes) = 2 => modes' # <<>> /\ Len(modes') = 1 /\ modes'[1] = modes[2]
         /\ modes[1] \in {"follow", "stop"}
              => car'.mode \in {"Follow", "Stop"} /\ car'.done = {}
         /\ modes[1] = "turn_ccw_90" /\ car.done = {}
              => car'.mode = "TurnCcw90" /\ car'.done = {}
         /\ modes[1] = "drive_forward_2cm" =>
              /\ car'.done = car.done
              /\ car'.mode = IF "DriveForward2cm" \in car.done THEN "Stop"
                             ELSE "DriveForward2cm"
<1> DEFINE m == Head(modes) r == SetMode(car, m) g == ModeOf[m]
<1>0. /\ modes # <<>> /\ modes' = Tail(modes) /\ CarAnswers(r) /\ heard' = TRUE
      /\ pc' = pc /\ leader' = leader
  BY DEF CarHears, CarAnswers
<1>1. /\ Len(modes) \in {1, 2} /\ m = modes[1] /\ m \in MissionModes
      /\ Len(modes) = 1 => modes' = <<>> /\ Len(modes') = 0
      /\ Len(modes) = 2 => modes' # <<>> /\ Len(modes') = 1 /\ modes'[1] = modes[2]
  BY <1>0, FirstOfTwo DEF IInv, TypeOK
<1>2. Good(r.car) /\ r.says \in Statuses \cup {"none"}
  BY <1>1, SetModeDoes, SetModeGood DEF IInv
<1>3. /\ g \notin Manoeuvres => r.car.mode = g /\ r.car.done = {} /\ r.says = "none"
      /\ g \in Manoeuvres /\ g \in car.done =>
           r.car.mode = "Stop" /\ r.car.done = car.done /\ r.says = "none"
      /\ g \in Manoeuvres /\ g \notin car.done =>
           /\ r.car.mode = g
           /\ r.car.done = car.done \/ (g \in Turns /\ r.car.done = car.done \ {"DriveForward2cm"})
           /\ r.says = StartStatus[g] \/ (car.mode = g /\ r.says = "none")
  BY <1>1, SetModeDoes DEF IInv
<1> HIDE DEF r
<1>4. /\ car'.mode = r.car.mode /\ car'.done = r.car.done
      /\ turned' = IF heard /\ r.says = "turn_ccw_90_done" /\ turned < 2
                   THEN turned + 1 ELSE turned
      /\ advanced' = IF heard /\ r.says = "drive_forward_2cm_done" /\ advanced < 2
                     THEN advanced + 1 ELSE advanced
  BY <1>0, <1>2, CarAnswersType DEF IInv
<1> HIDE DEF m
<1>5. m \in {"follow", "stop"} =>
        g \notin Manoeuvres /\ g \in {"Follow", "Stop"}
  BY StatusValues
<1>6. m = "turn_ccw_90" => g = "TurnCcw90" /\ g \in Manoeuvres
  BY StatusValues
<1>7. m = "drive_forward_2cm" => g = "DriveForward2cm" /\ g \in Manoeuvres /\ g \notin Turns
  BY StatusValues DEF Turns
<1>8. m \in {"follow", "stop", "turn_ccw_90", "drive_forward_2cm"}
  BY <1>1 DEF MissionModes
<1>9. r.says \notin {"turn_ccw_90_done", "drive_forward_2cm_done"}
  <2>1. StartStatus["TurnCcw90"] = "turn_ccw_90_started"
    BY StatusValues
  <2>2. StartStatus["DriveForward2cm"] = "drive_forward_2cm_started"
    BY StatusValues
  <2> QED
    BY <1>3, <1>5, <1>6, <1>7, <1>8, <2>1, <2>2
<1>10. turned' = turned /\ advanced' = advanced
  BY <1>4, <1>9
<1>11. m \in {"follow", "stop"} => car'.mode \in {"Follow", "Stop"} /\ car'.done = {}
  BY <1>3, <1>4, <1>5
<1>12. m = "turn_ccw_90" /\ car.done = {} => car'.mode = "TurnCcw90" /\ car'.done = {}
  BY <1>3, <1>4, <1>6
<1>13. m = "drive_forward_2cm" =>
         /\ car'.done = car.done
         /\ car'.mode = IF "DriveForward2cm" \in car.done THEN "Stop" ELSE "DriveForward2cm"
  BY <1>3, <1>4, <1>7
<1> QED
  BY <1>0, <1>1, <1>10, <1>11, <1>12, <1>13

\* What a control step makes of the car.
LEMMA ControlsDoes ==
  ASSUME IInv, NEW how \in Circumstances, CarControls(how)
  PROVE  /\ UNCHANGED <<pc, leader, modes, heard>>
         /\ \/ car'.mode = car.mode /\ car'.done = car.done /\ UNCHANGED <<turned, advanced>>
            \/ /\ car.mode \in Manoeuvres /\ car'.mode = "Stop"
               /\ car.mode # "AlignBStopYaw" => car'.done = car.done \cup {car.mode}
               /\ turned' = IF heard /\ car.mode = "TurnCcw90" /\ turned < 2
                            THEN turned + 1 ELSE turned
               /\ advanced' = IF heard /\ car.mode = "DriveForward2cm" /\ advanced < 2
                              THEN advanced + 1 ELSE advanced
<1> DEFINE r == ControlStep(car, how)
<1>0. CarAnswers(r) /\ UNCHANGED <<pc, leader, modes, heard>>
  BY DEF CarControls, CarAnswers
<1>1. /\ Good(r.car)
      /\ \/ r.car.mode = car.mode /\ r.car.done = car.done /\ r.says = "none"
         \/ /\ car.mode \in Manoeuvres /\ r.car.mode = "Stop"
            /\ r.says = EndStatus[car.mode]
            /\ car.mode # "AlignBStopYaw" => r.car.done = car.done \cup {car.mode}
  BY ControlStepGood DEF IInv
<1>2. r.says \in Statuses \cup {"none"}
  BY <1>1, StatusValues
<1> HIDE DEF r
<1>3. /\ car'.mode = r.car.mode /\ car'.done = r.car.done
      /\ turned' = IF heard /\ r.says = "turn_ccw_90_done" /\ turned < 2
                   THEN turned + 1 ELSE turned
      /\ advanced' = IF heard /\ r.says = "drive_forward_2cm_done" /\ advanced < 2
                     THEN advanced + 1 ELSE advanced
  BY <1>0, <1>1, <1>2, CarAnswersType DEF IInv
<1>4. \A g \in Manoeuvres :
        /\ EndStatus[g] = "turn_ccw_90_done" <=> g = "TurnCcw90"
        /\ EndStatus[g] = "drive_forward_2cm_done" <=> g = "DriveForward2cm"
  BY DEF Manoeuvres, EndStatus
<1>5. CASE r.car.mode = car.mode /\ r.car.done = car.done /\ r.says = "none"
  BY <1>0, <1>3, <1>5
<1>6. CASE /\ car.mode \in Manoeuvres /\ r.car.mode = "Stop"
           /\ r.says = EndStatus[car.mode]
           /\ car.mode # "AlignBStopYaw" => r.car.done = car.done \cup {car.mode}
  <2>1. /\ r.says = "turn_ccw_90_done" <=> car.mode = "TurnCcw90"
        /\ r.says = "drive_forward_2cm_done" <=> car.mode = "DriveForward2cm"
    BY <1>4, <1>6
  <2> QED
    BY <1>0, <1>3, <1>6, <2>1
<1> QED
  BY <1>1, <1>5, <1>6

\* The withdrawal: of what was on its way, only the last message may be left, behind
\* which "stop" is.
LEMMA InterruptRequest ==
  ASSUME IInv, RequestInv, Interrupt
  PROVE  RequestInv'
<1>1. /\ pc \in Spinning /\ pc \notin {"charger", "start", "ended"} /\ pc' = "charger"
      /\ Sends("stop") /\ UNCHANGED carVars
      /\ TypeOK /\ Channel /\ CarInv /\ LeaderInv
  BY DEF Interrupt, Interrupted, ForceStop, Goes, IInv, LeaderInv, Spinning
<1>2. /\ modes' # <<>> /\ Len(modes') \in {1, 2} /\ modes'[Len(modes')] = "stop"
      /\ Len(modes') = 2 => modes # <<>> /\ modes'[1] = modes[Len(modes)]
  BY <1>1, SendsType DEF TypeOK, MissionModes
<1>3. modes'[1] = "stop" \/ (modes # <<>> /\ modes'[1] = leader.lastMode)
  BY <1>1, <1>2 DEF Channel
<1>4. ASSUME InOrderYet, LateRequest' PROVE RequestInv'
  <2>1. InOrderYet'
    BY <1>1, <1>4, CarAlone DEF InOrderYet, carVars
  <2> QED
    BY <1>1, <1>4, <2>1 DEF RequestInv
<1>5. CASE pc \in Together \cup {"idle"}
  <2>1. ~heard => turned = 0 /\ advanced = 0
    BY <1>1 DEF CarInv
  <2>2. heard => Waits
    BY <1>1, <1>5 DEF CarInv, RequestInv
  <2>3. InOrderYet
    BY <2>1, <2>2 DEF InOrderYet, Waits, CarIs
  <2>4. leader.lastMode \in {"follow", "stop"}
    BY <1>1, <1>5 DEF LeaderInv, LastModeAt, Together
  <2>5. LateRequest'
    BY <1>3, <2>4 DEF LateRequest
  <2> QED
    BY <1>4, <2>3, <2>5
<1>6. CASE pc = "awaitTurn"
  <2>1. TurnAsked /\ heard /\ leader.lastMode = "turn_ccw_90"
    BY <1>1, <1>6 DEF CarInv, LeaderInv, LastModeAt
  <2>2. InOrderYet
    <3>1. Waits \/ Turning \/ Turned
      BY <2>1 DEF TurnAsked
    <3> QED
      BY <3>1 DEF InOrderYet, Waits, Turned, Turning, CarIs
  <2>3. modes # <<>> => Waits
    BY <2>1 DEF TurnAsked
  <2>4. Waits' = Waits /\ heard' = heard
    BY <1>1, CarAlone DEF carVars
  <2>5. LateRequest'
    BY <1>3, <2>1, <2>3, <2>4 DEF LateRequest
  <2> QED
    BY <1>4, <2>2, <2>5
<1>7. CASE pc = "awaitForward"
  <2>1. ForwardAsked /\ heard /\ leader.lastMode = "drive_forward_2cm"
    BY <1>1, <1>7 DEF CarInv, LeaderInv, LastModeAt
  <2>2. Turned \/ Advancing \/ Advanced
    BY <2>1 DEF ForwardAsked
  <2>3. InOrderYet
    BY <2>2 DEF InOrderYet, Turned, Advancing, Advanced, CarIs
  <2>4. Advanced => BehindIt
    BY DEF Advanced, BehindIt, CarIs
  <2>5. /\ Turned' = Turned /\ Advancing' = Advancing /\ BehindIt' = BehindIt
        /\ heard' = heard
    BY <1>1, CarAlone DEF carVars, BehindIt
  <2>6. LateRequest'
    BY <1>3, <2>1, <2>2, <2>4, <2>5 DEF LateRequest
  <2> QED
    BY <1>4, <2>3, <2>6
<1>8. CASE pc \in Apart
  <2>1. HandedOver /\ leader.lastMode = "stop"
    BY <1>1, <1>8 DEF CarInv, LeaderInv, LastModeAt, Apart
  <2>2. InOrderYet
    BY <2>1 DEF HandedOver, InOrderYet
  <2>3. LateRequest'
    BY <1>3, <2>1 DEF LateRequest
  <2> QED
    BY <1>4, <2>2, <2>3
<1> QED
  BY <1>1, <1>5, <1>6, <1>7, <1>8 DEF Spinning, Places, Together, Apart

\* The mission's other steps, and its callbacks.
LEMMA MissionRequest ==
  ASSUME IInv, RequestInv, IInv',
         (Mission /\ ~Interrupt) \/ HearStatus \/ CarAtStop \/ ChargerCommand \/ Republish
  PROVE  RequestInv'
<1>0. UNCHANGED carVars /\ CarInv /\ LeaderInv /\ TypeOK /\ Channel
  BY DEF Mission, Start, Arrive, PauseOver, Settled, FindMarker, ReachMarker, AskTurn,
         TurnReported, ForwardReported, FaceAbout, BackUp, StartArm, Interrupt, ChargerDone,
         Moves, Steps, Goes, HearStatus, CarAtStop, ChargerCommand, Republish, Callback, IInv
<1>1. /\ heard' = heard /\ Waits' = Waits /\ Turned' = Turned /\ InOrderYet' = InOrderYet
      /\ Advancing' = Advancing /\ BehindIt' = BehindIt
  BY <1>0, CarAlone DEF carVars, InOrderYet, BehindIt
<1>2. "stop" \in MissionModes /\ "drive_forward_2cm" \in MissionModes
  BY DEF MissionModes
<1>3. ASSUME pc \in {"charger", "ended"}, Sends("stop"), pc' \in {"charger", "ended"}
      PROVE  RequestInv'
  <2>1. leader.lastMode = "stop"
    BY <1>0, <1>3 DEF LeaderInv, LastModeAt
  <2>2. /\ Len(modes') \in {1, 2} /\ modes'[Len(modes')] = "stop"
        /\ Len(modes') = 2 => modes # <<>> /\ modes'[1] = modes[Len(modes)]
    BY <1>0, <1>2, <1>3, SendsType DEF TypeOK
  <2>3. modes'[1] = "stop"
    BY <1>0, <2>1, <2>2 DEF Channel
  <2> QED
    BY <1>1, <1>3, <2>3 DEF RequestInv, LateRequest
<1>4. CASE Start
  <2>1. /\ modes = <<>> /\ ~heard /\ pc' \in {"drive", "idle"} /\ leader.lastMode = "none"
        /\ pc' = "idle" => Publish(leader, "stop")
    BY <1>0, <1>4 DEF Start, Goes, CarInv, LeaderInv, LastModeAt
  <2>2. pc' = "idle" => modes' = <<"stop">>
    BY <2>1 DEF Publish, Sends
  <2>3. modes' = <<"stop">> => Only({"stop"})'
    BY DEF Only
  <2> QED
    BY <1>1, <2>1, <2>2, <2>3 DEF RequestInv
<1>5. CASE TurnReported
  <2>1. /\ Publish(leader, "drive_forward_2cm") /\ pc' = "awaitForward"
        /\ leader.lastMode = "turn_ccw_90"
    BY <1>0, <1>5 DEF TurnReported, Moves, Goes, LeaderInv, LastModeAt
  <2>2. Sends("drive_forward_2cm")
    BY <2>1 DEF Publish
  <2>3. modes' # <<>>
    BY <1>0, <1>2, <2>2, SendsType DEF TypeOK
  <2> QED
    BY <2>1, <2>3 DEF RequestInv
<1>6. CASE ChargerDone
  BY <1>3, <1>6 DEF ChargerDone, ForceStop, Goes
<1>7. CASE \/ Arrive \/ PauseOver \/ Settled \/ FindMarker \/ ReachMarker \/ AskTurn
           \/ ForwardReported \/ FaceAbout \/ BackUp \/ StartArm
  <2>1. pc' \notin {"idle", "awaitForward", "charger", "ended"}
    BY <1>7 DEF Arrive, PauseOver, Settled, FindMarker, ReachMarker, AskTurn,
                ForwardReported, FaceAbout, BackUp, StartArm, Moves, Steps, Goes
  <2> QED
    BY <2>1 DEF RequestInv
<1>8. CASE HearStatus \/ ChargerCommand
  <2>1. pc' = pc /\ modes' = modes
    BY <1>8 DEF HearStatus, ChargerCommand, Callback
  <2> QED
    BY <1>1, <2>1 DEF RequestInv, LateRequest, Only
<1>9. CASE CarAtStop
  <2>1. pc = "drive" /\ pc' = pc
    BY <1>0, <1>9 DEF CarAtStop, Callback, LeaderInv
  <2> QED
    BY <2>1 DEF RequestInv
<1>10. CASE Republish
  <2>1. pc' = pc /\ pc \in Spinning
    BY <1>10 DEF Republish, Callback
  <2>2. CASE pc = "charger"
    <3>1. Sends("stop")
      BY <1>0, <1>10, <2>2 DEF Republish, ForceStop, LeaderInv
    <3> QED
      BY <1>3, <2>1, <2>2, <3>1
  <2>3. CASE pc = "idle"
    <3>1. Sends("stop")
      BY <1>0, <1>10, <2>3 DEF Republish, ForceStop, LeaderInv, LastModeAt
    <3>2. Only({"stop"}) /\ (heard => Waits)
      BY <2>3 DEF RequestInv
    <3>3. Only({"stop"})'
      BY <1>0, <1>2, <3>1, <3>2, AgainOnly
    <3> QED
      BY <1>1, <2>1, <2>3, <3>2, <3>3 DEF RequestInv
  <2>4. CASE pc = "awaitForward"
    <3>1. Sends("drive_forward_2cm")
      BY <1>0, <1>10, <2>4 DEF Republish, ForceStop, LeaderInv, LastModeAt
    <3>2. modes' # <<>>
      BY <1>0, <1>2, <3>1, SendsType DEF TypeOK
    <3> QED
      BY <2>1, <2>4, <3>2 DEF RequestInv
  <2>5. CASE pc \notin {"charger", "idle", "awaitForward"}
    BY <2>1, <2>5 DEF RequestInv, Spinning
  <2> QED
    BY <2>2, <2>3, <2>4, <2>5
<1>11. Mission /\ ~Interrupt =>
         \/ Start \/ TurnReported \/ ChargerDone
         \/ Arrive \/ PauseOver \/ Settled \/ FindMarker \/ ReachMarker \/ AskTurn
         \/ ForwardReported \/ FaceAbout \/ BackUp \/ StartArm
  BY DEF Mission
<1> QED
  BY <1>4, <1>5, <1>6, <1>7, <1>8, <1>9, <1>10, <1>11

\* The car reads what is left.
LEMMA HearsRequest ==
  ASSUME IInv, RequestInv, IInv', CarHears
  PROVE  RequestInv'
<1>1. /\ modes # <<>> /\ Len(modes) \in {1, 2} /\ modes[1] \in MissionModes
      /\ UNCHANGED <<pc, leader, turned, advanced>> /\ heard' = TRUE
      /\ Len(modes) = 1 => modes' = <<>> /\ Len(modes') = 0
      /\ Len(modes) = 2 => modes' # <<>> /\ Len(modes') = 1 /\ modes'[1] = modes[2]
      /\ modes[1] \in {"follow", "stop"}
           => car'.mode \in {"Follow", "Stop"} /\ car'.done = {}
      /\ modes[1] = "turn_ccw_90" /\ car.done = {}
           => car'.mode = "TurnCcw90" /\ car'.done = {}
      /\ modes[1] = "drive_forward_2cm" =>
           /\ car'.done = car.done
           /\ car'.mode = IF "DriveForward2cm" \in car.done THEN "Stop"
                          ELSE "DriveForward2cm"
  BY HearsDoes
<1>2. CarInv /\ LeaderInv /\ modes[Len(modes)] = leader.lastMode
  BY <1>1 DEF IInv, Channel
<1>3. ASSUME pc = "idle" PROVE Only({"stop"})' /\ Waits'
  <2>1. Only({"stop"}) /\ (heard => Waits) /\ turned = 0 /\ advanced = 0
    BY <1>2, <1>3 DEF RequestInv, CarInv, Waits, CarIs
  <2>2. modes[1] = "stop" /\ (Len(modes) = 2 => modes[2] = "stop")
    BY <1>1, <2>1 DEF Only
  <2>3. Only({"stop"})'
    BY <1>1, <2>2 DEF Only
  <2> QED
    BY <1>1, <2>1, <2>2, <2>3 DEF Waits, CarIs
<1>4. ASSUME pc = "awaitForward" PROVE ~Turned'
  <2>1. ForwardAsked
    BY <1>2, <1>4 DEF CarInv
  <2>2. modes[1] = "drive_forward_2cm"
    BY <1>1, <2>1 DEF ForwardAsked, Only
  <2>3. Turned \/ Advancing \/ Advanced
    BY <2>1 DEF ForwardAsked
  <2>4. CASE Advanced
    BY <1>1, <2>4 DEF Advanced, Turned, CarIs
  <2>5. CASE Turned \/ Advancing
    <3>1. "DriveForward2cm" \notin car.done
      BY <2>5 DEF Turned, Advancing, CarIs
    <3> QED
      BY <1>1, <2>2, <3>1 DEF Turned, CarIs
  <2> QED
    BY <2>3, <2>4, <2>5
<1>5. ASSUME pc \in {"charger", "ended"} PROVE InOrderYet' /\ LateRequest'
  <2>1. InOrderYet /\ LateRequest /\ leader.lastMode = "stop"
    BY <1>2, <1>5 DEF RequestInv, LeaderInv, LastModeAt
  <2>2. LateRequest'
    BY <1>1, <1>2, <2>1 DEF LateRequest
  <2>3. turned' = turned /\ advanced' = advanced
    BY <1>1
  <2>4. CASE modes[1] \in {"follow", "stop"}
    <3>1. car'.mode \in {"Follow", "Stop"}
      BY <1>1, <2>4
    <3> QED
      BY <2>1, <2>2, <2>3, <3>1 DEF InOrderYet
  <2>5. CASE modes[1] = "turn_ccw_90"
    <3>1. Waits
      BY <1>1, <2>1, <2>5 DEF LateRequest
    <3>2. Turning'
      BY <1>1, <2>5, <3>1 DEF Waits, Turning, CarIs
    <3> QED
      BY <2>1, <2>2, <2>3, <3>2 DEF InOrderYet
  <2>6. CASE modes[1] = "drive_forward_2cm"
    <3>1. Turned \/ Advancing \/ BehindIt
      BY <1>1, <2>1, <2>6 DEF LateRequest
    <3>2. CASE Turned \/ Advancing
      <4>1. Advancing'
        BY <1>1, <2>6, <3>2 DEF Turned, Advancing, CarIs
      <4> QED
        BY <2>1, <2>2, <2>3, <4>1 DEF InOrderYet
    <3>3. CASE BehindIt
      <4>1. car'.mode = "Stop"
        BY <1>1, <2>6, <3>3 DEF BehindIt
      <4> QED
        BY <2>1, <2>2, <2>3, <4>1 DEF InOrderYet
    <3> QED
      BY <3>1, <3>2, <3>3
  <2> QED
    BY <1>1, <2>2, <2>4, <2>5, <2>6 DEF MissionModes
<1> QED
  BY <1>1, <1>3, <1>4, <1>5 DEF RequestInv

\* The car's control step ends the task that it is at.
LEMMA ControlsRequest ==
  ASSUME IInv, RequestInv, NEW how \in Circumstances, CarControls(how)
  PROVE  RequestInv'
<1>1. UNCHANGED <<pc, leader, modes, heard>>
  BY ControlsDoes
<1>2. CASE car'.mode = car.mode /\ car'.done = car.done /\ UNCHANGED <<turned, advanced>>
  <2>1. /\ Waits' = Waits /\ Turned' = Turned /\ InOrderYet' = InOrderYet
        /\ Advancing' = Advancing /\ BehindIt' = BehindIt
    BY <1>1, <1>2 DEF Waits, Turned, InOrderYet, Turning, Advancing, BehindIt, CarIs
  <2> QED
    BY <1>1, <2>1 DEF RequestInv, LateRequest, Only
<1>3. CASE /\ car.mode \in Manoeuvres /\ car'.mode = "Stop"
           /\ car.mode # "AlignBStopYaw" => car'.done = car.done \cup {car.mode}
           /\ turned' = IF heard /\ car.mode = "TurnCcw90" /\ turned < 2
                        THEN turned + 1 ELSE turned
           /\ advanced' = IF heard /\ car.mode = "DriveForward2cm" /\ advanced < 2
                          THEN advanced + 1 ELSE advanced
  <2>1. car.mode \notin {"Follow", "Stop"} /\ ~Waits /\ ~Turned /\ ~Advanced /\ ~BehindIt
    BY <1>3, StatusValues DEF Waits, Turned, Advanced, BehindIt, CarIs
  <2>2. ASSUME pc = "idle" PROVE ~heard /\ Only({"stop"})'
    BY <1>1, <2>1, <2>2 DEF RequestInv, Only
  <2>3. ASSUME pc = "awaitForward" PROVE ~Turned'
    <3>1. Advancing /\ heard
      BY <2>1, <2>3 DEF IInv, CarInv, ForwardAsked
    <3>2. advanced' = 1
      BY <1>3, <3>1 DEF Advancing, CarIs
    <3> QED
      BY <3>2 DEF Turned, CarIs
  <2>4. ASSUME pc \in {"charger", "ended"} PROVE InOrderYet' /\ LateRequest'
    <3>1. InOrderYet /\ LateRequest
      BY <2>4 DEF RequestInv
    <3>2. LateRequest'
      <4>1. /\ modes' = modes /\ heard' = heard
            /\ Advancing => BehindIt' /\ heard
        <5>1. Advancing => heard
          BY DEF IInv, CarInv, Advancing, CarIs
        <5>2. Advancing => /\ car'.mode = "Stop" /\ "DriveForward2cm" \in car'.done
                           /\ turned' = 1 /\ advanced' = 1
          BY <1>3, <5>1 DEF Advancing, CarIs
        <5> QED
          BY <1>1, <5>1, <5>2 DEF BehindIt
      <4> QED
        BY <2>1, <3>1, <4>1 DEF LateRequest
    <3>3. CASE ~heard
      <4>1. turned' = turned /\ advanced' = advanced /\ ~heard'
        BY <1>1, <1>3, <3>3
      <4> QED
        BY <3>1, <3>2, <4>1 DEF InOrderYet
    <3>4. CASE heard /\ Turning
      <4>1. turned' = 1 /\ advanced' = 0
        BY <1>3, <3>4 DEF Turning, CarIs
      <4> QED
        BY <1>3, <3>2, <4>1 DEF InOrderYet
    <3>5. CASE heard /\ Advancing
      <4>1. turned' = 1 /\ advanced' = 1
        BY <1>3, <3>5 DEF Advancing, CarIs
      <4> QED
        BY <1>3, <3>2, <4>1 DEF InOrderYet
    <3> QED
      BY <2>1, <3>1, <3>2, <3>3, <3>4, <3>5 DEF InOrderYet
  <2> QED
    BY <1>1, <2>2, <2>3, <2>4 DEF RequestInv
<1> QED
  BY <1>2, <1>3, ControlsDoes

\* It holds initially, and every step preserves it.
LEMMA InitRequest == Init => RequestInv
BY DEF Init, RequestInv

LEMMA NextRequest == IInv /\ RequestInv /\ [Next]_vars => RequestInv'
<1> SUFFICES ASSUME IInv, RequestInv, [Next]_vars PROVE RequestInv'
  OBVIOUS
<1>0. IInv'
  BY NextIInv
<1>1. CASE Interrupt
  BY <1>1, InterruptRequest
<1>2. CASE (Mission /\ ~Interrupt) \/ HearStatus \/ CarAtStop \/ ChargerCommand \/ Republish
  BY <1>0, <1>2, MissionRequest
<1>3. CASE CarHears
  BY <1>0, <1>3, HearsRequest
<1>4. CASE CarControl
  BY <1>4, ControlsRequest DEF CarControl
<1>5. ASSUME UNCHANGED <<pc, modes, heard, turned, advanced>>,
             car'.mode = car.mode, car'.done = car.done
      PROVE  RequestInv'
  <2>1. /\ Waits' = Waits /\ Turned' = Turned /\ InOrderYet' = InOrderYet
        /\ Advancing' = Advancing /\ BehindIt' = BehindIt
    BY <1>5 DEF Waits, Turned, InOrderYet, Turning, Advancing, BehindIt, CarIs
  <2> QED
    BY <1>5, <2>1 DEF RequestInv, LateRequest, Only
<1>6. CASE CarOdometry
  <2>1. PICK ticks \in BOOLEAN : car' = Odometry(car, ticks)
    BY <1>6 DEF CarOdometry
  <2>2. car'.mode = car.mode /\ car'.done = car.done
    BY <2>1, OthersGood DEF IInv
  <2> QED
    BY <1>5, <1>6, <2>2 DEF CarOdometry
<1>7. CASE CarReopens
  <2>1. car'.mode = car.mode /\ car'.done = car.done
    BY <1>7, OthersGood DEF CarReopens, IInv
  <2> QED
    BY <1>5, <1>7, <2>1 DEF CarReopens
<1>8. CASE UNCHANGED vars
  BY <1>5, <1>8 DEF vars
<1> QED
  BY <1>1, <1>2, <1>3, <1>4, <1>6, <1>7, <1>8 DEF Next

\* The handshake as it is seen at each place: what is asked for, what is under way,
\* what is completed.
Sees(a, w, d) == AskedTask = a /\ UnderWayTask = w /\ turned + advanced = d

LEMMA TogetherSees == IInv /\ RequestInv =>
  (pc \in Together \cup {"start", "idle"} => Sees(0, 0, 0))
<1> SUFFICES ASSUME IInv, RequestInv, pc \in Together \cup {"start", "idle"}
             PROVE  Sees(0, 0, 0)
  OBVIOUS
<1>1. (~heard /\ turned = 0 /\ advanced = 0) \/ Waits
  BY DEF IInv, CarInv, RequestInv
<1>2. UnderWayTask = 0 /\ turned + advanced = 0
  BY <1>1 DEF Waits, CarIs, UnderWayTask
<1>3. Only({"follow", "stop"})
  <2>1. CASE pc \in Together
    BY <2>1 DEF IInv, CarInv
  <2>2. CASE pc = "idle"
    BY <2>2 DEF RequestInv, Only
  <2>3. CASE pc = "start"
    BY <2>3 DEF IInv, CarInv, Only
  <2> QED
    BY <2>1, <2>2, <2>3
<1>4. ~OnItsWay("turn_ccw_90") /\ ~OnItsWay("drive_forward_2cm")
  BY <1>3 DEF Only, OnItsWay
<1> QED
  BY <1>2, <1>4 DEF Sees, AskedTask

LEMMA TurnSees == IInv =>
  (pc = "awaitTurn" =>
     \/ modes # <<>> /\ Waits /\ Sees(1, 0, 0)
     \/ modes = <<>> /\ Turning /\ Sees(0, 1, 0)
     \/ modes = <<>> /\ Turned /\ Sees(0, 0, 1))
<1> SUFFICES ASSUME IInv, pc = "awaitTurn"
             PROVE  \/ modes # <<>> /\ Waits /\ Sees(1, 0, 0)
                    \/ modes = <<>> /\ Turning /\ Sees(0, 1, 0)
                    \/ modes = <<>> /\ Turned /\ Sees(0, 0, 1)
  OBVIOUS
<1>1. TurnAsked /\ heard /\ leader.lastMode = "turn_ccw_90"
  BY DEF IInv, CarInv, LeaderInv, LastModeAt
<1>2. modes = <<>> => ~OnItsWay("turn_ccw_90") /\ ~OnItsWay("drive_forward_2cm")
  BY DEF OnItsWay
<1>3. CASE modes # <<>> /\ Waits
  <2>1. Len(modes) \in 1..Len(modes) /\ modes[Len(modes)] = "turn_ccw_90"
    <3>1. modes[Len(modes)] = "turn_ccw_90"
      BY <1>1, <1>3 DEF IInv, Channel
    <3>2. Len(modes) \in Nat \ {0}
      BY <1>3, EmptySeq DEF IInv, TypeOK
    <3> QED
      BY <3>1, <3>2
  <2>2. OnItsWay("turn_ccw_90")
    BY <2>1 DEF OnItsWay
  <2> QED
    BY <1>3, <2>2 DEF Sees, AskedTask, UnderWayTask, Waits, CarIs
<1>4. CASE modes = <<>> /\ Turning
  BY <1>1, <1>4 DEF Sees, AskedTask, UnderWayTask, Turning, CarIs
<1>5. CASE modes = <<>> /\ Turned
  BY <1>2, <1>5 DEF Sees, AskedTask, UnderWayTask, Turned, CarIs
<1> QED
  BY <1>1, <1>3, <1>4, <1>5 DEF TurnAsked

LEMMA ForwardSees == IInv /\ RequestInv =>
  (pc = "awaitForward" =>
     \/ modes # <<>> /\ Turned /\ Sees(2, 0, 1)
     \/ Advancing /\ Sees(0, 2, 1)
     \/ Advanced /\ Sees(0, 0, 2))
<1> SUFFICES ASSUME IInv, RequestInv, pc = "awaitForward"
             PROVE  \/ modes # <<>> /\ Turned /\ Sees(2, 0, 1)
                    \/ Advancing /\ Sees(0, 2, 1)
                    \/ Advanced /\ Sees(0, 0, 2)
  OBVIOUS
<1>1. ForwardAsked /\ heard /\ leader.lastMode = "drive_forward_2cm"
  BY DEF IInv, CarInv, LeaderInv, LastModeAt
<1>2. CASE Turned
  <2>1. modes # <<>>
    BY <1>2 DEF RequestInv
  <2>2. Len(modes) \in 1..Len(modes) /\ modes[Len(modes)] = "drive_forward_2cm"
    <3>1. modes[Len(modes)] = "drive_forward_2cm"
      BY <1>1, <2>1 DEF IInv, Channel
    <3>2. Len(modes) \in Nat \ {0}
      BY <2>1, EmptySeq DEF IInv, TypeOK
    <3> QED
      BY <3>1, <3>2
  <2>3. OnItsWay("drive_forward_2cm")
    BY <2>2 DEF OnItsWay
  <2> QED
    BY <1>2, <2>1, <2>3 DEF Sees, AskedTask, UnderWayTask, Turned, CarIs
<1>3. CASE Advancing
  BY <1>1, <1>3 DEF Sees, AskedTask, UnderWayTask, Advancing, CarIs
<1>4. CASE Advanced
  BY <1>4 DEF Sees, AskedTask, UnderWayTask, Advanced, CarIs
<1> QED
  BY <1>1, <1>2, <1>3, <1>4 DEF ForwardAsked

LEMMA ApartSees == IInv => (pc \in Apart => Sees(0, 0, 2))
BY DEF IInv, CarInv, HandedOver, Sees, AskedTask, UnderWayTask

\* All of it, of a state and of the state after a step.
SeenFromMission ==
  /\ pc \in Together \cup {"start", "idle"} => Sees(0, 0, 0)
  /\ pc = "awaitTurn" =>
       \/ modes # <<>> /\ Waits /\ Sees(1, 0, 0)
       \/ modes = <<>> /\ Turning /\ Sees(0, 1, 0)
       \/ modes = <<>> /\ Turned /\ Sees(0, 0, 1)
  /\ pc = "awaitForward" =>
       \/ modes # <<>> /\ Turned /\ Sees(2, 0, 1)
       \/ Advancing /\ Sees(0, 2, 1)
       \/ Advanced /\ Sees(0, 0, 2)
  /\ pc \in Apart => Sees(0, 0, 2)

LEMMA SeenNow == IInv /\ RequestInv => SeenFromMission
BY TogetherSees, TurnSees, ForwardSees, ApartSees DEF SeenFromMission

LEMMA SeenThen == IInv' /\ RequestInv' => SeenFromMission'
BY SeenNow, PTL

\* Nothing happens that Handshake could see.
LEMMA SeesSame ==
  ASSUME NEW a, NEW w, NEW d, Sees(a, w, d), Sees(a, w, d)', Client' = Client
  PROVE  UNCHANGED Shake!vars
BY DEF Sees, Shake!vars

LEMMA SameSeen ==
  ASSUME UNCHANGED <<pc, modes, heard, turned, advanced>>, car'.mode = car.mode
  PROVE  UNCHANGED Shake!vars
<1>1. UnderWayTask' = UnderWayTask /\ Client' = Client
  BY DEF UnderWayTask, Client
<1>2. AskedTask' = AskedTask
  BY <1>1 DEF AskedTask, OnItsWay
<1> QED
  BY <1>1, <1>2 DEF Shake!vars

\* What the mission does leaves the tasks of the car as they are.
LEMMA SameTasks ==
  ASSUME UNCHANGED carVars
  PROVE  UnderWayTask' = UnderWayTask /\ (turned + advanced)' = turned + advanced
BY DEF carVars, UnderWayTask

\* Until the handshake, and after it, run() moves on without it.
LEMMA EarlyShakes ==
  ASSUME IInv, RequestInv, IInv', RequestInv',
         \/ pc \in Together \cup {"start", "idle"} /\ pc' \in Together \cup {"start", "idle"}
         \/ pc \in Apart /\ pc' \in Apart
  PROVE  UNCHANGED Shake!vars
<1>1. SeenFromMission /\ SeenFromMission'
  BY SeenNow, SeenThen
<1>2. CASE pc \in Together \cup {"start", "idle"} /\ pc' \in Together \cup {"start", "idle"}
  <2>1. Sees(0, 0, 0) /\ Sees(0, 0, 0)'
    BY <1>1, <1>2 DEF SeenFromMission
  <2>2. Client' = Client
    BY <1>2 DEF Client, Together
  <2> QED
    BY <2>1, <2>2, SeesSame
<1>3. CASE pc \in Apart /\ pc' \in Apart
  <2>1. Sees(0, 0, 2) /\ Sees(0, 0, 2)'
    BY <1>1, <1>3 DEF SeenFromMission
  <2>2. Client' = Client
    BY <1>3 DEF Client, Apart
  <2> QED
    BY <2>1, <2>2, SeesSame
<1> QED
  BY <1>2, <1>3

\* The two requests and the report that ends the handshake.
LEMMA AskShakes ==
  ASSUME IInv, RequestInv, IInv', RequestInv',
         AskTurn \/ TurnReported \/ ForwardReported
  PROVE  Shake!Next
<1>1. SeenFromMission /\ SeenFromMission' /\ CarInv
  BY SeenNow, SeenThen DEF IInv
<1>2. UnderWayTask' = UnderWayTask /\ (turned + advanced)' = turned + advanced
  BY SameTasks DEF AskTurn, TurnReported, ForwardReported, Moves, Goes
<1>3. CASE AskTurn
  <2>1. pc = "align" /\ pc' = "awaitTurn"
    BY <1>3 DEF AskTurn, Moves, Goes
  <2>2. Sees(0, 0, 0)
    BY <1>1, <2>1 DEF SeenFromMission, Together
  <2>3. Sees(1, 0, 0)'
    BY <1>1, <1>2, <2>1, <2>2 DEF SeenFromMission, Sees
  <2>4. Client = "asks" /\ Client' = "asks"
    BY <2>1 DEF Client
  <2>5. Shake!Ask
    BY <2>2, <2>3, <2>4 DEF Shake!Ask, Shake!Resting, Sees
  <2> QED
    BY <2>5 DEF Shake!Next
<1>4. CASE TurnReported
  <2>1. /\ pc = "awaitTurn" /\ pc' = "awaitForward"
        /\ leader.status = EndStatus["TurnCcw90"]
    BY <1>4 DEF TurnReported, Moves, Goes
  <2>2. TurnAsked
    BY <1>1, <2>1 DEF CarInv
  <2>3. modes = <<>> /\ Turned
    BY <2>1, <2>2, StatusValues DEF TurnAsked, Quiet, Reports
  <2>4. Sees(0, 0, 1)
    BY <1>1, <2>1, <2>3 DEF SeenFromMission, Turned, Turning, CarIs
  <2>5. Sees(2, 0, 1)'
    BY <1>1, <1>2, <2>1, <2>4 DEF SeenFromMission, Sees
  <2>6. Client = "asks" /\ Client' = "asks"
    BY <2>1 DEF Client
  <2>7. Shake!Ask
    BY <2>4, <2>5, <2>6 DEF Shake!Ask, Shake!Resting, Sees
  <2> QED
    BY <2>7 DEF Shake!Next
<1>5. CASE ForwardReported
  <2>1. /\ pc = "awaitForward" /\ pc' = "aboutFace"
        /\ leader.status = EndStatus["DriveForward2cm"]
    BY <1>5 DEF ForwardReported, Moves, Goes
  <2>2. ForwardAsked
    BY <1>1, <2>1 DEF CarInv
  <2>3. Advanced
    BY <2>1, <2>2, StatusValues DEF ForwardAsked, Quiet, Reports
  <2>4. Sees(0, 0, 2)
    BY <1>1, <2>1, <2>3 DEF SeenFromMission, Turned, Advancing, Advanced, CarIs
  <2>5. Sees(0, 0, 2)'
    BY <1>1, <2>1 DEF SeenFromMission, Apart
  <2>6. Client = "asks" /\ Client' = "relies"
    BY <2>1 DEF Client
  <2>7. Shake!Rely
    BY <2>4, <2>5, <2>6 DEF Shake!Rely, Shake!Resting, Sees
  <2> QED
    BY <2>7 DEF Shake!Next
<1> QED
  BY <1>3, <1>4, <1>5

\* Once "stop" was the last mode, another "stop" leaves no request.
LEMMA StopShakes ==
  ASSUME IInv, pc \in {"charger", "ended"}, pc' \in {"charger", "ended"},
         Sends("stop"), UNCHANGED carVars
  PROVE  [Shake!Next]_(Shake!vars)
<1>1. leader.lastMode = "stop" /\ TypeOK /\ Channel
  BY DEF IInv, LeaderInv, LastModeAt
<1>2. /\ Len(modes') \in {1, 2} /\ modes'[Len(modes')] = "stop"
      /\ Len(modes') = 2 => modes # <<>> /\ modes'[1] = modes[Len(modes)]
  BY <1>1, SendsType DEF TypeOK, MissionModes
<1>3. \A i \in 1..Len(modes') : modes'[i] = "stop"
  BY <1>1, <1>2 DEF Channel
<1>4. AskedTask' = 0
  BY <1>3 DEF AskedTask, OnItsWay
<1>5. UnderWayTask' = UnderWayTask /\ (turned + advanced)' = turned + advanced
  BY SameTasks
<1>6. Client = "withdrawn" /\ Client' = "withdrawn"
  BY DEF Client
<1>7. CASE AskedTask = 0
  BY <1>4, <1>5, <1>6, <1>7 DEF Shake!vars
<1>8. CASE AskedTask # 0
  <2>1. UnderWayTask = 0
    BY <1>8 DEF AskedTask
  <2>2. Shake!GiveUp
    BY <1>4, <1>5, <1>6, <2>1 DEF Shake!GiveUp
  <2> QED
    BY <2>2 DEF Shake!Next
<1> QED
  BY <1>7, <1>8

\* The charger request.
LEMMA InterruptShakes ==
  ASSUME IInv, RequestInv, Interrupt
  PROVE  Shake!Next
<1>1. /\ pc \in Spinning /\ pc \notin {"charger", "start", "ended"} /\ pc' = "charger"
      /\ Sends("stop") /\ UNCHANGED carVars
      /\ TypeOK /\ Channel /\ CarInv /\ LeaderInv /\ SeenFromMission
  BY SeenNow DEF Interrupt, Interrupted, ForceStop, Goes, IInv, LeaderInv, Spinning
<1>2. /\ Len(modes') \in {1, 2} /\ modes'[Len(modes')] = "stop"
      /\ Len(modes') = 2 => modes # <<>> /\ modes'[1] = modes[Len(modes)]
  BY <1>1, SendsType DEF TypeOK, MissionModes
<1>3. \A i \in 1..Len(modes') :
        modes'[i] = "stop" \/ (modes # <<>> /\ modes'[i] = leader.lastMode)
  BY <1>1, <1>2 DEF Channel
<1>4. /\ UnderWayTask' = UnderWayTask /\ (turned + advanced)' = turned + advanced
      /\ turned' = turned /\ advanced' = advanced
  BY <1>1, SameTasks DEF carVars
<1>5. AskedTask' \in {0, AskedTask}
  <2>1. CASE AskedTask' = 1
    <3>1. OnItsWay("turn_ccw_90")'
      BY <2>1 DEF AskedTask
    <3>2. modes # <<>> /\ leader.lastMode = "turn_ccw_90"
      BY <1>3, <3>1 DEF OnItsWay
    <3>3. pc = "awaitTurn"
      BY <1>1, <3>2 DEF LeaderInv, LastModeAt
    <3>4. AskedTask = 1
      BY <1>1, <3>2, <3>3 DEF SeenFromMission, Sees
    <3> QED
      BY <2>1, <3>4
  <2>2. CASE AskedTask' = 2
    <3>1. OnItsWay("drive_forward_2cm")' /\ UnderWayTask' = 0 /\ advanced' = 0
      BY <2>2 DEF AskedTask
    <3>2. leader.lastMode = "drive_forward_2cm"
      BY <1>3, <3>1 DEF OnItsWay
    <3>3. pc = "awaitForward"
      BY <1>1, <3>2 DEF LeaderInv, LastModeAt
    <3>4. AskedTask = 2
      BY <1>1, <1>4, <3>1, <3>3 DEF SeenFromMission, Sees, Advanced, CarIs
    <3> QED
      BY <2>2, <3>4
  <2>3. AskedTask' \in {0, 1, 2}
    BY DEF AskedTask
  <2> QED
    BY <2>1, <2>2, <2>3
<1>6. Client # "withdrawn" /\ Client' = "withdrawn"
  BY <1>1 DEF Client
<1>7. Shake!Withdraw
  BY <1>4, <1>5, <1>6 DEF Shake!Withdraw
<1> QED
  BY <1>7 DEF Shake!Next

\* Every step of the mission and its callbacks.
LEMMA MissionShakes ==
  ASSUME IInv, RequestInv, IInv', RequestInv',
         Mission \/ HearStatus \/ CarAtStop \/ ChargerCommand \/ Republish
  PROVE  [Shake!Next]_(Shake!vars)
<1>0. CarInv /\ LeaderInv
  BY DEF IInv
<1>1. CASE Start \/ Arrive \/ PauseOver \/ Settled \/ FindMarker \/ ReachMarker
  <2>1. pc \in Together \cup {"start", "idle"} /\ pc' \in Together \cup {"start", "idle"}
    BY <1>1 DEF Start, Arrive, PauseOver, Settled, FindMarker, ReachMarker, Moves, Steps,
                Goes, Together
  <2> QED
    BY <2>1, EarlyShakes
<1>2. CASE FaceAbout \/ BackUp \/ StartArm
  <2>1. pc \in Apart /\ pc' \in Apart
    BY <1>2 DEF FaceAbout, BackUp, StartArm, Moves, Steps, Goes, Apart
  <2> QED
    BY <2>1, EarlyShakes
<1>3. CASE AskTurn \/ TurnReported \/ ForwardReported
  BY <1>3, AskShakes
<1>4. CASE Interrupt
  BY <1>4, InterruptShakes
<1>5. CASE ChargerDone
  <2>1. pc = "charger" /\ pc' = "ended" /\ Sends("stop") /\ UNCHANGED carVars
    BY <1>5 DEF ChargerDone, ForceStop, Goes
  <2> QED
    BY <2>1, StopShakes
<1>6. CASE HearStatus \/ ChargerCommand
  <2>1. UNCHANGED <<pc, modes, heard, turned, advanced>> /\ car'.mode = car.mode
    BY <1>6 DEF HearStatus, ChargerCommand, Callback, carVars
  <2> QED
    BY <2>1, SameSeen
<1>7. CASE CarAtStop
  <2>1. pc = "drive" /\ pc' = "drive"
    BY <1>0, <1>7 DEF CarAtStop, Callback, LeaderInv
  <2> QED
    BY <2>1, EarlyShakes DEF Together
<1>8. CASE Republish
  <2>1. pc' = pc /\ UNCHANGED carVars /\ pc \in Spinning
    BY <1>8 DEF Republish, Callback
  <2>2. CASE pc \in Together \cup {"idle"}
    BY <2>1, <2>2, EarlyShakes
  <2>3. CASE pc \in Apart
    BY <2>1, <2>3, EarlyShakes
  <2>4. CASE pc = "charger"
    <3>1. Sends("stop")
      BY <1>0, <1>8, <2>4 DEF Republish, ForceStop, LeaderInv
    <3> QED
      BY <2>1, <2>4, <3>1, StopShakes
  <2>5. CASE pc = "awaitForward"
    <3>1. SeenFromMission /\ SeenFromMission'
      BY SeenNow, SeenThen
    <3>2. /\ Turned' = Turned /\ Advancing' = Advancing /\ Advanced' = Advanced
          /\ UnderWayTask' = UnderWayTask /\ (turned + advanced)' = turned + advanced
      BY <2>1, CarAlone, SameTasks
    <3>3. AskedTask' = AskedTask
      BY <2>1, <2>5, <3>1, <3>2 DEF SeenFromMission, Sees
    <3>4. Client' = Client
      BY <2>1 DEF Client
    <3> QED
      BY <3>2, <3>3, <3>4 DEF Shake!vars
  <2>6. CASE pc = "awaitTurn"
    BY <1>0, <1>8, <2>6 DEF Republish, LeaderInv, LastModeAt
  <2> QED
    BY <2>1, <2>2, <2>3, <2>4, <2>5, <2>6 DEF Spinning, Places, Together, Apart
<1> QED
  BY <1>1, <1>2, <1>3, <1>4, <1>5, <1>6, <1>7, <1>8 DEF Mission

\* The car begins what it reads of, if it is asked for.
LEMMA HearsShakes ==
  ASSUME IInv, RequestInv, IInv', RequestInv', CarHears
  PROVE  [Shake!Next]_(Shake!vars)
<1>1. /\ modes # <<>> /\ Len(modes) \in {1, 2} /\ modes[1] \in MissionModes
      /\ UNCHANGED <<pc, leader, turned, advanced>> /\ heard' = TRUE
      /\ Len(modes) = 1 => modes' = <<>> /\ Len(modes') = 0
      /\ Len(modes) = 2 => modes' # <<>> /\ Len(modes') = 1 /\ modes'[1] = modes[2]
      /\ modes[1] \in {"follow", "stop"}
           => car'.mode \in {"Follow", "Stop"} /\ car'.done = {}
      /\ modes[1] = "turn_ccw_90" /\ car.done = {}
           => car'.mode = "TurnCcw90" /\ car'.done = {}
      /\ modes[1] = "drive_forward_2cm" =>
           /\ car'.done = car.done
           /\ car'.mode = IF "DriveForward2cm" \in car.done THEN "Stop"
                          ELSE "DriveForward2cm"
  BY HearsDoes
<1>2. SeenFromMission /\ SeenFromMission' /\ CarInv /\ LeaderInv
  BY SeenNow, SeenThen DEF IInv
<1>3. Client' = Client /\ turned' = turned /\ advanced' = advanced
  BY <1>1 DEF Client
<1>4. (turned + advanced)' = turned + advanced
  BY <1>3
<1>5. ASSUME NEW t \in {1, 2}, AskedTask = t, UnderWayTask' = t
      PROVE  Shake!Begin
  <2>1. AskedTask' = 0
    BY <1>5 DEF AskedTask
  <2> QED
    BY <1>3, <1>4, <1>5, <2>1 DEF Shake!Begin
<1>6. CASE pc \in Together \cup {"start", "idle"} \/ pc \in Apart
  BY <1>1, <1>6, EarlyShakes
<1>7. CASE pc = "awaitTurn"
  <2>1. Sees(1, 0, 0)
    BY <1>1, <1>2, <1>7 DEF SeenFromMission
  <2>2. Sees(1, 0, 0)' \/ Sees(0, 1, 0)'
    BY <1>1, <1>2, <1>4, <1>7, <2>1 DEF SeenFromMission, Sees
  <2>3. CASE Sees(1, 0, 0)'
    BY <1>3, <2>1, <2>3, SeesSame
  <2>4. CASE Sees(0, 1, 0)'
    <3>1. Shake!Begin
      BY <1>5, <2>1, <2>4 DEF Sees
    <3> QED
      BY <3>1 DEF Shake!Next
  <2> QED
    BY <2>2, <2>3, <2>4
<1>8. CASE pc = "awaitForward"
  <2>1. modes[1] = "drive_forward_2cm"
    BY <1>1, <1>2, <1>8 DEF CarInv, ForwardAsked, Only
  <2>2. CASE Turned \/ Advancing
    <3>1. car'.mode = "DriveForward2cm"
      BY <1>1, <2>1, <2>2 DEF Turned, Advancing, CarIs
    <3>2. UnderWayTask' = 2
      BY <1>1, <3>1 DEF UnderWayTask
    <3>3. CASE Turned
      <4>1. AskedTask = 2
        BY <1>2, <1>8, <3>3 DEF SeenFromMission, Sees, Turned, Advancing, Advanced, CarIs
      <4>2. Shake!Begin
        BY <1>5, <3>2, <4>1
      <4> QED
        BY <4>2 DEF Shake!Next
    <3>4. CASE Advancing
      <4>1. AskedTask = 0 /\ UnderWayTask = 2
        BY <1>2, <1>8, <3>4 DEF SeenFromMission, Sees, Turned, Advancing, Advanced, CarIs
      <4>2. AskedTask' = 0
        BY <3>2 DEF AskedTask
      <4> QED
        BY <1>3, <1>4, <3>2, <4>1, <4>2 DEF Shake!vars
    <3> QED
      BY <2>2, <3>3, <3>4
  <2>3. CASE Advanced
    <3>1. Sees(0, 0, 2)
      BY <1>2, <1>8, <2>3 DEF SeenFromMission, Turned, Advancing, Advanced, CarIs
    <3>2. Sees(0, 0, 2)'
      BY <1>1, <1>2, <1>4, <1>8, <3>1 DEF SeenFromMission, Sees
    <3> QED
      BY <1>3, <3>1, <3>2, SeesSame
  <2> QED
    BY <1>2, <1>8, <2>2, <2>3 DEF CarInv, ForwardAsked
<1>9. CASE pc \in {"charger", "ended"}
  <2>1. InOrderYet /\ LateRequest /\ leader.lastMode = "stop" /\ Client = "withdrawn"
    BY <1>2, <1>9 DEF RequestInv, LeaderInv, LastModeAt, Client
  <2>2. modes[Len(modes)] = "stop"
    BY <1>1, <2>1 DEF IInv, Channel
  <2>3. \A i \in 1..Len(modes') : modes'[i] = "stop"
    BY <1>1, <2>2
  <2>4. AskedTask' = 0
    BY <2>3 DEF AskedTask, OnItsWay
  <2>5. ASSUME UnderWayTask' = 0 PROVE Shake!GiveUp
    BY <1>3, <1>4, <2>1, <2>4, <2>5 DEF Shake!GiveUp
  <2>6. CASE modes[1] \in {"follow", "stop"}
    <3>1. UnderWayTask' = 0
      BY <1>1, <2>6 DEF UnderWayTask
    <3> QED
      BY <2>5, <3>1 DEF Shake!Next
  <2>7. CASE modes[1] = "turn_ccw_90"
    <3>1. Waits /\ heard
      BY <1>1, <2>1, <2>7 DEF LateRequest
    <3>2. UnderWayTask' = 1 /\ UnderWayTask = 0
      BY <1>1, <2>7, <3>1 DEF UnderWayTask, Waits, CarIs
    <3>3. OnItsWay("turn_ccw_90")
      BY <1>1, <2>7 DEF OnItsWay
    <3>4. AskedTask = 1
      BY <3>1, <3>2, <3>3 DEF AskedTask, Waits, CarIs
    <3>5. Shake!Begin
      BY <1>5, <3>2, <3>4
    <3> QED
      BY <3>5 DEF Shake!Next
  <2>8. CASE modes[1] = "drive_forward_2cm"
    <3>1. heard /\ (Turned \/ Advancing \/ BehindIt)
      BY <1>1, <2>1, <2>8 DEF LateRequest
    <3>2. OnItsWay("drive_forward_2cm")
      BY <1>1, <2>8 DEF OnItsWay
    <3>3. CASE Turned
      <4>1. UnderWayTask' = 2 /\ UnderWayTask = 0
        BY <1>1, <2>8, <3>3 DEF UnderWayTask, Turned, CarIs
      <4>2. AskedTask = 2
        BY <3>2, <3>3, <4>1 DEF AskedTask, Turned, CarIs
      <4>3. Shake!Begin
        BY <1>5, <4>1, <4>2
      <4> QED
        BY <4>3 DEF Shake!Next
    <3>4. CASE Advancing
      <4>1. UnderWayTask' = 2 /\ UnderWayTask = 2
        BY <1>1, <2>8, <3>1, <3>4 DEF UnderWayTask, Advancing, CarIs
      <4>2. AskedTask = 0
        BY <4>1 DEF AskedTask
      <4> QED
        BY <1>3, <1>4, <2>4, <4>1, <4>2 DEF Shake!vars
    <3>5. CASE BehindIt
      <4>1. UnderWayTask' = 0
        BY <1>1, <2>8, <3>5 DEF UnderWayTask, BehindIt
      <4> QED
        BY <2>5, <4>1 DEF Shake!Next
    <3> QED
      BY <3>1, <3>3, <3>4, <3>5
  <2> QED
    BY <1>1, <2>6, <2>7, <2>8 DEF MissionModes
<1>10. pc \in Places
  BY DEF IInv, TypeOK
<1> QED
  BY <1>6, <1>7, <1>8, <1>9, <1>10 DEF Shake!Next, Places, Together, Apart

\* The car completes what it is at.
LEMMA ControlsShakes ==
  ASSUME IInv, RequestInv, IInv', RequestInv', NEW how \in Circumstances, CarControls(how)
  PROVE  [Shake!Next]_(Shake!vars)
<1>1. UNCHANGED <<pc, leader, modes, heard>>
  BY ControlsDoes
<1>2. CASE car'.mode = car.mode /\ UNCHANGED <<turned, advanced>>
  BY <1>1, <1>2, SameSeen
<1>3. CASE /\ car.mode \in Manoeuvres /\ car'.mode = "Stop"
           /\ turned' = IF heard /\ car.mode = "TurnCcw90" /\ turned < 2
                        THEN turned + 1 ELSE turned
           /\ advanced' = IF heard /\ car.mode = "DriveForward2cm" /\ advanced < 2
                          THEN advanced + 1 ELSE advanced
  <2>1. UnderWayTask' = 0 /\ Client' = Client
    BY <1>1, <1>3 DEF UnderWayTask, Client
  <2>2. CarInv /\ car.mode \notin {"Follow", "Stop"} /\ pc \in Places
    BY <1>3, StatusValues DEF IInv, TypeOK
  <2>3. heard => Turning \/ Advancing
    <3>1. pc \in Together \cup {"start", "idle"} \cup Apart => ~heard
      BY <2>2 DEF CarInv, RequestInv, HandedOver, Waits, CarIs
    <3>2. pc = "awaitTurn" => Turning
      BY <2>2 DEF CarInv, TurnAsked, Waits, Turned, CarIs
    <3>3. pc = "awaitForward" => Advancing
      BY <2>2 DEF CarInv, ForwardAsked, Turned, Advanced, CarIs
    <3>4. pc \in {"charger", "ended"} => (heard => Turning \/ Advancing)
      BY <2>2 DEF RequestInv, InOrderYet
    <3> QED
      BY <2>2, <3>1, <3>2, <3>3, <3>4 DEF Places, Together, Apart
  <2>4. CASE ~heard
    <3>1. UnderWayTask = 0 /\ turned' = turned /\ advanced' = advanced
      BY <1>3, <2>4 DEF UnderWayTask
    <3>2. AskedTask' = AskedTask
      BY <1>1, <2>1, <3>1 DEF AskedTask, OnItsWay
    <3> QED
      BY <2>1, <3>1, <3>2 DEF Shake!vars
  <2>5. CASE heard /\ Turning
    <3>1. UnderWayTask = 1 /\ turned' = 1 /\ advanced' = 0
      BY <1>3, <2>5 DEF Turning, CarIs, UnderWayTask
    <3>2. ~OnItsWay("drive_forward_2cm")
      <4>1. pc \in {"awaitTurn", "charger", "ended"}
        <5>1. pc \notin Together \cup {"start", "idle"} \cup Apart
          BY <2>2, <2>5 DEF CarInv, RequestInv, HandedOver, Waits, CarIs
        <5>2. pc # "awaitForward"
          BY <2>2, <2>5 DEF CarInv, ForwardAsked, Turned, Advancing, Advanced, Turning, CarIs
        <5> QED
          BY <2>2, <5>1, <5>2 DEF Places, Together, Apart
      <4>2. CASE pc = "awaitTurn"
        <5>1. modes = <<>>
          BY <2>2, <2>5, <4>2 DEF CarInv, TurnAsked, Turning, Waits, CarIs
        <5> QED
          BY <5>1 DEF OnItsWay
      <4>3. CASE pc \in {"charger", "ended"}
        <5>1. LateRequest /\ leader.lastMode = "stop" /\ modes \in Seq(MissionModes)
              /\ Len(modes) <= 2 /\ Channel
          BY <4>3 DEF RequestInv, IInv, TypeOK, LeaderInv, LastModeAt
        <5>2. modes # <<>> => modes[Len(modes)] = "stop" /\ modes[1] # "drive_forward_2cm"
          BY <2>5, <5>1 DEF LateRequest, Channel, Turning, Turned, Advancing, BehindIt, CarIs
        <5>3. modes # <<>> => Len(modes) \in {1, 2}
          BY <5>1, FirstOfTwo
        <5> QED
          BY <5>2, <5>3 DEF OnItsWay
      <4> QED
        BY <4>1, <4>2, <4>3
    <3>3. AskedTask' = 0 /\ AskedTask = 0
      BY <1>1, <2>1, <3>1, <3>2 DEF AskedTask, OnItsWay
    <3>4. Shake!Complete
      BY <2>1, <3>1, <3>3 DEF Shake!Complete
    <3> QED
      BY <3>4 DEF Shake!Next
  <2>6. CASE heard /\ Advancing
    <3>1. UnderWayTask = 2 /\ turned' = 1 /\ advanced' = 1
      BY <1>3, <2>6 DEF Advancing, CarIs, UnderWayTask
    <3>2. AskedTask' = 0 /\ AskedTask = 0
      BY <3>1 DEF AskedTask
    <3>3. Shake!Complete
      BY <2>1, <3>1, <3>2 DEF Shake!Complete
    <3> QED
      BY <3>3 DEF Shake!Next
  <2> QED
    BY <2>3, <2>4, <2>5, <2>6
<1> QED
  BY <1>2, <1>3, ControlsDoes

\* Every step of mission and car is one of Handshake, or nothing that it sees.
LEMMA ShakeStep == IInv /\ RequestInv /\ [Next]_vars => [Shake!Next]_(Shake!vars)
<1> SUFFICES ASSUME IInv, RequestInv, [Next]_vars PROVE [Shake!Next]_(Shake!vars)
  OBVIOUS
<1>0. IInv' /\ RequestInv'
  BY NextIInv, NextRequest
<1>1. CASE Mission \/ HearStatus \/ CarAtStop \/ ChargerCommand \/ Republish
  BY <1>0, <1>1, MissionShakes
<1>2. CASE CarHears
  BY <1>0, <1>2, HearsShakes
<1>3. CASE CarControl
  BY <1>0, <1>3, ControlsShakes DEF CarControl
<1>4. CASE CarOdometry
  <2>1. PICK ticks \in BOOLEAN : car' = Odometry(car, ticks)
    BY <1>4 DEF CarOdometry
  <2>2. car'.mode = car.mode
    BY <2>1, OthersGood DEF IInv
  <2> QED
    BY <1>4, <2>2, SameSeen DEF CarOdometry
<1>5. CASE CarReopens
  <2>1. car'.mode = car.mode
    BY <1>5, OthersGood DEF CarReopens, IInv
  <2> QED
    BY <1>5, <2>1, SameSeen DEF CarReopens
<1>6. CASE UNCHANGED vars
  BY <1>6, SameSeen DEF vars
<1> QED
  BY <1>1, <1>2, <1>3, <1>4, <1>5, <1>6 DEF Next

\* Mission and car implement Handshake, also after a charger request: a task is
\* begun only when it is asked for, carried out once, and the second is asked for
\* only when the first is completed.
THEOREM ConvoyImplementsHandshake == Spec => HandshakeKept
<1>1. Init => Shake!Init
  <2> SUFFICES ASSUME Init PROVE Shake!Init
    OBVIOUS
  <2>1. Client = "asks" /\ UnderWayTask = 0 /\ turned + advanced = 0
    BY DEF Init, Client, UnderWayTask
  <2>2. AskedTask = 0
    BY DEF Init, AskedTask, OnItsWay
  <2> QED
    BY <2>1, <2>2 DEF Shake!Init
<1>2. IInv /\ RequestInv /\ [Next]_vars => IInv' /\ RequestInv'
  BY NextIInv, NextRequest
<1> QED
  BY <1>1, <1>2, InitIInv, InitRequest, ShakeStep, PTL DEF Spec, HandshakeKept, Shake!Spec

\* Tasks come one at a time and in order, and the car rests when the robot relies on
\* it: what Handshake promises, of the mission and the car.
THEOREM TasksInOrder == Spec => []Shake!InOrder
<1>1. Shake!Init => Shake!InOrder
  BY DEF Shake!Init, Shake!InOrder, Shake!Resting
<1>2. Shake!InOrder /\ [Shake!Next]_(Shake!vars) => Shake!InOrder'
  BY DEF Shake!InOrder, Shake!Resting, Shake!Next, Shake!vars, Shake!Ask, Shake!Begin,
         Shake!Complete, Shake!Rely, Shake!Withdraw, Shake!GiveUp
<1> QED
  BY <1>1, <1>2, ConvoyImplementsHandshake, PTL DEF HandshakeKept, Shake!Spec
=============================================================================
