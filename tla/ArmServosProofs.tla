--------------------------- MODULE ArmServosProofs ---------------------------
(***************************************************************************)
(* Theorems about ArmServos: the order of the poses and what a broken line *)
(* can spoil, for any number of servos, poses, lines under way and faults. *)
(***************************************************************************)
EXTENDS ArmServos, TLAPS

\* From the servos back to the arm, the poses get newer: what the ESP32 obeys,
\* the lines to it, what the bridge is about to write, what waits for the bridge.
OrderInv ==
  /\ command <= Newest
  /\ \A i \in 1..Len(wire) : command <= wire[i].pose /\ wire[i].pose <= Newest
  /\ \A i, j \in 1..Len(wire) : i <= j => wire[i].pose <= wire[j].pose
  /\ pending # NoPose =>
       /\ command <= pending /\ pending <= Newest
       /\ \A i \in 1..Len(wire) : wire[i].pose <= pending
  /\ \A k \in 1..Len(topic) :
       /\ command <= topic[k] /\ topic[k] <= Newest
       /\ pending <= topic[k]
       /\ \A i \in 1..Len(wire) : wire[i].pose <= topic[k]
  /\ \A k, l \in 1..Len(topic) : k <= l => topic[k] <= topic[l]

IInv == TypeOK /\ OrderInv /\ OnlyBaseSpoiled

LEMMA NonEmpty ==
  ASSUME NEW S, NEW s \in Seq(S), s # <<>>
  PROVE  /\ Len(s) \in Nat /\ Len(s) >= 1
         /\ Head(s) = s[1] /\ Head(s) \in S
         /\ Tail(s) \in Seq(S) /\ Len(Tail(s)) = Len(s) - 1
         /\ \A i \in 1..Len(Tail(s)) : Tail(s)[i] = s[i + 1] /\ i + 1 \in 1..Len(s)
  OBVIOUS

LEMMA Appended ==
  ASSUME NEW S, NEW s \in Seq(S), NEW x \in S
  PROVE  /\ Append(s, x) \in Seq(S) /\ Len(Append(s, x)) = Len(s) + 1
         /\ \A i \in 1..Len(s) : Append(s, x)[i] = s[i]
         /\ Append(s, x)[Len(s) + 1] = x
  OBVIOUS

LEMMA Bounds ==
  /\ NoPose = 0 /\ NoPose \notin Numbers /\ 1 \in Numbers
  /\ Numbers \subseteq Nat /\ MaxFaults \in Nat
  /\ \A n \in Numbers : n \in Int /\ n >= 1
  /\ \A n \in Numbers \cup {NoPose} : n \in Int /\ n >= 0
BY ArmAssumption DEF NoPose, Numbers

LEMMA InitIInv == Init => IInv
<1> SUFFICES ASSUME Init PROVE IInv
  OBVIOUS
<1>1. PICK p \in Poses : sent = <<p>>
  BY DEF Init
<1>2. sent \in Seq(Poses) /\ Len(sent) = 1 /\ topic \in Seq(Numbers) /\ Len(topic) = 1
      /\ topic[1] = 1
  BY <1>1, Bounds DEF Init
<1>3. wire = <<>> /\ replies = <<>> /\ wire \in Seq(Lines) /\ replies \in Seq({"OK", "ERR"})
      /\ Len(wire) = 0
  BY DEF Init
<1>4. TypeOK
  <2>1. Len(topic) <= Depth /\ Len(wire) <= WireRoom /\ 0 \in 0..MaxFaults /\ Len(sent) \in Numbers
    BY <1>2, <1>3, Bounds, ArmAssumption
  <2>2. port = "closed" /\ leftover = Whole /\ moving = FALSE /\ blind = FALSE /\ faults = 0
        /\ pending = NoPose /\ lastSent = NoPose /\ command = NoPose
        /\ target = BootPose /\ angles = BootPose /\ link \in Links
    BY DEF Init
  <2> QED
    BY <1>2, <1>3, <2>1, <2>2, ArmAssumption DEF TypeOK, Newest
<1>5. OrderInv
  BY <1>2, <1>3, Bounds DEF Init, OrderInv, Newest
<1>6. OnlyBaseSpoiled
  BY DEF Init, OnlyBaseSpoiled
<1> QED
  BY <1>4, <1>5, <1>6 DEF IInv
-----------------------------------------------------------------------------
(* The topic *)

\* A pose that is not older than any before it joins the queue.
LEMMA QueueStep ==
  ASSUME TypeOK, NEW n \in Numbers, Queue(n),
         \A k \in 1..Len(topic) : topic[k] <= n,
         \A k, l \in 1..Len(topic) : k <= l => topic[k] <= topic[l]
  PROVE  /\ topic' \in Seq(Numbers) /\ Len(topic') <= Depth
         /\ \A k, l \in 1..Len(topic') : k <= l => topic'[k] <= topic'[l]
         /\ \A k \in 1..Len(topic') : topic'[k] = n \/ \E l \in 1..Len(topic) : topic'[k] = topic[l]
<1>1. topic \in Seq(Numbers) /\ Len(topic) \in Nat /\ Depth \in Nat \ {0} /\ Len(topic) <= Depth
  BY ArmAssumption DEF TypeOK
<1>2. \A k \in 1..Len(topic) : topic[k] \in Int
  <2>1. \A k \in 1..Len(topic) : topic[k] \in Numbers
    BY <1>1
  <2> QED
    BY <2>1, Bounds
<1>3. CASE Len(topic) < Depth
  <2>1. topic' = Append(topic, n)
    BY <1>3 DEF Queue
  <2>2. topic' \in Seq(Numbers) /\ Len(topic') = Len(topic) + 1
    BY <1>1, <2>1
  <2>3. \A k \in 1..Len(topic') : topic'[k] = IF k <= Len(topic) THEN topic[k] ELSE n
    BY <1>1, <2>1, <2>2
  <2> QED
    BY <1>1, <1>2, <1>3, <2>2, <2>3, Bounds
<1>4. CASE ~(Len(topic) < Depth)
  <2>1. topic # <<>> /\ topic' = Append(Tail(topic), n)
    BY <1>1, <1>4 DEF Queue
  <2>2. /\ Tail(topic) \in Seq(Numbers) /\ Len(Tail(topic)) = Len(topic) - 1
        /\ \A k \in 1..Len(Tail(topic)) : Tail(topic)[k] = topic[k + 1]
    BY <1>1, <2>1, NonEmpty
  <2> DEFINE t == Tail(topic)
  <2>3. topic' = Append(t, n) /\ t \in Seq(Numbers)
    BY <2>1, <2>2
  <2>4. Len(t) = Len(topic) - 1 /\ \A k \in 1..Len(t) : t[k] = topic[k + 1]
    BY <2>2
  <2> HIDE DEF t
  <2>5. /\ topic' \in Seq(Numbers) /\ Len(topic') = Len(t) + 1
        /\ \A k \in 1..Len(t) : topic'[k] = t[k]
        /\ topic'[Len(t) + 1] = n
    BY <2>3, Appended
  <2>6. /\ Len(topic') = Len(topic)
        /\ \A k \in 1..Len(topic') : topic'[k] = IF k < Len(topic) THEN topic[k + 1] ELSE n
    BY <1>1, <2>4, <2>5
  <2>7. \A k \in 1..Len(topic') : k < Len(topic) => k + 1 \in 1..Len(topic)
    BY <1>1, <2>6
  <2>8. \A k \in 1..Len(topic') : topic'[k] = n \/ \E l \in 1..Len(topic) : topic'[k] = topic[l]
    BY <1>1, <2>6, <2>7
  <2>9. n <= n
    BY Bounds
  <2>10. ASSUME NEW k \in 1..Len(topic'), NEW l \in 1..Len(topic'), k <= l
         PROVE  topic'[k] <= topic'[l]
    <3>1. CASE l < Len(topic)
      BY <1>1, <2>6, <2>7, <2>10, <3>1
    <3>2. CASE ~(l < Len(topic))
      BY <1>1, <2>6, <2>7, <2>9, <3>2
    <3> QED
      BY <3>1, <3>2
  <2> QED
    BY <1>1, <1>4, <2>5, <2>6, <2>8, <2>10
<1> QED
  BY <1>3, <1>4

\* The numbers that the orders compare.
LEMMA Typed ==
  ASSUME TypeOK
  PROVE  /\ Len(topic) \in Nat /\ Len(wire) \in Nat /\ Newest \in Int /\ Newest >= 1
         /\ pending \in Int /\ command \in Int
         /\ \A k \in 1..Len(topic) : topic[k] \in Numbers /\ topic[k] \in Int
         /\ \A i \in 1..Len(wire) : wire[i] \in Lines /\ wire[i].pose \in Numbers /\ wire[i].pose \in Int
<1>1. \A k \in 1..Len(topic) : topic[k] \in Numbers
  BY DEF TypeOK
<1>2. \A i \in 1..Len(wire) : wire[i] \in Lines
  BY DEF TypeOK
<1>3. \A l \in Lines : l.pose \in Numbers
  BY DEF Lines
<1>4. Len(topic) \in Nat /\ Len(wire) \in Nat
  BY DEF TypeOK
<1>5. /\ Newest \in Numbers /\ pending \in Numbers \cup {NoPose}
      /\ command \in Numbers \cup {NoPose}
  BY DEF TypeOK
<1> QED
  BY <1>1, <1>2, <1>3, <1>4, <1>5, Bounds

LEMMA PublishStep ==
  ASSUME IInv, NEW p \in Poses, PublishAngles(p)
  PROVE  IInv' /\ command' = command
<1>1. /\ sent \in Seq(Poses) /\ Newest \in Numbers /\ Newest < MaxPoses
      /\ sent' = Append(sent, p)
      /\ UNCHANGED <<link, pending, lastSent, port, wire, replies, leftover, target, command,
                     moving, angles, blind, faults>>
  BY DEF IInv, TypeOK, PublishAngles, bridgeVars, lineVars, espVars
<1>2. /\ sent' \in Seq(Poses) /\ Len(sent') = Newest + 1
      /\ \A n \in 1..Newest : sent'[n] = sent[n]
  BY <1>1, Appended DEF Newest
<1>3. Newest + 1 \in Numbers /\ Newest' = Newest + 1
  BY <1>1, <1>2, ArmAssumption DEF Numbers, Newest
<1>4. \A k \in 1..Len(topic) : topic[k] <= Newest + 1
  BY Typed DEF IInv, OrderInv
<1>5. /\ topic' \in Seq(Numbers) /\ Len(topic') <= Depth
      /\ \A k, l \in 1..Len(topic') : k <= l => topic'[k] <= topic'[l]
      /\ \A k \in 1..Len(topic') :
           topic'[k] = Newest + 1 \/ \E l \in 1..Len(topic) : topic'[k] = topic[l]
  BY <1>3, <1>4, QueueStep DEF IInv, OrderInv, PublishAngles
<1>6. TypeOK'
  BY <1>1, <1>2, <1>3, <1>5 DEF IInv, TypeOK
<1>7. OrderInv'
  <2>0. /\ command <= Newest + 1 /\ pending <= Newest + 1 /\ Newest + 1 <= Newest + 1
        /\ \A i \in 1..Len(wire) : wire[i].pose <= Newest + 1
    <3>1. /\ command <= Newest /\ (pending # NoPose => pending <= Newest)
          /\ \A i \in 1..Len(wire) : wire[i].pose <= Newest
      BY DEF IInv, OrderInv
    <3>2. /\ Newest \in Int /\ Newest >= 1 /\ pending \in Int /\ command \in Int
          /\ \A i \in 1..Len(wire) : wire[i].pose \in Int
      BY Typed DEF IInv
    <3>3. command <= Newest + 1 /\ pending <= Newest + 1 /\ Newest + 1 <= Newest + 1
      BY <3>1, <3>2, Bounds
    <3> QED
      BY <3>1, <3>2, <3>3
  <2>1. \A k \in 1..Len(topic') :
           /\ command <= topic'[k] /\ topic'[k] <= Newest + 1 /\ pending <= topic'[k]
           /\ \A i \in 1..Len(wire) : wire[i].pose <= topic'[k]
    <3>2. \A l \in 1..Len(topic) :
             /\ command <= topic[l] /\ topic[l] <= Newest + 1 /\ pending <= topic[l]
             /\ \A i \in 1..Len(wire) : wire[i].pose <= topic[l]
      BY <1>4 DEF IInv, OrderInv
    <3> QED
      BY <1>5, <2>0, <3>2
  <2>3. /\ \A i \in 1..Len(wire) : command <= wire[i].pose
        /\ \A i, j \in 1..Len(wire) : i <= j => wire[i].pose <= wire[j].pose
        /\ pending # NoPose => command <= pending /\ \A i \in 1..Len(wire) : wire[i].pose <= pending
    BY DEF IInv, OrderInv
  <2> QED
    BY <1>1, <1>3, <1>5, <2>0, <2>1, <2>3 DEF OrderInv
<1>8. OnlyBaseSpoiled'
  <2>1. command = NoPose \/ command \in 1..Newest
    BY Typed, Bounds DEF IInv, TypeOK, OrderInv, Numbers
  <2> QED
    BY <1>1, <1>2, <2>1 DEF IInv, OnlyBaseSpoiled
<1> QED
  BY <1>1, <1>6, <1>7, <1>8 DEF IInv

LEMMA RepublishStep ==
  ASSUME IInv, RepublishCurrentPose
  PROVE  IInv' /\ command' = command
<1>1. /\ Newest \in Numbers /\ Queue(Newest) /\ topic = <<>> /\ Len(topic) = 0
      /\ UNCHANGED <<link, sent, pending, lastSent, port, wire, replies, leftover, target,
                     command, moving, angles, blind, faults>>
  BY DEF IInv, TypeOK, RepublishCurrentPose, bridgeVars, lineVars, espVars
<1>2. /\ topic' \in Seq(Numbers) /\ Len(topic') <= Depth
      /\ \A k, l \in 1..Len(topic') : k <= l => topic'[k] <= topic'[l]
      /\ \A k \in 1..Len(topic') :
           topic'[k] = Newest \/ \E l \in 1..Len(topic) : topic'[k] = topic[l]
  BY <1>1, QueueStep DEF IInv, OrderInv
<1>3. \A k \in 1..Len(topic') : topic'[k] = Newest
  BY <1>1, <1>2
<1>4. TypeOK'
  BY <1>1, <1>2 DEF IInv, TypeOK, Newest
<1>5. OrderInv'
  <2>1. /\ command <= Newest /\ pending <= Newest /\ Newest <= Newest
        /\ \A i \in 1..Len(wire) : wire[i].pose <= Newest
    BY Typed, Bounds DEF IInv, OrderInv
  <2> QED
    BY <1>1, <1>2, <1>3, <2>1 DEF IInv, OrderInv, Newest
<1>6. OnlyBaseSpoiled'
  BY <1>1 DEF IInv, OnlyBaseSpoiled
<1> QED
  BY <1>1, <1>4, <1>5, <1>6 DEF IInv

\* The bridge takes the oldest pose of the topic.
LEMMA HandleStep ==
  ASSUME IInv, HandleAngles
  PROVE  IInv' /\ command' = command
<1>1. /\ topic \in Seq(Numbers) /\ topic # <<>> /\ topic' = Tail(topic)
      /\ pending' \in {NoPose, Head(topic)} /\ port # "waiting"
      /\ UNCHANGED <<link, sent, lastSent, port, wire, replies, leftover, target, command,
                     moving, angles, blind, faults>>
  BY DEF IInv, TypeOK, HandleAngles, lineVars, espVars
<1>2. /\ Head(topic) = topic[1] /\ topic[1] \in Numbers /\ 1 \in 1..Len(topic)
      /\ topic' \in Seq(Numbers) /\ Len(topic') = Len(topic) - 1
      /\ \A k \in 1..Len(topic') : topic'[k] = topic[k + 1] /\ k + 1 \in 1..Len(topic)
  BY <1>1, NonEmpty
<1>3. TypeOK'
  <2>1. Len(topic') <= Depth
    BY <1>2, Typed, ArmAssumption DEF IInv, TypeOK
  <2> QED
    BY <1>1, <1>2, <2>1 DEF IInv, TypeOK, Newest
<1>4. OrderInv'
  <2>1. \A k \in 1..Len(topic') :
          /\ command <= topic'[k] /\ topic'[k] <= Newest /\ topic[1] <= topic'[k]
          /\ \A i \in 1..Len(wire) : wire[i].pose <= topic'[k]
    <3>1. \A k \in 1..Len(topic') : 1 <= k + 1
      OBVIOUS
    <3> QED
      BY <1>2, <3>1 DEF IInv, OrderInv
  <2>2. \A k, l \in 1..Len(topic') : k <= l => topic'[k] <= topic'[l]
    <3>1. \A k, l \in 1..Len(topic') : k <= l => k + 1 <= l + 1
      OBVIOUS
    <3> QED
      BY <1>2, <3>1 DEF IInv, OrderInv
  <2>3. /\ command <= topic[1] /\ topic[1] <= Newest
        /\ \A i \in 1..Len(wire) : wire[i].pose <= topic[1]
    BY <1>2 DEF IInv, OrderInv
  <2>4. \A k \in 1..Len(topic') : NoPose <= topic'[k]
    BY <1>2, Typed, Bounds DEF IInv, Numbers
  <2>5. \A k \in 1..Len(topic') : pending' <= topic'[k]
    BY <1>1, <1>2, <2>1, <2>4
  <2> QED
    BY <1>1, <1>2, <2>1, <2>2, <2>3, <2>5 DEF IInv, OrderInv, Newest
<1>5. OnlyBaseSpoiled'
  BY <1>1 DEF IInv, OnlyBaseSpoiled
<1> QED
  BY <1>1, <1>3, <1>4, <1>5 DEF IInv
-----------------------------------------------------------------------------
(* The lines: what a step does to the order *)

\* What is pending or under way may get lost, and the ESP32 may forget.
LEMMA LoseOrder ==
  ASSUME TypeOK, OrderInv, UNCHANGED <<sent, topic>>, wire' \in {wire, <<>>},
         pending' \in {pending, NoPose}, command' \in {command, NoPose}
  PROVE  OrderInv'
<1>1. /\ \A k \in 1..Len(topic) : NoPose <= topic[k]
      /\ \A i \in 1..Len(wire) : NoPose <= wire[i].pose
      /\ NoPose <= Newest /\ NoPose <= pending
  BY Typed, Bounds DEF Numbers, TypeOK
<1>2. \A i \in 1..Len(wire') : i \in 1..Len(wire) /\ wire'[i] = wire[i]
  <2>1. CASE wire' = wire
    BY <2>1
  <2>2. CASE wire' = <<>>
    BY <2>2
  <2> QED
    BY <2>1, <2>2
<1>3. /\ \A i \in 1..Len(wire') : command' <= wire'[i].pose /\ wire'[i].pose <= Newest
      /\ \A i, j \in 1..Len(wire') : i <= j => wire'[i].pose <= wire'[j].pose
  BY <1>1, <1>2 DEF OrderInv
<1>4. /\ command' <= Newest
      /\ pending' # NoPose =>
           /\ command' <= pending' /\ pending' <= Newest
           /\ \A i \in 1..Len(wire') : wire'[i].pose <= pending'
  BY <1>1, <1>2 DEF OrderInv
<1>5. \A k \in 1..Len(topic) :
        /\ command' <= topic[k] /\ topic[k] <= Newest /\ pending' <= topic[k]
        /\ \A i \in 1..Len(wire') : wire'[i].pose <= topic[k]
  BY <1>1, <1>2 DEF OrderInv
<1>6. \A k, l \in 1..Len(topic) : k <= l => topic[k] <= topic[l]
  BY DEF OrderInv
<1> QED
  BY <1>3, <1>4, <1>5, <1>6 DEF OrderInv, Newest

LEMMA LoseLines ==
  ASSUME TypeOK, wire' \in {wire, <<>>}
  PROVE  wire' \in Seq(Lines) /\ Len(wire') <= WireRoom
<1>1. CASE wire' = wire
  BY <1>1 DEF TypeOK
<1>2. CASE wire' = <<>>
  <2>1. Len(wire') = 0 /\ wire' \in Seq(Lines)
    BY <1>2
  <2> QED
    BY <2>1, ArmAssumption
<1> QED
  BY <1>1, <1>2

\* The bridge writes the pending pose, or a part of it.
LEMMA WriteOrder ==
  ASSUME TypeOK, OrderInv, UNCHANGED <<sent, topic, command>>, pending # NoPose,
         NEW cut \in Cuts \cup {Whole}, wire' = Append(wire, Line(pending, cut)),
         pending' \in {pending, NoPose}
  PROVE  OrderInv' /\ wire' \in Seq(Lines) /\ Len(wire') = Len(wire) + 1
<1>1. /\ Line(pending, cut) \in Lines /\ Line(pending, cut).pose = pending
      /\ pending \in Numbers /\ pending \in Int
  BY Bounds DEF TypeOK, Line, Lines
<1>2. wire \in Seq(Lines) /\ Len(wire) \in Nat
  BY DEF TypeOK
<1>3. /\ wire' \in Seq(Lines) /\ Len(wire') = Len(wire) + 1
      /\ \A i \in 1..Len(wire) : wire'[i] = wire[i]
      /\ wire'[Len(wire) + 1] = Line(pending, cut)
  <2> DEFINE l == Line(pending, cut)
  <2>1. l \in Lines /\ wire' = Append(wire, l)
    BY <1>1
  <2> HIDE DEF l
  <2>2. /\ wire' \in Seq(Lines) /\ Len(wire') = Len(wire) + 1
        /\ \A i \in 1..Len(wire) : wire'[i] = wire[i]
        /\ wire'[Len(wire) + 1] = l
    BY <1>2, <2>1, Appended
  <2> QED
    BY <2>2 DEF l
<1>4. \A i \in 1..Len(wire') :
        \/ i \in 1..Len(wire) /\ wire'[i].pose = wire[i].pose
        \/ i = Len(wire) + 1 /\ wire'[i].pose = pending
  BY <1>1, <1>2, <1>3
<1>5. /\ pending <= pending /\ command <= pending /\ pending <= Newest
      /\ \A i \in 1..Len(wire) : wire[i].pose <= pending
  BY <1>1 DEF OrderInv
<1>6. /\ \A i \in 1..Len(wire') : command <= wire'[i].pose /\ wire'[i].pose <= Newest
      /\ \A i \in 1..Len(wire') : wire'[i].pose <= pending
  BY <1>4, <1>5 DEF OrderInv
<1>7. ASSUME NEW i \in 1..Len(wire'), NEW j \in 1..Len(wire'), i <= j
      PROVE  wire'[i].pose <= wire'[j].pose
  <2>1. CASE j \in 1..Len(wire) /\ wire'[j].pose = wire[j].pose
    <3>1. i \in 1..Len(wire) /\ wire'[i].pose = wire[i].pose
      BY <1>2, <1>4, <1>7, <2>1
    <3> QED
      BY <1>7, <2>1, <3>1 DEF OrderInv
  <2>2. CASE wire'[j].pose = pending
    BY <1>6, <2>2
  <2> QED
    BY <1>4, <2>1, <2>2
<1>8. \A k \in 1..Len(topic) :
        /\ command <= topic[k] /\ topic[k] <= Newest /\ pending' <= topic[k]
        /\ \A i \in 1..Len(wire') : wire'[i].pose <= topic[k]
  <2>1. \A k \in 1..Len(topic) : NoPose <= topic[k]
    BY Typed, Bounds
  <2> QED
    BY <1>4, <2>1 DEF OrderInv
<1>9. \A k, l \in 1..Len(topic) : k <= l => topic[k] <= topic[l]
  BY DEF OrderInv
<1>10. command <= Newest
  BY DEF OrderInv
<1> QED
  BY <1>3, <1>5, <1>6, <1>7, <1>8, <1>9, <1>10 DEF OrderInv, Newest

\* The ESP32 takes the oldest line, and obeys it or not.
LEMMA ReadOrder ==
  ASSUME TypeOK, OrderInv, UNCHANGED <<sent, topic, pending>>, wire # <<>>,
         wire' = Tail(wire), command' \in {command, Head(wire).pose}
  PROVE  /\ OrderInv' /\ wire' \in Seq(Lines) /\ Len(wire') <= WireRoom
         /\ Head(wire) \in Lines /\ Head(wire).pose \in 1..Newest
         /\ command <= Head(wire).pose
<1>1. wire \in Seq(Lines) /\ Len(wire) \in Nat /\ Len(wire) <= WireRoom /\ WireRoom \in Nat
  BY ArmAssumption DEF TypeOK
<1>2. /\ Len(wire) >= 1 /\ Head(wire) = wire[1] /\ Head(wire) \in Lines
      /\ wire' \in Seq(Lines) /\ Len(wire') = Len(wire) - 1
      /\ \A i \in 1..Len(wire') : wire'[i] = wire[i + 1] /\ i + 1 \in 1..Len(wire)
  BY <1>1, NonEmpty
<1>3. 1 \in 1..Len(wire) /\ \A i \in 1..Len(wire') : 1 <= i + 1
  BY <1>1, <1>2
<1>4. /\ command <= wire[1].pose /\ wire[1].pose <= Newest
      /\ wire[1].pose \in Int /\ wire[1].pose >= 1
  BY <1>3, Typed, Bounds DEF OrderInv
<1>5. \A i \in 1..Len(wire') :
        /\ command <= wire'[i].pose /\ wire[1].pose <= wire'[i].pose
        /\ wire'[i].pose <= Newest
        /\ pending # NoPose => wire'[i].pose <= pending
  BY <1>2, <1>3 DEF OrderInv
<1>6. ASSUME NEW i \in 1..Len(wire'), NEW j \in 1..Len(wire'), i <= j
      PROVE  wire'[i].pose <= wire'[j].pose
  <2>1. i + 1 <= j + 1
    BY <1>6
  <2> QED
    BY <1>2, <2>1 DEF OrderInv
<1>7. \A k \in 1..Len(topic) :
        /\ command' <= topic[k] /\ topic[k] <= Newest /\ pending <= topic[k]
        /\ \A i \in 1..Len(wire') : wire'[i].pose <= topic[k]
  BY <1>2, <1>3 DEF OrderInv
<1>8. \A k, l \in 1..Len(topic) : k <= l => topic[k] <= topic[l]
  BY DEF OrderInv
<1>9. /\ command' <= Newest
      /\ pending # NoPose => command' <= pending /\ pending <= Newest
  BY <1>2, <1>3 DEF OrderInv
<1>10. OrderInv'
  BY <1>2, <1>5, <1>6, <1>7, <1>8, <1>9 DEF OrderInv, Newest
<1>11. Head(wire).pose \in 1..Newest
  BY <1>2, <1>4, Typed
<1> QED
  BY <1>1, <1>2, <1>4, <1>10, <1>11
-----------------------------------------------------------------------------
(* The links *)

LEMMA BootKeeps ==
  ASSUME TypeOK, Boot
  PROVE  /\ leftover' \in Cuts \cup {Whole} /\ moving' \in BOOLEAN
         /\ target' \in [Servos -> Angles] /\ angles' \in [Servos -> Angles]
         /\ command' = NoPose
         /\ OnlyBaseSpoiled'
BY ArmAssumption DEF Boot, OnlyBaseSpoiled

LEMMA TryConnectStep ==
  ASSUME IInv, TryConnect
  PROVE  IInv' /\ command' \in {command, NoPose}
<1>1. /\ TypeOK /\ OrderInv /\ OnlyBaseSpoiled
      /\ UNCHANGED <<link, sent, topic, pending, lastSent, faults>>
      /\ port' = "open" /\ replies' = <<>>
      /\ \/ Boot /\ wire' = <<>> /\ blind' = (blind \/ Blinded)
         \/ UNCHANGED <<leftover, target, command, moving, angles, wire, blind>>
  BY DEF IInv, TryConnect, KeepAngles, espVars
<1>2. wire' \in {wire, <<>>} /\ command' \in {command, NoPose}
  BY <1>1 DEF Boot
<1>3. OrderInv'
  BY <1>1, <1>2, LoseOrder
<1>4. wire' \in Seq(Lines) /\ Len(wire') <= WireRoom /\ replies' \in Seq({"OK", "ERR"})
  BY <1>1, <1>2, LoseLines
<1>5. OnlyBaseSpoiled'
  <2>1. CASE Boot
    BY <1>1, <2>1, BootKeeps
  <2>2. CASE UNCHANGED <<target, command>>
    BY <1>1, <2>2 DEF OnlyBaseSpoiled
  <2> QED
    BY <1>1, <2>1, <2>2
<1>6. /\ leftover' \in Cuts \cup {Whole} /\ moving' \in BOOLEAN /\ blind' \in BOOLEAN
      /\ target' \in [Servos -> Angles] /\ angles' \in [Servos -> Angles]
  BY <1>1, BootKeeps DEF TypeOK
<1>7. command' \in Numbers \cup {NoPose}
  BY <1>1, <1>2 DEF TypeOK
<1>8. TypeOK'
  BY <1>1, <1>4, <1>6, <1>7 DEF TypeOK, Newest
<1> QED
  BY <1>2, <1>3, <1>5, <1>8 DEF IInv

LEMMA WriteStep ==
  ASSUME IInv, WriteAngles \/ WriteFails
  PROVE  IInv' /\ command' = command
<1>1. /\ TypeOK /\ OrderInv /\ OnlyBaseSpoiled /\ pending # NoPose
      /\ UNCHANGED <<link, sent, topic, replies, leftover, target, command, moving, angles>>
      /\ pending' \in {pending, NoPose} /\ lastSent' \in {lastSent, pending}
      /\ port' \in {"open", "closed", "waiting"}
      /\ port' = "waiting" => link = "waits" /\ pending' = pending
  BY DEF IInv, TypeOK, WriteAngles, WriteFails, espVars
<1>2. faults' \in 0..MaxFaults
  BY Bounds DEF IInv, TypeOK, WriteAngles, WriteFails, Fault
<1>3. blind' \in BOOLEAN
  BY DEF IInv, TypeOK, WriteAngles, WriteFails
<1>4. \/ wire' = wire
      \/ /\ Len(wire) < WireRoom
         /\ \E cut \in Cuts \cup {Whole} : wire' = Append(wire, Line(pending, cut))
  BY DEF WriteAngles, WriteFails
<1>5. wire' \in Seq(Lines) /\ Len(wire') <= WireRoom /\ OrderInv'
  <2>1. CASE wire' = wire
    BY <1>1, <2>1, LoseOrder DEF TypeOK
  <2>2. ASSUME NEW cut \in Cuts \cup {Whole}, wire' = Append(wire, Line(pending, cut)),
               Len(wire) < WireRoom
        PROVE  wire' \in Seq(Lines) /\ Len(wire') <= WireRoom /\ OrderInv'
    <3>1. wire' \in Seq(Lines) /\ Len(wire') = Len(wire) + 1 /\ OrderInv'
      BY <1>1, <2>2, WriteOrder
    <3>2. Len(wire) \in Nat /\ WireRoom \in Nat
      BY <1>1, ArmAssumption DEF TypeOK
    <3> QED
      BY <2>2, <3>1, <3>2
  <2> QED
    BY <1>4, <2>1, <2>2
<1>6. TypeOK'
  BY <1>1, <1>2, <1>3, <1>5 DEF TypeOK, Newest
<1>7. OnlyBaseSpoiled'
  BY <1>1 DEF OnlyBaseSpoiled
<1> QED
  BY <1>1, <1>5, <1>6, <1>7 DEF IInv

\* Everything of a bridge that writes nothing and resets nothing.
LEMMA QuietStep ==
  ASSUME IInv,
         \/ DropDuplicate \/ Answered \/ AckTimeout \/ ReadFails
         \/ Subscribe \/ Disconnect
  PROVE  IInv' /\ command' = command
<1>1. /\ TypeOK /\ OrderInv /\ OnlyBaseSpoiled
      /\ UNCHANGED <<link, sent, topic, leftover, target, command, moving, angles, blind>>
      /\ pending' \in {pending, NoPose} /\ lastSent' \in {lastSent, pending}
      /\ wire' \in {wire, <<>>} /\ port' \in {"open", "closed"}
  BY DEF IInv, DropDuplicate, Answered, AckTimeout, ReadFails, Subscribe, Disconnect, lineVars,
         espVars
<1>2. faults' \in 0..MaxFaults
  BY Bounds DEF IInv, TypeOK, DropDuplicate, Answered, AckTimeout, ReadFails, Subscribe,
                Disconnect, Fault
<1>3. replies' \in Seq({"OK", "ERR"})
  <2>1. replies \in Seq({"OK", "ERR"})
    BY DEF IInv, TypeOK
  <2>2. replies' = replies \/ (replies # <<>> /\ replies' = Tail(replies))
    BY DEF DropDuplicate, Answered, AckTimeout, ReadFails, Subscribe, Disconnect, lineVars
  <2> QED
    BY <2>1, <2>2, NonEmpty
<1>4. wire' \in Seq(Lines) /\ Len(wire') <= WireRoom
  BY <1>1, LoseLines
<1>5. TypeOK'
  BY <1>1, <1>2, <1>3, <1>4 DEF TypeOK, Newest
<1>6. OrderInv' /\ OnlyBaseSpoiled'
  BY <1>1, LoseOrder DEF OnlyBaseSpoiled
<1> QED
  BY <1>1, <1>5, <1>6 DEF IInv

LEMMA ForwardStep ==
  ASSUME IInv, Forward
  PROVE  IInv' /\ command' = command
<1>1. /\ TypeOK /\ OrderInv /\ OnlyBaseSpoiled /\ pending # NoPose
      /\ UNCHANGED <<link, sent, topic, lastSent, port, replies, leftover, target, command,
                     moving, angles, blind, faults>>
      /\ pending' = NoPose /\ port = "open"
      /\ Whole \in Cuts \cup {Whole} /\ wire' = Append(wire, Line(pending, Whole))
      /\ Len(wire) < WireRoom
  BY DEF IInv, Forward, espVars
<1>2. OrderInv' /\ wire' \in Seq(Lines) /\ Len(wire') = Len(wire) + 1
  BY <1>1, WriteOrder
<1>3. Len(wire') <= WireRoom
  BY <1>1, <1>2, ArmAssumption DEF TypeOK
<1>4. TypeOK'
  BY <1>1, <1>2, <1>3 DEF TypeOK, Newest
<1>5. OnlyBaseSpoiled'
  BY <1>1 DEF OnlyBaseSpoiled
<1> QED
  BY <1>1, <1>2, <1>4, <1>5 DEF IInv
-----------------------------------------------------------------------------
(* The firmware *)

\* A whole line, behind what is left over of another, changes the angle of the
\* base at most.
LEMMA ParseKeeps ==
  ASSUME TypeOK, NEW line \in Lines, line.pose \in 1..Newest, NEW t \in Parse(line)
  PROVE  /\ t \in [Servos -> Angles]
         /\ \A s \in Servos \ {Base} : t[s] = sent[line.pose][s]
<1>1. sent[line.pose] \in [Servos -> Angles]
  BY ArmAssumption DEF TypeOK, Newest
<1>2. CASE leftover = Whole
  BY <1>1, <1>2 DEF Parse
<1>3. CASE leftover # Whole /\ leftover = "first"
  <2>1. PICK a \in Angles : t = [sent[line.pose] EXCEPT ![Base] = a]
    BY <1>3 DEF Parse
  <2> QED
    BY <1>1, <2>1
<1>4. CASE leftover # Whole /\ leftover # "first"
  BY <1>4 DEF Parse
<1> QED
  BY <1>2, <1>3, <1>4

LEMMA ReadStep ==
  ASSUME IInv, ReadPart \/ AcceptLine \/ RejectLine \/ HandleMessage
  PROVE  IInv' /\ command' >= command
<1>1. /\ TypeOK /\ OrderInv /\ OnlyBaseSpoiled /\ wire # <<>> /\ wire' = Tail(wire)
      /\ UNCHANGED <<link, sent, topic, pending, lastSent, port, angles, faults>>
      /\ command' \in {command, Head(wire).pose}
  BY DEF IInv, ReadPart, AcceptLine, RejectLine, HandleMessage, bridgeVars
<1>2. /\ OrderInv' /\ wire' \in Seq(Lines) /\ Len(wire') <= WireRoom
      /\ Head(wire) \in Lines /\ Head(wire).pose \in 1..Newest
      /\ command <= Head(wire).pose
  BY <1>1, ReadOrder
<1>3. command' >= command /\ command' \in Numbers \cup {NoPose}
  <2>1. Head(wire).pose \in Numbers /\ Head(wire).pose \in Int /\ command \in Int
    BY <1>1, <1>2, Typed, Bounds DEF Lines
  <2> QED
    BY <1>1, <1>2, <2>1 DEF TypeOK
<1>4. leftover' \in Cuts \cup {Whole} /\ moving' \in BOOLEAN /\ blind' \in BOOLEAN
  <2>1. \A l \in Lines : l.cut \in Cuts \cup {Whole}
    BY DEF Lines
  <2>2. blind \in BOOLEAN /\ moving \in BOOLEAN /\ leftover \in Cuts \cup {Whole}
    BY <1>1 DEF TypeOK
  <2>3. leftover' \in {leftover, Whole, Head(wire).cut} /\ moving' \in {moving, TRUE}
    BY DEF ReadPart, AcceptLine, RejectLine, HandleMessage
  <2>4. blind' \in BOOLEAN
    BY <2>2 DEF ReadPart, AcceptLine, RejectLine, HandleMessage
  <2> QED
    BY <1>2, <2>1, <2>2, <2>3, <2>4
<1>5. replies' \in Seq({"OK", "ERR"})
  <2>1. replies \in Seq({"OK", "ERR"})
    BY <1>1 DEF TypeOK
  <2>2. replies' = replies \/ replies' = Append(replies, "ERR")
    BY DEF ReadPart, AcceptLine, RejectLine, HandleMessage
  <2> QED
    BY <2>1, <2>2
<1>6. target' \in [Servos -> Angles] /\ OnlyBaseSpoiled'
  <2>1. CASE UNCHANGED <<target, command>>
    BY <1>1, <2>1 DEF TypeOK, OnlyBaseSpoiled
  <2>2. CASE target' \in Parse(Head(wire)) /\ command' = Head(wire).pose
    <3>1. command' # NoPose
      BY <1>2, <2>2, Bounds
    <3> QED
      BY <1>1, <1>2, <2>2, <3>1, ParseKeeps DEF OnlyBaseSpoiled
  <2>3. CASE target' = sent[Head(wire).pose] /\ command' = Head(wire).pose
    <3>1. command' # NoPose
      BY <1>2, <2>3, Bounds
    <3>2. target' \in [Servos -> Angles]
      BY <1>1, <1>2, <2>3, ArmAssumption DEF TypeOK, Newest
    <3> QED
      BY <1>1, <2>3, <3>1, <3>2 DEF OnlyBaseSpoiled
  <2> QED
    BY <2>1, <2>2, <2>3 DEF ReadPart, AcceptLine, RejectLine, HandleMessage
<1>7. TypeOK'
  BY <1>1, <1>2, <1>3, <1>4, <1>5, <1>6 DEF TypeOK, Newest
<1> QED
  BY <1>2, <1>3, <1>6, <1>7 DEF IInv

LEMMA MoveStep ==
  ASSUME IInv, StepServos \/ MoveDone \/ UNCHANGED vars
  PROVE  IInv' /\ command' = command
<1>1. /\ TypeOK /\ OrderInv /\ OnlyBaseSpoiled
      /\ UNCHANGED <<link, sent, topic, pending, lastSent, port, wire, replies, leftover, target,
                     command, blind, faults>>
      /\ moving' \in {moving, FALSE}
  BY DEF IInv, StepServos, MoveDone, vars, bridgeVars, lineVars, espVars
<1>2. angles' \in [Servos -> Angles]
  <2>1. angles \in [Servos -> Angles] /\ target \in [Servos -> Angles]
    BY <1>1 DEF TypeOK
  <2>2. \A a, b \in Angles : Towards(a, b) \in Angles
    BY ArmAssumption DEF Towards, Angles
  <2>3. angles' = angles \/ angles' = [s \in Servos |-> Towards(angles[s], target[s])]
    BY DEF StepServos, MoveDone, vars, espVars
  <2> QED
    BY <2>1, <2>2, <2>3
<1>3. TypeOK'
  BY <1>1, <1>2 DEF TypeOK, Newest
<1>4. OrderInv' /\ OnlyBaseSpoiled'
  BY <1>1 DEF OrderInv, OnlyBaseSpoiled, Newest
<1> QED
  BY <1>1, <1>3, <1>4 DEF IInv

LEMMA RestartStep ==
  ASSUME IInv, Restart
  PROVE  IInv' /\ command' = NoPose
<1>1. /\ TypeOK /\ OrderInv /\ Boot
      /\ UNCHANGED <<link, sent, topic, lastSent>>
      /\ wire' = <<>> /\ pending' \in {pending, NoPose}
      /\ \/ link = "rosbridge" /\ port' = "closed"
         \/ UNCHANGED <<port, pending>>
  BY DEF IInv, Restart
<1>2. /\ leftover' \in Cuts \cup {Whole} /\ moving' \in BOOLEAN
      /\ target' \in [Servos -> Angles] /\ angles' \in [Servos -> Angles]
      /\ command' = NoPose /\ OnlyBaseSpoiled'
  BY <1>1, BootKeeps
<1>3. OrderInv'
  BY <1>1, <1>2, LoseOrder
<1>4. wire' \in Seq(Lines) /\ Len(wire') <= WireRoom
  BY <1>1, LoseLines
<1>5. replies' \in Seq({"OK", "ERR"})
  <2>1. replies \in Seq({"OK", "ERR"})
    BY <1>1 DEF TypeOK
  <2>2. replies' = replies \/ replies' = Append(replies, "OK")
    BY DEF Restart
  <2> QED
    BY <2>1, <2>2
<1>6. faults' \in 0..MaxFaults /\ blind' \in BOOLEAN
  BY <1>1, Bounds DEF TypeOK, Restart, Fault, Blinded
<1>7. TypeOK'
  BY <1>1, <1>2, <1>4, <1>5, <1>6 DEF TypeOK, Newest
<1> QED
  BY <1>2, <1>3, <1>7 DEF IInv
-----------------------------------------------------------------------------
LEMMA NextIInv ==
  ASSUME IInv, [Next]_vars
  PROVE  IInv' /\ (command' >= command \/ command' = NoPose)
<1>1. ASSUME command' = command PROVE command' >= command
  BY <1>1, Typed DEF IInv
<1>2. CASE Arm \/ HandleAngles \/ UNCHANGED vars
  BY <1>1, <1>2, PublishStep, RepublishStep, HandleStep, MoveStep DEF Arm
<1>3. CASE SerialBridge \/ Rosbridge
  BY <1>1, <1>3, TryConnectStep, WriteStep, QuietStep, ForwardStep DEF SerialBridge, Rosbridge
<1>4. CASE Firmware
  BY <1>1, <1>4, ReadStep, MoveStep, RestartStep DEF Firmware
<1> QED
  BY <1>2, <1>3, <1>4 DEF Next

LEMMA Invariance == Spec => []IInv
<1>1. IInv /\ [Next]_vars => IInv'
  BY NextIInv
<1> QED
  BY <1>1, InitIInv, PTL DEF Spec

\* The types of ArmServos, for every arm, every depth of the queue and whatever
\* fails on the way.
THEOREM TypeCorrect == Spec => []TypeOK
<1>1. IInv => TypeOK
  BY DEF IInv
<1> QED
  BY <1>1, Invariance, PTL

\* parseServoCommand, behind the rest of a broken line: only the base can be told
\* an angle that no pose has.
THEOREM SpoiledBaseOnly == Spec => []OnlyBaseSpoiled
<1>1. IInv => OnlyBaseSpoiled
  BY DEF IInv
<1> QED
  BY <1>1, Invariance, PTL

\* The node's repetitions and the bridge's second attempts never turn the servos
\* back to an older pose.
THEOREM PosesInOrder == Spec => NeverBack
<1>1. IInv /\ [Next]_vars => [command' >= command \/ command' = NoPose]_vars
  BY NextIInv
<1> QED
  BY <1>1, Invariance, PTL DEF Spec, NeverBack
=============================================================================
