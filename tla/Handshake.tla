------------------------------ MODULE Handshake ------------------------------
(***************************************************************************)
(* What a mission and the RC car promise each other.  The client asks for  *)
(* its tasks one after the other, each when the one before it is           *)
(* completed; the server begins a task only when it is asked for, carries  *)
(* it out once, and rests when the client relies on that.  The client may  *)
(* withdraw at any moment: what it asked for last is then carried out or   *)
(* given up.  Convoy implements it.                                        *)
(***************************************************************************)
EXTENDS Naturals

CONSTANT Tasks      \* the number of tasks

VARIABLES
  client,           \* "asks", "relies" (on a server that rests) or "withdrawn"
  asked,            \* the task that is asked for and not begun, 0 if none
  working,          \* the task under way, 0 if none
  done              \* the number of tasks completed

vars == <<client, asked, working, done>>

Init ==
  /\ client = "asks"
  /\ asked = 0
  /\ working = 0
  /\ done = 0

Resting == asked = 0 /\ working = 0

Ask ==
  /\ client = "asks" /\ Resting /\ done < Tasks
  /\ asked' = done + 1
  /\ UNCHANGED <<client, working, done>>

Begin ==
  /\ asked # 0
  /\ working' = asked
  /\ asked' = 0
  /\ UNCHANGED <<client, done>>

Complete ==
  /\ working # 0
  /\ done' = working
  /\ working' = 0
  /\ UNCHANGED <<client, asked>>

Rely ==
  /\ client = "asks" /\ Resting /\ done = Tasks
  /\ client' = "relies"
  /\ UNCHANGED <<asked, working, done>>

\* A task that the server has not heard of may be lost.
Withdraw ==
  /\ client # "withdrawn"
  /\ client' = "withdrawn"
  /\ asked' \in {0, asked}
  /\ UNCHANGED <<working, done>>

GiveUp ==
  /\ client = "withdrawn"
  /\ asked' = 0
  /\ working' = 0
  /\ UNCHANGED <<client, done>>

Next == Ask \/ Begin \/ Complete \/ Rely \/ Withdraw \/ GiveUp

Spec == Init /\ [][Next]_vars
-----------------------------------------------------------------------------
\* One task at a time, in order; and nothing moves that the client relies on.
InOrder ==
  /\ asked # 0 => asked = done + 1 /\ working = 0
  /\ working # 0 => working = done + 1 /\ asked = 0
  /\ client = "relies" => Resting /\ done = Tasks
=============================================================================
