---------------------------- MODULE MissionRunner ----------------------------
(***************************************************************************)
(* missionrunner/manager.go: the backend starts and stops the programs of  *)
(* a mission, one request at a time under a mutex.  The mission itself     *)
(* runs on the backend's machine; the ArUco detector and rc_follow run on  *)
(* the robots, behind an ssh that may be killed without them.              *)
(*                                                                         *)
(* A program may end at any step; the goroutine that waits for it needs    *)
(* the mutex to say so.  A command that stops programs may fail: its       *)
(* context has run out (the wait for the mutex counts), or ssh finds       *)
(* nobody.  The backend may end and start again; the programs stay.        *)
(***************************************************************************)
EXTENDS FiniteSets, Integers

CONSTANTS
  Programs,         \* bound: programs of which something is left at a time
  NoProgram

ASSUME RunnerAssumption == NoProgram \notin Programs

VARIABLES
  prog,             \* the programs, where a free place is Blank
  table,            \* procs
  active,           \* active
  pc,               \* the step of the request that holds the mutex
  request           \* which one; "stop" between requests

vars == <<prog, table, active, pc, request>>
-----------------------------------------------------------------------------
Missions == {"turtle_mission", "mission2_loop", "charger_only"}
OverSsh == {"aruco", "rc_follow"}

\* proc: its process group here.  node: of what runs over ssh, whether the node on
\* the robot is still to be told to stop.  survived, a history variable: commands
\* that should have stopped it, and did not.  orphan: its backend has ended.
Program ==
  [kind : Missions \cup OverSsh \cup {"none"},
   proc : {"none", "running", "stopping", "ended"},
   node : BOOLEAN, survived : 0..2, orphan : BOOLEAN]

Blank == [kind |-> "none", proc |-> "none", node |-> FALSE, survived |-> 0,
          orphan |-> FALSE]

\* What has ended, is waited for by nobody, and has left no node behind, is gone.
Clean(f) ==
  [p \in Programs |->
     IF /\ f[p].proc = "none" \/ (f[p].proc = "ended" /\ f[p].orphan)
        /\ ~f[p].node
     THEN Blank ELSE f[p]]

Areas == {"a", "b"}
Requests == Areas \cup {"charger", "stop"}
Steps == {"free", "kill", "local", "remote", "detector", "again", "aruco",
          "mission", "follow"}
Keys == {"aruco", "local_mission", "rc_follow", "charger_only"}

\* areaProfile, and chargerOnlyCommand.
Mission(r) == CASE r = "a" -> "turtle_mission"
                [] r = "b" -> "mission2_loop"
                [] OTHER -> "charger_only"
KeyOf(r) == IF r \in Areas THEN "local_mission" ELSE "charger_only"

Running(p) == prog[p].proc = "running"
Driving == {p \in Programs : Running(p) /\ prog[p].kind \in Missions}
Nodes(kind) == {p \in Programs : prog[p].node /\ prog[p].kind = kind}
Following == Nodes("rc_follow")

EmptyTable == [k \in Keys |-> NoProgram]

Init ==
  /\ prog = [p \in Programs |-> Blank]
  /\ table = EmptyTable
  /\ active = ""
  /\ pc = "free"
  /\ request = "stop"
-----------------------------------------------------------------------------
(* A request: StartArea, PrepareChargerInterrupt or Stop *)

Lock(r) ==
  /\ pc = "free"
  /\ request' = r
  /\ pc' = "kill"
  /\ UNCHANGED <<prog, table, active>>

\* stopLocked: SIGTERM to the process groups of the table.  Their end is not
\* waited for; an ssh ends at once.
Stopping(S) ==
  [p \in Programs |->
     IF p \in S /\ Running(p)
     THEN [prog[p] EXCEPT !.proc = IF prog[p].kind \in Missions THEN "stopping" ELSE "ended"]
     ELSE prog[p]]

KillTable ==
  /\ pc = "kill"
  /\ prog' = Clean(Stopping({table[k] : k \in Keys} \ {NoProgram}))
  /\ table' = EmptyTable
  /\ active' = ""
  /\ pc' = "local"
  /\ UNCHANGED request

\* runStopCommand, when the programs of S are not reached.
Survived(S) ==
  [p \in Programs |-> IF p \in S /\ prog[p].survived < 2
                      THEN [prog[p] EXCEPT !.survived = @ + 1] ELSE prog[p]]

\* localStopCommand: the pattern of the first pkill is in the command line of
\* the shell that runs it, so the shell ends there, and the other two never run.
\* What the pattern finds is the launcher; the node may be left running.
StopLocal ==
  LET found == {p \in Driving : prog[p].kind = "turtle_mission"} IN
  /\ pc = "local"
  /\ prog' \in {Stopping(found), Survived(found)}
  /\ pc' = "remote"
  /\ UNCHANGED <<table, active, request>>

\* The command reaches the nodes on the robot, or does not.
Told(S) ==
  Clean([p \in Programs |-> IF p \in S THEN [prog[p] EXCEPT !.node = FALSE]
                                       ELSE prog[p]])

\* Mutant: a start leaves it at one rcCarStopCommand.
AfterStopOnce ==
  CASE request = "stop" -> "free"
    [] request = "charger" -> "mission"
    [] OTHER -> "aruco"

AfterStop ==
  CASE request = "stop" -> "free"
    [] request = "charger" -> "again"
    [] OTHER -> "detector"

\* rcCarStopCommand.
StopRemote ==
  /\ pc = "remote"
  /\ prog' \in {Told(Following), Survived(Following)}
  /\ pc' = AfterStop
  /\ UNCHANGED <<table, active, request>>

\* turtlebotStopArucoCommand.
StopDetector ==
  /\ pc = "detector"
  /\ prog' \in {Told(Nodes("aruco")), prog}
  /\ pc' = "again"
  /\ UNCHANGED <<table, active, request>>

\* rcCarStopCommand once more, before a start.
StopRemoteAgain ==
  /\ pc = "again"
  /\ prog' \in {Told(Following), Survived(Following)}
  /\ pc' = IF request = "charger" THEN "mission" ELSE "aruco"
  /\ UNCHANGED <<table, active, request>>

\* startProcessLocked, and the entry in the table.
StartProcess(kind, key) ==
  \E p \in Programs :
    /\ prog[p] = Blank
    /\ prog' = [prog EXCEPT ![p] = [Blank EXCEPT !.kind = kind, !.proc = "running",
                                                 !.node = kind \in OverSsh]]
    /\ table' = [table EXCEPT ![key] = p]

NotStarted == UNCHANGED <<prog, table, active>>

Done ==
  /\ pc' = "free"
  /\ request' = "stop"

\* Without the detector, the request ends at once; there is nothing to stop yet.
StartAruco ==
  /\ pc = "aruco"
  /\ \/ /\ StartProcess("aruco", "aruco")
        /\ pc' = "mission"
        /\ UNCHANGED <<active, request>>
     \/ NotStarted /\ Done

\* A start that fails half way stops what it started.  Mutant: it returns.
GiveUpAtOnce == Done

GiveUp ==
  /\ pc' = "kill"
  /\ request' = "stop"

StartMission ==
  /\ pc = "mission"
  /\ IF request \in Areas
     THEN \/ /\ StartProcess(Mission(request), KeyOf(request))
             /\ pc' = "follow"
             /\ UNCHANGED <<active, request>>
          \/ NotStarted /\ GiveUp
     ELSE \/ /\ StartProcess(Mission(request), KeyOf(request))
             /\ active' = "charger"
             /\ Done
          \/ NotStarted /\ Done

StartFollow ==
  /\ pc = "follow"
  /\ \/ /\ StartProcess("rc_follow", "rc_follow")
        /\ active' = request
        /\ Done
     \/ NotStarted /\ GiveUp
-----------------------------------------------------------------------------
(* The programs, and the backend *)

\* A program ends, and its node on the robot with it, or not.
End(p) ==
  /\ prog[p].proc \in {"running", "stopping"}
  /\ \E node \in {FALSE, prog[p].node} :
       prog' = Clean([prog EXCEPT ![p].proc = "ended", ![p].node = node])
  /\ UNCHANGED <<table, active, pc, request>>

\* The goroutine of startProcessLocked: the entry that is this program's goes.
\* Mutants: no entry goes; the entry of its name goes.
RemoveNothing(p) == UNCHANGED table

RemoveByName(p) ==
  LET name == IF prog[p].kind \in {"turtle_mission", "mission2_loop"}
              THEN "local_mission" ELSE prog[p].kind
  IN table' = [table EXCEPT ![name] = NoProgram]

Remove(p) == table' = [k \in Keys |-> IF table[k] = p THEN NoProgram ELSE table[k]]

Reap(p) ==
  /\ pc = "free"
  /\ prog[p].proc = "ended" /\ ~prog[p].orphan
  /\ prog' = Clean([prog EXCEPT ![p].proc = "none"])
  /\ Remove(p)
  /\ UNCHANGED <<active, pc, request>>

\* The backend ends, at any step, and another one starts with an empty table.
BackendRestarts ==
  /\ prog' = Clean([p \in Programs |->
                      IF prog[p] = Blank THEN Blank ELSE [prog[p] EXCEPT !.orphan = TRUE]])
  /\ table' = EmptyTable
  /\ active' = ""
  /\ Done

Next ==
  \/ \E r \in Requests : Lock(r)
  \/ KillTable \/ StopLocal \/ StopRemote \/ StopDetector \/ StopRemoteAgain
  \/ StartAruco \/ StartMission \/ StartFollow
  \/ \E p \in Programs : End(p) \/ Reap(p)
  \/ BackendRestarts

Spec == Init /\ [][Next]_vars
-----------------------------------------------------------------------------
\* Types; and the table never names a program that is gone.
TypeOK ==
  /\ prog \in [Programs -> Program]
  /\ table \in [Keys -> Programs \cup {NoProgram}]
  /\ \A k \in Keys : table[k] # NoProgram => prog[table[k]] # Blank
  /\ active \in Areas \cup {"charger", ""}
  /\ pc \in Steps
  /\ request \in Requests

\* Two missions never drive the robot, neither of them told to stop, unless one
\* is left over by a backend that ended: a mission of area B or of the charger,
\* which nothing stops any more, or one of area A that a stop did not reach.
LeftOver(p) ==
  prog[p].orphan /\ (prog[p].kind = "turtle_mission" => prog[p].survived > 0)

OneMission ==
  \A p, q \in Driving : p = q \/ LeftOver(p) \/ LeftOver(q)

\* Two rc_follow nodes never drive the RC car, unless one of them has outlived two
\* commands to stop it.
OneFollower ==
  \A p, q \in Following : p = q \/ \E x \in {p, q} : prog[x].survived = 2

\* When the manager holds no mission to be active and no request is under way, no
\* mission of this backend drives the robot: every failed start was undone.
InactiveMeansStopped ==
  pc = "free" /\ active = "" => \A p \in Driving : prog[p].orphan
=============================================================================
