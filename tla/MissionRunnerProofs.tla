------------------------- MODULE MissionRunnerProofs -------------------------
(***************************************************************************)
(* Theorems about MissionRunner: what the manager of the missions keeps,   *)
(* for any number of programs left over, whatever stop command fails and   *)
(* whenever a program or the backend ends.                                 *)
(***************************************************************************)
EXTENDS MissionRunner, TLAPS

\* The missions that a backend still answers for, and the RC car's nodes that
\* have not outlived two commands to stop them.
Live == {p \in Driving : ~LeftOver(p)}
Followed == {p \in Following : prog[p].survived # 2}

TypeInv ==
  /\ prog \in [Programs -> Program]
  /\ table \in [Keys -> Programs \cup {NoProgram}]
  /\ active \in Areas \cup {"charger", ""}
  /\ pc \in Steps
  /\ request \in Requests
  /\ pc = "follow" => request \in Areas

\* What the table names was started by this backend and waits for its watcher.
TableInv ==
  \A k \in Keys : table[k] # NoProgram =>
    prog[table[k]].proc # "none" /\ ~prog[table[k]].orphan

\* The steps of a request with the table's programs told to stop, and those with
\* the leftover missions told, too.
Killed == {"local", "remote", "detector", "again", "aruco", "mission"}
Swept == Killed \ {"local"}

\* A mission of this backend is in the table until it is told to stop; from then
\* on, none of them drives until the next one starts.
MissionInv ==
  /\ \A p \in Driving : ~prog[p].orphan =>
       p \in {table["local_mission"], table["charger_only"]}
  /\ pc \in Killed => \A p \in Driving : prog[p].orphan
  /\ \A p, q \in Live : p = q
  /\ pc \in Swept => Live = {}

\* Each command to stop rc_follow leaves only nodes that have outlived it.
FollowInv ==
  /\ \A p, q \in Followed : p = q
  /\ pc \in {"detector", "again"} => \A p \in Following : prog[p].survived # 0
  /\ pc \in {"aruco", "mission", "follow"} => Followed = {}

IInv == TypeInv /\ TableInv /\ MissionInv /\ FollowInv /\ InactiveMeansStopped

LEMMA BlankFacts ==
  /\ Blank \in Program
  /\ Blank.proc = "none" /\ Blank.kind = "none" /\ ~Blank.node
  /\ ~Blank.orphan /\ Blank.survived = 0
BY DEF Blank, Program

LEMMA InitIInv == Init => IInv
<1> SUFFICES ASSUME Init PROVE IInv
  OBVIOUS
<1>1. \A p \in Programs : prog[p] = Blank
  BY DEF Init
<1>2. Driving = {} /\ Following = {}
  BY <1>1, BlankFacts DEF Driving, Running, Following, Nodes
<1>3. TypeInv
  BY BlankFacts DEF Init, TypeInv, EmptyTable, Steps, Requests, Areas
<1>4. TableInv
  BY DEF Init, TableInv, EmptyTable
<1> QED
  BY <1>2, <1>3, <1>4 DEF Init, IInv, MissionInv, FollowInv, InactiveMeansStopped, Live,
                          Followed, Killed, Swept
-----------------------------------------------------------------------------
(* What a step that starts nothing makes of the programs *)

\* No program starts to run, gets a node or is no orphan any more.
Fades(f, g) ==
  \A p \in Programs :
    \/ g[p] = Blank
    \/ /\ g[p].kind = f[p].kind
       /\ g[p].proc = "running" => f[p].proc = "running"
       /\ g[p].node => f[p].node
       /\ g[p].survived >= f[p].survived
       /\ f[p].orphan => g[p].orphan

\* What this backend waits for, it still waits for.
Lasts(f, g) ==
  \A p \in Programs :
    f[p].proc # "none" /\ ~f[p].orphan => g[p].proc # "none" /\ ~g[p].orphan

LEMMA CleanFades ==
  ASSUME NEW f \in [Programs -> Program], NEW g \in [Programs -> Program], Fades(f, g)
  PROVE  /\ Clean(g) \in [Programs -> Program]
         /\ Fades(f, Clean(g))
         /\ Lasts(f, g) => Lasts(f, Clean(g))
         /\ \A p \in Programs : Clean(g)[p] = Blank \/ Clean(g)[p] = g[p]
BY BlankFacts DEF Fades, Lasts, Clean, Program

LEMMA StoppingFades ==
  ASSUME prog \in [Programs -> Program], NEW S
  PROVE  /\ Stopping(S) \in [Programs -> Program]
         /\ Fades(prog, Stopping(S)) /\ Lasts(prog, Stopping(S))
         /\ \A p \in Programs : p \in S => Stopping(S)[p].proc # "running"
BY DEF Stopping, Fades, Lasts, Running, Program

LEMMA SurvivedFades ==
  ASSUME prog \in [Programs -> Program], NEW S
  PROVE  /\ Survived(S) \in [Programs -> Program]
         /\ Fades(prog, Survived(S)) /\ Lasts(prog, Survived(S))
         /\ \A p \in Programs : p \in S =>
              /\ Survived(S)[p].survived # 0
              /\ prog[p].survived # 0 => Survived(S)[p].survived = 2
BY DEF Survived, Fades, Lasts, Program

LEMMA ToldFades ==
  ASSUME prog \in [Programs -> Program], NEW S
  PROVE  /\ Told(S) \in [Programs -> Program]
         /\ Fades(prog, Told(S)) /\ Lasts(prog, Told(S))
         /\ \A p \in Programs : p \in S => ~Told(S)[p].node
<1> DEFINE g == [p \in Programs |-> IF p \in S THEN [prog[p] EXCEPT !.node = FALSE] ELSE prog[p]]
<1>0. g \in [Programs -> Program]
  BY DEF Program
<1>1. /\ Fades(prog, g) /\ Lasts(prog, g)
      /\ \A p \in Programs : p \in S => ~g[p].node
  BY DEF Fades, Lasts, Program
<1>2. Told(S) = Clean(g)
  BY DEF Told
<1> HIDE DEF g
<1> QED
  BY <1>0, <1>1, <1>2, CleanFades, BlankFacts

\* The invariants after such a step, at whatever step of the request.
LEMMA FadesKeeps ==
  ASSUME TypeInv, prog' \in [Programs -> Program], Fades(prog, prog')
  PROVE  /\ Driving' \subseteq Driving /\ Live' \subseteq Live
         /\ Following' \subseteq Following /\ Followed' \subseteq Followed
         /\ \A p \in Driving' : prog[p].orphan => prog'[p].orphan
         /\ \A p \in Following' : prog[p].survived # 0 => prog'[p].survived # 0
<1>1. /\ Driving' \subseteq Driving /\ Following' \subseteq Following
      /\ \A p \in Driving' \cup Following' :
           /\ p \in Programs
           /\ prog'[p].kind = prog[p].kind
           /\ prog'[p].survived >= prog[p].survived
           /\ prog[p].orphan => prog'[p].orphan
  BY BlankFacts DEF Fades, Driving, Running, Following, Nodes, Missions
<1>2. \A p \in Programs : prog[p].survived \in 0..2 /\ prog'[p].survived \in 0..2
  BY DEF TypeInv, Program
<1>3. Live' \subseteq Live
  BY <1>1, <1>2 DEF Live, LeftOver
<1>4. Followed' \subseteq Followed
  BY <1>1, <1>2 DEF Followed
<1> QED
  BY <1>1, <1>2, <1>3, <1>4
-----------------------------------------------------------------------------
(* The commands that stop programs *)

\* A command whose effect on the programs is a fading one; the table stays.
LEMMA CommandKeeps ==
  ASSUME TypeInv, TableInv, Fades(prog, prog'), Lasts(prog, prog'),
         prog' \in [Programs -> Program], table' = table, active' = active,
         request' = request, pc' \in Steps \ {"follow"}
  PROVE  TypeInv' /\ TableInv'
<1>1. TypeInv'
  BY DEF TypeInv
<1>2. ASSUME NEW k \in Keys, table[k] # NoProgram
      PROVE  prog'[table[k]].proc # "none" /\ ~prog'[table[k]].orphan
  <2>1. table[k] \in Programs
    BY <1>2 DEF TypeInv
  <2> QED
    BY <1>2, <2>1 DEF TableInv, Lasts
<1> QED
  BY <1>1, <1>2 DEF TableInv

LEMMA KillTableStep ==
  ASSUME IInv, KillTable
  PROVE  IInv'
<1> DEFINE T == {table[k] : k \in Keys} \ {NoProgram}
<1>1. /\ prog \in [Programs -> Program] /\ prog' = Clean(Stopping(T))
      /\ pc = "kill" /\ pc' = "local" /\ table' = EmptyTable /\ active' = "" /\ request' = request
  BY DEF IInv, TypeInv, KillTable
<1>2. /\ prog' \in [Programs -> Program] /\ Fades(prog, prog')
      /\ \A p \in T : p \in Programs => prog'[p].proc # "running"
  <2> HIDE DEF T
  <2>1. /\ Stopping(T) \in [Programs -> Program] /\ Fades(prog, Stopping(T))
        /\ \A p \in Programs : p \in T => Stopping(T)[p].proc # "running"
    BY <1>1, StoppingFades
  <2> QED
    BY <1>1, <2>1, CleanFades, BlankFacts
<1>3. TypeInv' /\ TableInv'
  BY <1>1, <1>2 DEF IInv, TypeInv, TableInv, EmptyTable, Steps
<1>4. /\ Live' \subseteq Live /\ Followed' \subseteq Followed /\ Driving' \subseteq Driving
      /\ \A p \in Driving' : prog[p].orphan => prog'[p].orphan
  BY <1>2, FadesKeeps DEF IInv
<1>5. ASSUME NEW p \in Driving' PROVE prog'[p].orphan
  <2>1. p \in Programs /\ p # NoProgram /\ prog'[p].proc = "running"
    BY RunnerAssumption DEF Driving, Running
  <2>2. p \notin T
    BY <1>2, <2>1
  <2>3. p \notin {table["local_mission"], table["charger_only"]}
    BY <2>1, <2>2 DEF Keys
  <2> QED
    BY <1>4, <2>3 DEF IInv, MissionInv
<1>6. MissionInv'
  BY <1>1, <1>4, <1>5 DEF IInv, MissionInv, Killed, Swept
<1> QED
  BY <1>1, <1>3, <1>4, <1>6 DEF IInv, FollowInv, InactiveMeansStopped

\* A step of a request after stopLocked: no mission of this backend drives.
LEMMA KilledKeeps ==
  ASSUME IInv, pc \in Killed, prog' \in [Programs -> Program], Fades(prog, prog'),
         pc' \in Swept => Live' = {},
         pc' \in Killed \cup {"free"}
  PROVE  MissionInv' /\ InactiveMeansStopped'
<1>1. /\ Live' \subseteq Live /\ Driving' \subseteq Driving
      /\ \A p \in Driving' : prog[p].orphan => prog'[p].orphan
  BY FadesKeeps DEF IInv
<1>2. \A p \in Driving' : prog'[p].orphan
  BY <1>1 DEF IInv, MissionInv
<1> QED
  BY <1>1, <1>2 DEF IInv, MissionInv, InactiveMeansStopped, Killed, Swept

LEMMA StopLocalStep ==
  ASSUME IInv, StopLocal
  PROVE  IInv'
<1> DEFINE found == {p \in Driving : prog[p].kind = "turtle_mission"}
<1>1. /\ pc = "local" /\ pc' = "remote" /\ UNCHANGED <<table, active, request>>
      /\ prog \in [Programs -> Program]
      /\ prog' = Stopping(found) \/ prog' = Survived(found)
  BY DEF StopLocal, IInv, TypeInv
<1>2. /\ prog' \in [Programs -> Program] /\ Fades(prog, prog') /\ Lasts(prog, prog')
      /\ \A p \in Programs : p \in found =>
           prog'[p].proc # "running" \/ prog'[p].survived # 0
  <2> HIDE DEF found
  <2> QED
    BY <1>1, StoppingFades, SurvivedFades
<1>3. TypeInv' /\ TableInv'
  BY <1>1, <1>2, CommandKeeps DEF IInv, Steps
<1>4. /\ Live' \subseteq Live /\ Followed' \subseteq Followed /\ Driving' \subseteq Driving
  BY <1>2, FadesKeeps DEF IInv
<1>5. ASSUME NEW p \in Live' PROVE FALSE
  <2>1. /\ p \in Driving /\ p \in Programs /\ prog[p].orphan
        /\ prog'[p].proc = "running" /\ ~LeftOver(p)'
    BY <1>1, <1>4 DEF Live, Driving, Running, IInv, MissionInv, Killed
  <2>2. prog'[p] # Blank
    BY <2>1, BlankFacts
  <2>3. prog'[p].orphan /\ prog'[p].kind = prog[p].kind
    BY <1>2, <2>1, <2>2 DEF Fades
  <2>4. prog'[p].kind = "turtle_mission" /\ ~(prog'[p].survived > 0)
    BY <2>1, <2>3 DEF LeftOver
  <2>5. prog'[p].survived \in 0..2
    BY <1>2, <2>1 DEF Program
  <2>6. p \in found
    BY <2>1, <2>3, <2>4
  <2> QED
    BY <1>2, <2>1, <2>4, <2>5, <2>6
<1>6. MissionInv' /\ InactiveMeansStopped'
  BY <1>1, <1>2, <1>5, KilledKeeps DEF Killed, Swept
<1> QED
  BY <1>1, <1>3, <1>4, <1>6 DEF IInv, FollowInv

LEMMA StopRemoteStep ==
  ASSUME IInv, StopRemote
  PROVE  IInv'
<1>1. /\ pc = "remote" /\ UNCHANGED <<table, active, request>>
      /\ pc' \in {"free", "again", "detector"}
      /\ prog \in [Programs -> Program]
      /\ prog' = Told(Following) \/ prog' = Survived(Following)
  BY DEF StopRemote, AfterStop, IInv, TypeInv
<1>2. /\ prog' \in [Programs -> Program] /\ Fades(prog, prog') /\ Lasts(prog, prog')
      /\ \A p \in Programs : p \in Following => ~prog'[p].node \/ prog'[p].survived # 0
  BY <1>1, ToldFades, SurvivedFades
<1>3. TypeInv' /\ TableInv'
  BY <1>1, <1>2, CommandKeeps DEF IInv, Steps
<1>4. /\ Live' \subseteq Live /\ Followed' \subseteq Followed /\ Following' \subseteq Following
  BY <1>2, FadesKeeps DEF IInv
<1>5. \A p \in Following' : prog'[p].survived # 0
  BY <1>2, <1>4 DEF Following, Nodes
<1>6. Live' = {}
  BY <1>1, <1>4 DEF IInv, MissionInv, Killed, Swept
<1>7. MissionInv' /\ InactiveMeansStopped'
  BY <1>1, <1>2, <1>6, KilledKeeps DEF Killed, Swept
<1> QED
  BY <1>1, <1>3, <1>4, <1>5, <1>7 DEF IInv, FollowInv

LEMMA StopDetectorStep ==
  ASSUME IInv, StopDetector
  PROVE  IInv'
<1>1. /\ pc = "detector" /\ pc' = "again" /\ UNCHANGED <<table, active, request>>
      /\ prog \in [Programs -> Program]
      /\ prog' = Told(Nodes("aruco")) \/ prog' = prog
  BY DEF StopDetector, IInv, TypeInv
<1>2. prog' \in [Programs -> Program] /\ Fades(prog, prog') /\ Lasts(prog, prog')
  <2>1. Fades(prog, prog) /\ Lasts(prog, prog)
    BY <1>1 DEF Fades, Lasts, Program
  <2> QED
    BY <1>1, <2>1, ToldFades
<1>3. TypeInv' /\ TableInv'
  BY <1>1, <1>2, CommandKeeps DEF IInv, Steps
<1>4. /\ Live' \subseteq Live /\ Followed' \subseteq Followed /\ Following' \subseteq Following
      /\ \A p \in Following' : prog[p].survived # 0 => prog'[p].survived # 0
  BY <1>2, FadesKeeps DEF IInv
<1>5. Live' = {}
  BY <1>1, <1>4 DEF IInv, MissionInv, Killed, Swept
<1>6. MissionInv' /\ InactiveMeansStopped'
  BY <1>1, <1>2, <1>5, KilledKeeps DEF Killed, Swept
<1> QED
  BY <1>1, <1>3, <1>4, <1>6 DEF IInv, FollowInv

LEMMA StopRemoteAgainStep ==
  ASSUME IInv, StopRemoteAgain
  PROVE  IInv'
<1>1. /\ pc = "again" /\ UNCHANGED <<table, active, request>>
      /\ pc' \in {"mission", "aruco"}
      /\ prog \in [Programs -> Program]
      /\ prog' = Told(Following) \/ prog' = Survived(Following)
  BY DEF StopRemoteAgain, IInv, TypeInv
<1>2. /\ prog' \in [Programs -> Program] /\ Fades(prog, prog') /\ Lasts(prog, prog')
      /\ \A p \in Programs : p \in Following =>
           ~prog'[p].node \/ (prog[p].survived # 0 => prog'[p].survived = 2)
  BY <1>1, ToldFades, SurvivedFades
<1>3. TypeInv' /\ TableInv'
  BY <1>1, <1>2, CommandKeeps DEF IInv, Steps
<1>4. Live' \subseteq Live /\ Following' \subseteq Following
  BY <1>2, FadesKeeps DEF IInv
<1>5. Followed' = {}
  BY <1>1, <1>2, <1>4 DEF Followed, Following, Nodes, IInv, FollowInv
<1>6. Live' = {}
  BY <1>1, <1>4 DEF IInv, MissionInv, Killed, Swept
<1>7. MissionInv' /\ InactiveMeansStopped'
  BY <1>1, <1>2, <1>6, KilledKeeps DEF Killed, Swept
<1> QED
  BY <1>1, <1>3, <1>5, <1>7 DEF IInv, FollowInv
-----------------------------------------------------------------------------
(* The starts, and what happens to the programs by themselves *)

New(kind, node) == [Blank EXCEPT !.kind = kind, !.proc = "running", !.node = node]

LEMMA NewProgram ==
  ASSUME NEW kind \in Missions \cup OverSsh, NEW node \in BOOLEAN
  PROVE  /\ New(kind, node) \in Program
         /\ New(kind, node).kind = kind /\ New(kind, node).proc = "running"
         /\ ~New(kind, node).orphan /\ New(kind, node).node = node
         /\ New(kind, node).survived = 0
BY BlankFacts DEF New, Program

\* The new program's place, and what is in it.
Started(p, kind, key) ==
  /\ prog[p] = Blank
  /\ table' = [table EXCEPT ![key] = p]
  /\ \A q \in Programs \ {p} : prog'[q] = prog[q]
  /\ prog'[p].kind = kind /\ prog'[p].proc = "running" /\ ~prog'[p].orphan
  /\ (prog'[p].node <=> kind \in OverSsh) /\ prog'[p].survived = 0
  /\ prog' \in [Programs -> Program]
  /\ table' \in [Keys -> Programs \cup {NoProgram}]
  /\ TableInv'

LEMMA StartFacts ==
  ASSUME TypeInv, TableInv, NEW kind \in Missions \cup OverSsh, NEW key \in Keys,
         StartProcess(kind, key)
  PROVE  \E p \in Programs : Started(p, kind, key)
<1>1. PICK p \in Programs :
        /\ prog[p] = Blank
        /\ prog' = [prog EXCEPT ![p] = [Blank EXCEPT !.kind = kind, !.proc = "running",
                                                     !.node = kind \in OverSsh]]
        /\ table' = [table EXCEPT ![key] = p]
  BY DEF StartProcess
<1>2. /\ prog \in [Programs -> Program] /\ table \in [Keys -> Programs \cup {NoProgram}]
  BY DEF TypeInv
<1> DEFINE new == New(kind, kind \in OverSsh)
<1>3. /\ new \in Program /\ new.kind = kind /\ new.proc = "running" /\ ~new.orphan
      /\ (new.node <=> kind \in OverSsh) /\ new.survived = 0
  <2>1. (kind \in OverSsh) \in BOOLEAN
    OBVIOUS
  <2> QED
    BY <2>1, NewProgram, Zenon
<1>4. prog'[p] = new /\ \A q \in Programs \ {p} : prog'[q] = prog[q]
  BY <1>1, <1>2 DEF New
<1>5. prog' \in [Programs -> Program] /\ table' \in [Keys -> Programs \cup {NoProgram}]
  BY <1>1, <1>2, <1>3 DEF New
<1>6. TableInv'
  <2> SUFFICES ASSUME NEW k \in Keys, table'[k] # NoProgram
               PROVE  prog'[table'[k]].proc # "none" /\ ~prog'[table'[k]].orphan
    BY DEF TableInv
  <2>1. CASE table'[k] = p
    BY <1>3, <1>4, <2>1
  <2>2. CASE table'[k] # p
    <3>1. table'[k] = table[k] /\ table[k] \in Programs \ {p}
      BY <1>1, <1>2, <2>2
    <3> QED
      BY <1>4, <3>1 DEF TableInv
  <2> QED
    BY <2>1, <2>2
<1> QED
  BY <1>1, <1>3, <1>4, <1>5, <1>6 DEF Started

\* A start of the detector or of rc_follow starts no mission.
LEMMA StartOverSsh ==
  ASSUME TypeInv, TableInv, MissionInv, NEW kind \in OverSsh, StartProcess(kind, kind)
  PROVE  /\ Driving' = Driving /\ Live' = Live
         /\ \A p \in Driving : prog'[p] = prog[p]
         /\ table'["local_mission"] = table["local_mission"]
         /\ table'["charger_only"] = table["charger_only"]
<1>1. kind \in Keys /\ kind \notin Missions /\ kind \notin {"local_mission", "charger_only"}
  BY DEF OverSsh, Keys, Missions
<1>2. PICK p \in Programs :
        /\ prog[p] = Blank /\ table' = [table EXCEPT ![kind] = p]
        /\ \A q \in Programs \ {p} : prog'[q] = prog[q]
        /\ prog'[p].kind = kind
  BY <1>1, StartFacts DEF Started
<1>3. Driving' = Driving /\ p \notin Driving
  BY <1>1, <1>2, BlankFacts DEF Driving, Running
<1>4. \A q \in Driving : prog'[q] = prog[q]
  BY <1>2, <1>3 DEF Driving
<1>5. Live' = Live
  BY <1>3, <1>4 DEF Live, LeftOver
<1>6. table \in [Keys -> Programs \cup {NoProgram}]
  BY DEF TypeInv
<1> QED
  BY <1>1, <1>2, <1>3, <1>4, <1>5, <1>6 DEF Keys

LEMMA StartArucoStep ==
  ASSUME IInv, StartAruco
  PROVE  IInv'
<1>1. pc = "aruco" /\ request' \in Requests /\ UNCHANGED active
  BY DEF StartAruco, Done, IInv, TypeInv, Requests, NotStarted
<1>2. CASE NotStarted /\ Done
  BY <1>1, <1>2 DEF NotStarted, Done, IInv, TypeInv, TableInv, MissionInv, FollowInv,
                    InactiveMeansStopped, Steps, Killed, Swept, Live, LeftOver, Driving, Running,
                    Followed, Following, Nodes
<1>3. CASE StartProcess("aruco", "aruco") /\ pc' = "mission" /\ UNCHANGED request
  <2>1. "aruco" \in OverSsh /\ "aruco" \in Keys
    BY DEF OverSsh, Keys
  <2>2. PICK p \in Programs :
          /\ prog[p] = Blank /\ prog'[p].kind = "aruco"
          /\ \A q \in Programs \ {p} : prog'[q] = prog[q]
          /\ prog' \in [Programs -> Program]
          /\ table' \in [Keys -> Programs \cup {NoProgram}] /\ TableInv'
    BY <1>3, <2>1, StartFacts DEF IInv, Started
  <2>3. TypeInv'
    BY <1>1, <1>3, <2>2 DEF IInv, TypeInv, Steps
  <2>4. MissionInv'
    BY <1>1, <1>3, <2>1, StartOverSsh DEF IInv, MissionInv, Killed, Swept
  <2>5. Following' = Following /\ p \notin Following
    BY <2>2, BlankFacts DEF Following, Nodes
  <2>6. Followed' = Followed
    BY <2>2, <2>5 DEF Followed, Following, Nodes
  <2>7. FollowInv'
    BY <1>1, <1>3, <2>6 DEF IInv, FollowInv
  <2> QED
    BY <1>3, <2>2, <2>3, <2>4, <2>7 DEF IInv, InactiveMeansStopped
<1> QED
  BY <1>2, <1>3 DEF StartAruco

\* The mission that starts is the only one that this backend answers for.
LEMMA NewMission ==
  ASSUME IInv, pc = "mission", NEW kind \in Missions,
         NEW key \in {"local_mission", "charger_only"}, StartProcess(kind, key),
         pc' \in {"follow", "free"}, request' \in Requests,
         pc' = "follow" => request' \in Areas,
         active' \in Areas \cup {"charger", ""}, pc' = "free" => active' # ""
  PROVE  IInv'
<1>1. key \in Keys /\ kind \notin OverSsh
  BY DEF Keys, Missions, OverSsh
<1>2. PICK p \in Programs :
        /\ prog[p] = Blank /\ table' = [table EXCEPT ![key] = p]
        /\ \A q \in Programs \ {p} : prog'[q] = prog[q]
        /\ prog'[p].kind = kind /\ ~prog'[p].node /\ ~prog'[p].orphan
        /\ prog' \in [Programs -> Program]
        /\ table' \in [Keys -> Programs \cup {NoProgram}] /\ TableInv'
  <2>1. TypeInv /\ TableInv /\ kind \in Missions \cup OverSsh
    BY DEF IInv
  <2>2. PICK p \in Programs : Started(p, kind, key)
    BY <1>1, <2>1, StartFacts
  <2> QED
    BY <1>1, <2>2, Zenon DEF Started
<1>3. TypeInv'
  BY <1>2 DEF IInv, TypeInv, Steps
<1>4. /\ Driving' \subseteq Driving \cup {p} /\ p \notin Driving
      /\ \A q \in Driving : prog'[q] = prog[q] /\ prog[q].orphan
      /\ Live = {}
  BY <1>2, BlankFacts DEF Driving, Running, IInv, MissionInv, Killed, Swept, Missions
<1>5. Live' \subseteq {p}
  BY <1>4 DEF Live, LeftOver
<1>6. table'[key] = p
  BY <1>1, <1>2 DEF IInv, TypeInv
<1>7. MissionInv'
  BY <1>4, <1>5, <1>6 DEF MissionInv, Killed, Swept
<1>8. Following' = Following /\ p \notin Following
  BY <1>2, BlankFacts DEF Following, Nodes
<1>9. Followed' = Followed
  BY <1>2, <1>8 DEF Followed, Following, Nodes
<1> QED
  BY <1>2, <1>3, <1>7, <1>9 DEF IInv, FollowInv, InactiveMeansStopped

LEMMA StartMissionStep ==
  ASSUME IInv, StartMission
  PROVE  IInv'
<1>1. pc = "mission" /\ request \in Requests /\ active \in Areas \cup {"charger", ""}
  BY DEF StartMission, IInv, TypeInv
<1>2. /\ Mission(request) \in Missions
      /\ KeyOf(request) \in {"local_mission", "charger_only"}
  BY DEF Mission, Missions, KeyOf
<1>3. CASE /\ StartProcess(Mission(request), KeyOf(request))
           /\ \/ request \in Areas /\ pc' = "follow" /\ UNCHANGED <<active, request>>
              \/ active' = "charger" /\ Done
  <2>1. /\ pc' \in {"follow", "free"} /\ request' \in Requests
        /\ pc' = "follow" => request' \in Areas
        /\ active' \in Areas \cup {"charger", ""} /\ (pc' = "free" => active' # "")
    BY <1>1, <1>3 DEF Done, Requests
  <2> QED
    BY <1>1, <1>2, <1>3, <2>1, NewMission
<1>4. CASE NotStarted /\ pc' \in {"kill", "free"} /\ request' = "stop"
  BY <1>1, <1>4 DEF NotStarted, IInv, TypeInv, TableInv, MissionInv, FollowInv,
                    InactiveMeansStopped, Steps, Requests, Killed, Swept, Live, LeftOver, Driving,
                    Running, Followed, Following, Nodes
<1> QED
  BY <1>3, <1>4 DEF StartMission, GiveUp, Done

LEMMA StartFollowStep ==
  ASSUME IInv, StartFollow
  PROVE  IInv'
<1>1. pc = "follow" /\ request \in Areas
  BY DEF StartFollow, IInv, TypeInv
<1>2. CASE NotStarted /\ GiveUp
  <2>1. /\ UNCHANGED <<prog, table, active>> /\ pc' = "kill" /\ request' = "stop"
    BY <1>2 DEF NotStarted, GiveUp
  <2>2. TypeInv' /\ TableInv' /\ InactiveMeansStopped'
    BY <2>1 DEF IInv, TypeInv, TableInv, InactiveMeansStopped, Steps, Requests
  <2>3. MissionInv'
    BY <2>1 DEF IInv, MissionInv, Killed, Swept, Live, LeftOver, Driving, Running
  <2>4. FollowInv'
    BY <2>1 DEF IInv, FollowInv, Followed, Following, Nodes
  <2> QED
    BY <2>2, <2>3, <2>4 DEF IInv
<1>3. CASE StartProcess("rc_follow", "rc_follow") /\ active' = request /\ Done
  <2>1. "rc_follow" \in OverSsh /\ "rc_follow" \in Keys
    BY DEF OverSsh, Keys
  <2>2. PICK p \in Programs :
          /\ prog[p] = Blank
          /\ \A q \in Programs \ {p} : prog'[q] = prog[q]
          /\ prog' \in [Programs -> Program]
          /\ table' \in [Keys -> Programs \cup {NoProgram}] /\ TableInv'
    BY <2>1, <1>3, StartFacts DEF IInv, Started
  <2>3. TypeInv' /\ active' # ""
    BY <1>1, <1>3, <2>2 DEF Done, IInv, TypeInv, Steps, Requests, Areas
  <2>4. MissionInv'
    BY <1>3, <2>1, StartOverSsh DEF Done, IInv, MissionInv, Killed, Swept
  <2>5. Followed = {}
    BY <1>1 DEF IInv, FollowInv
  <2>6. Followed' \subseteq {p}
    BY <2>2, <2>5 DEF Followed, Following, Nodes
  <2>7. FollowInv'
    BY <1>3, <2>6 DEF Done, FollowInv
  <2> QED
    BY <2>2, <2>3, <2>4, <2>7 DEF IInv, InactiveMeansStopped
<1> QED
  BY <1>2, <1>3 DEF StartFollow

\* Whatever fades away between the steps of a request leaves its invariants.
LEMMA FadeStep ==
  ASSUME IInv, prog' \in [Programs -> Program], Fades(prog, prog'),
         TypeInv', TableInv', pc' = pc, active' = active,
         \A p \in Driving' : \A k \in {"local_mission", "charger_only"} :
            table[k] = p => table'[k] = p
  PROVE  IInv'
<1>1. /\ Live' \subseteq Live /\ Driving' \subseteq Driving /\ Following' \subseteq Following
      /\ Followed' \subseteq Followed
      /\ \A p \in Driving' : prog[p].orphan => prog'[p].orphan
      /\ \A p \in Following' : prog[p].survived # 0 => prog'[p].survived # 0
  BY FadesKeeps DEF IInv
<1>2. MissionInv'
  BY <1>1 DEF IInv, MissionInv
<1>3. FollowInv'
  BY <1>1 DEF IInv, FollowInv
<1>4. InactiveMeansStopped'
  BY <1>1 DEF IInv, InactiveMeansStopped
<1> QED
  BY <1>2, <1>3, <1>4 DEF IInv

LEMMA EndStep ==
  ASSUME IInv, NEW p \in Programs, End(p)
  PROVE  IInv'
<1>1. PICK node \in {FALSE, prog[p].node} :
        prog' = Clean([prog EXCEPT ![p].proc = "ended", ![p].node = node])
  BY DEF End
<1> DEFINE g == [prog EXCEPT ![p].proc = "ended", ![p].node = node]
<1>2. prog \in [Programs -> Program]
  BY DEF IInv, TypeInv
<1>3. /\ node \in BOOLEAN /\ (node => prog[p].node)
      /\ g = [prog EXCEPT ![p] = [prog[p] EXCEPT !.proc = "ended", !.node = node]]
  BY <1>2 DEF Program
<1>4. g \in [Programs -> Program] /\ Fades(prog, g) /\ Lasts(prog, g)
  <2> DEFINE ended == [prog[p] EXCEPT !.proc = "ended", !.node = node]
  <2>1. /\ ended \in Program /\ ended.kind = prog[p].kind /\ ended.proc = "ended"
        /\ ended.node = node /\ ended.survived = prog[p].survived
        /\ ended.orphan = prog[p].orphan
    BY <1>2, <1>3 DEF Program
  <2>2. g \in [Programs -> Program] /\ g[p] = ended /\ \A q \in Programs \ {p} : g[q] = prog[q]
    BY <1>2, <1>3, <2>1
  <2>3. \A q \in Programs : prog[q].survived \in 0..2
    BY <1>2 DEF Program
  <2> HIDE DEF g, ended
  <2> QED
    BY <1>3, <2>1, <2>2, <2>3 DEF Fades, Lasts
<1>5. prog' \in [Programs -> Program] /\ Fades(prog, prog') /\ Lasts(prog, prog')
  <2> HIDE DEF g
  <2>1. prog' = Clean(g)
    BY <1>1 DEF g
  <2> QED
    BY <1>2, <1>4, <2>1, CleanFades
<1>6. UNCHANGED <<table, active, pc, request>>
  BY DEF End
<1>7. TypeInv' /\ TableInv'
  <2>1. TypeInv'
    BY <1>5, <1>6 DEF IInv, TypeInv
  <2>2. ASSUME NEW k \in Keys, table[k] # NoProgram
        PROVE  prog'[table[k]].proc # "none" /\ ~prog'[table[k]].orphan
    BY <1>5, <2>2 DEF IInv, TypeInv, TableInv, Lasts
  <2> QED
    BY <1>6, <2>1, <2>2 DEF TableInv
<1> QED
  BY <1>5, <1>6, <1>7, FadeStep

LEMMA ReapStep ==
  ASSUME IInv, NEW p \in Programs, Reap(p)
  PROVE  IInv'
<1> DEFINE g == [prog EXCEPT ![p].proc = "none"]
<1>1. /\ prog \in [Programs -> Program] /\ prog[p].proc = "ended"
      /\ UNCHANGED <<active, pc, request>>
  BY DEF IInv, TypeInv, Reap
<1>2. g = [prog EXCEPT ![p] = [prog[p] EXCEPT !.proc = "none"]] /\ g \in [Programs -> Program]
  BY <1>1 DEF Program
<1>3. Fades(prog, g) /\ \A q \in Programs \ {p} : g[q] = prog[q]
  BY <1>1 DEF Fades, Program
<1>4. /\ prog' \in [Programs -> Program] /\ Fades(prog, prog')
      /\ \A q \in Programs \ {p} : prog'[q] = Blank \/ prog'[q] = prog[q]
  <2> HIDE DEF g
  <2>1. prog' = Clean(g)
    BY DEF g, Reap
  <2> QED
    BY <1>1, <1>2, <1>3, <2>1, CleanFades
<1>5. \A q \in Programs \ {p} :
        prog[q].proc # "none" /\ ~prog[q].orphan => prog'[q].proc # "none" /\ ~prog'[q].orphan
  <2>1. prog' = Clean(g)
    BY DEF Reap
  <2> QED
    BY <1>3, <2>1 DEF Clean
<1>6. table' = [k \in Keys |-> IF table[k] = p THEN NoProgram ELSE table[k]]
  BY DEF Reap, Remove
<1>7. TypeInv'
  BY <1>1, <1>4, <1>6 DEF IInv, TypeInv
<1>8. TableInv'
  <2> SUFFICES ASSUME NEW k \in Keys, table'[k] # NoProgram
               PROVE  prog'[table'[k]].proc # "none" /\ ~prog'[table'[k]].orphan
    BY DEF TableInv
  <2>1. table'[k] = table[k] /\ table[k] \in Programs \ {p}
    BY <1>6 DEF IInv, TypeInv
  <2> QED
    BY <1>5, <2>1 DEF IInv, TableInv
<1>9. p \notin Driving'
  BY <1>1, <1>4, FadesKeeps DEF IInv, Driving, Running
<1>10. \A q \in Driving' : \A k \in {"local_mission", "charger_only"} :
         table[k] = q => table'[k] = q
  BY <1>6, <1>9 DEF Keys
<1> QED
  BY <1>1, <1>4, <1>7, <1>8, <1>10, FadeStep

LEMMA BackendRestartsStep ==
  ASSUME IInv, BackendRestarts
  PROVE  IInv'
<1> DEFINE g == [p \in Programs |->
                   IF prog[p] = Blank THEN Blank ELSE [prog[p] EXCEPT !.orphan = TRUE]]
<1>1. /\ prog \in [Programs -> Program]
      /\ table' = EmptyTable /\ active' = "" /\ pc' = "free" /\ request' = "stop"
  BY DEF IInv, TypeInv, BackendRestarts, Done
<1>2. g \in [Programs -> Program]
  BY <1>1, BlankFacts DEF Program
<1>3. Fades(prog, g) /\ \A p \in Programs : g[p] = Blank \/ g[p].orphan
  <2>1. ASSUME NEW p \in Programs, prog[p] # Blank
        PROVE  /\ g[p].kind = prog[p].kind /\ g[p].proc = prog[p].proc
               /\ (g[p].node => prog[p].node) /\ g[p].survived >= prog[p].survived
               /\ g[p].orphan
    <3>1. /\ prog[p] \in Program /\ prog[p].survived \in 0..2
      BY <1>1 DEF Program
    <3>2. g[p] = [prog[p] EXCEPT !.orphan = TRUE]
      BY <2>1
    <3> HIDE DEF g
    <3>3. /\ g[p].kind = prog[p].kind /\ g[p].proc = prog[p].proc
          /\ g[p].node = prog[p].node /\ g[p].survived = prog[p].survived
          /\ g[p].orphan = TRUE
      BY <3>1, <3>2 DEF Program
    <3> QED
      BY <3>1, <3>3
  <2>2. \A p \in Programs : prog[p] = Blank => g[p] = Blank
    OBVIOUS
  <2> HIDE DEF g
  <2> QED
    BY <2>1, <2>2 DEF Fades
<1>4. /\ prog' \in [Programs -> Program] /\ Fades(prog, prog')
      /\ \A p \in Programs : prog'[p] = Blank \/ prog'[p].orphan
  <2> HIDE DEF g
  <2>1. prog' = Clean(g)
    BY DEF g, BackendRestarts
  <2>2. \A p \in Programs : Clean(g)[p] = Blank \/ Clean(g)[p] = g[p]
    BY <1>1, <1>2, <1>3, CleanFades
  <2> QED
    BY <1>1, <1>2, <1>3, <2>1, <2>2, CleanFades
<1>5. /\ Live' \subseteq Live /\ Followed' \subseteq Followed
  BY <1>4, FadesKeeps DEF IInv
<1>6. \A p \in Driving' : prog'[p].orphan
  BY <1>4, BlankFacts DEF Driving, Running
<1>7. TypeInv' /\ TableInv'
  BY <1>1, <1>4 DEF TypeInv, TableInv, EmptyTable, Steps, Requests
<1>8. MissionInv' /\ FollowInv'
  BY <1>1, <1>5, <1>6 DEF IInv, MissionInv, FollowInv, Killed, Swept
<1> QED
  BY <1>6, <1>7, <1>8 DEF IInv, InactiveMeansStopped

LEMMA LockStep ==
  ASSUME IInv, (\E r \in Requests : Lock(r)) \/ UNCHANGED vars
  PROVE  IInv'
<1>1. /\ UNCHANGED <<prog, table, active>>
      /\ (pc' = "kill" /\ request' \in Requests) \/ UNCHANGED <<pc, request>>
  BY DEF Lock, vars
<1>2. TypeInv' /\ TableInv' /\ InactiveMeansStopped'
  BY <1>1 DEF IInv, TypeInv, TableInv, InactiveMeansStopped, Steps, Driving, Running
<1>3. MissionInv'
  BY <1>1 DEF IInv, MissionInv, Killed, Swept, Live, LeftOver, Driving, Running
<1>4. FollowInv'
  BY <1>1 DEF IInv, FollowInv, Followed, Following, Nodes
<1> QED
  BY <1>2, <1>3, <1>4 DEF IInv
-----------------------------------------------------------------------------
LEMMA Invariance == Spec => []IInv
<1>1. IInv /\ [Next]_vars => IInv'
  <2> SUFFICES ASSUME IInv, [Next]_vars PROVE IInv'
    OBVIOUS
  <2>1. ASSUME NEW p \in Programs, End(p) \/ Reap(p) PROVE IInv'
    BY <2>1, EndStep, ReapStep
  <2>2. CASE (\E r \in Requests : Lock(r)) \/ UNCHANGED vars
    BY <2>2, LockStep
  <2>3. CASE KillTable \/ StopLocal \/ StopRemote \/ StopDetector \/ StopRemoteAgain
    BY <2>3, KillTableStep, StopLocalStep, StopRemoteStep, StopDetectorStep, StopRemoteAgainStep
  <2>4. CASE StartAruco \/ StartMission \/ StartFollow \/ BackendRestarts
    BY <2>4, StartArucoStep, StartMissionStep, StartFollowStep, BackendRestartsStep
  <2> QED
    BY <2>1, <2>2, <2>3, <2>4 DEF Next
<1> QED
  BY <1>1, InitIInv, PTL DEF Spec

\* The types of MissionRunner; and procs never names a program that has ended and
\* been reaped, whichever request replaced its entry meanwhile.
THEOREM TypeCorrect == Spec => []TypeOK
<1>1. IInv => TypeOK
  BY BlankFacts DEF IInv, TypeInv, TableInv, TypeOK
<1> QED
  BY <1>1, Invariance, PTL

\* stopLocked in front of every start: two missions never drive the robot, unless
\* one of them is left over by a backend that ended.
THEOREM MissionAlone == Spec => []OneMission
<1>1. IInv => OneMission
  BY DEF IInv, MissionInv, Live, OneMission
<1> QED
  BY <1>1, Invariance, PTL

\* rcCarStopCommand, twice in front of a start: two rc_follow nodes never drive the
\* RC car, unless one has outlived both.
THEOREM FollowerAlone == Spec => []OneFollower
<1>1. IInv => OneFollower
  BY DEF IInv, FollowInv, Followed, OneFollower
<1> QED
  BY <1>1, Invariance, PTL

\* The undoing of a failed start: with no active mission and no request under way,
\* no mission of this backend drives.
THEOREM InactiveStopped == Spec => []InactiveMeansStopped
<1>1. IInv => InactiveMeansStopped
  BY DEF IInv
<1> QED
  BY <1>1, Invariance, PTL
=============================================================================
