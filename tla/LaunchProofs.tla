---------------------------- MODULE LaunchProofs ----------------------------
(***************************************************************************)
(* Proofs about Launch, for any number of systems and any command lines,   *)
(* and about the calls its interactive loop makes.                         *)
(***************************************************************************)
EXTENDS Launch, FiniteSetTheorems, TLAPS

\* The prover of every leaf that names no other.
USE Zenon

-----------------------------------------------------------------------------
(* The parts of the inductive invariant *)

Local == {"alloc", "build", "register", "wait", "undo", "failed", "stop"}
Parent == {"spawn", "notify", "run", "signal", "reap", "killed"}
Ending == {"exit", "fatal"}

TypeOK ==
    /\ flags \in Invocations
    /\ pc \in Local \cup Parent \cup Ending \cup {"main", "client", "repl"}
    /\ idx \in Nat \ {0}
    /\ ok \in BOOLEAN
    /\ faults \in Nat
    /\ size \in 0..MaxSystems
    /\ proc \in [Sys -> Unprepared \cup Prepared \cup {"absent", "gone"}]
    /\ why \in [Sys -> {"none", "killed", "fatal", "timeout", "stopped"}]
    /\ lis \in [Sys -> {"none", "open", "closed"}]
    /\ srv \in [Sys -> {"none", "new", "serving", "stopped"}]
    /\ gor \in [Sys -> {"none", "started", "serving", "ended"}]
    /\ out \in [Sys -> {"none", "open", "closed"}]
    /\ dial \in [Sys -> [Sys -> {"idle", "made", "failed"}]]
    /\ stage \in [Sys -> 0..4]

\* Where main can be with this command line, and in which loop.
Place ==
    /\ pc \in Local => ~flags.cluster /\ size = MaxSystems
    /\ pc \in {"client", "repl"} => ~flags.cluster /\ size \in {0, MaxSystems}
    /\ pc \in Parent => flags.cluster /\ size >= 1
    /\ pc \in {"alloc", "build", "register", "wait", "stop"} => idx \in Sys
    /\ pc \in {"spawn", "signal", "reap"} => idx \in Used

\* How far Stop has come is how much it has released.
Stopping ==
    \A i \in Sys :
        /\ stage[i] >= 2 => srv[i] = "stopped"
        /\ stage[i] >= 3 => lis[i] = "closed"
        /\ stage[i] = 4 => out[i] = "closed"

\* A dial that was accepted met a listener.
DialsMet == \A i, j \in Sys : dial[i][j] = "made" => lis[j] # "none"

\* Nothing of system i but perhaps its listener exists.
Unbuilt(i) == srv[i] = "none" /\ gor[i] = "none" /\ out[i] = "none" /\ stage[i] = 0

\* System i works, or will when its goroutine runs.
Working(i) ==
    /\ out[i] = "open" /\ stage[i] = 0
    /\ srv[i] \in {"new", "serving"}
    /\ gor[i] = (IF srv[i] = "serving" THEN "serving" ELSE "started")

\* System i is built and not served.
Silent(i) == srv[i] = "new" /\ gor[i] = "none" /\ out[i] = "open" /\ stage[i] = 0

\* The systems of a local cluster while it comes up and runs.
Up == pc \in {"build", "register", "wait"} \/ (pc \in {"client", "repl"} /\ size # 0)

NoProcesses == ~flags.cluster => \A i \in Sys : proc[i] = "absent" /\ why[i] = "none"

ComingUp ==
    /\ pc = "main" => \A i \in Sys : proc[i] = "absent" /\ why[i] = "none" /\ lis[i] = "none"
    /\ pc \in {"main", "alloc"} =>
          \A i \in Sys : Unbuilt(i) /\ \A j \in Sys : dial[i][j] = "idle"
    /\ pc = "alloc" => \A i \in Sys : i < idx => lis[i] = "open"
    /\ Up => \A i \in Sys : lis[i] = "open" /\ \A j \in Sys : dial[i][j] # "failed"
    /\ pc = "build" => \A i \in Sys : IF i < idx THEN Silent(i) ELSE Unbuilt(i)
    /\ pc = "register" => \A i \in Sys : IF i < idx THEN Working(i) ELSE Silent(i)
    /\ Up /\ pc \in {"wait", "client", "repl"} => \A i \in Sys : Working(i)
    /\ pc = "wait" => \A i \in Sys : i < idx => Config(i) = Used
    /\ pc \in {"client", "repl"} => \A i \in Used : Config(i) = Used

\* A system that is stopped: the ones before idx are, the ones behind are not.
InTurn(i) ==
    /\ i < idx => stage[i] = 4
    /\ i = idx => stage[i] < 4
    /\ i > idx => stage[i] = 0

\* NewLocalSystems gives up, when no system is served yet.
Undoing ==
    /\ pc \in {"undo", "failed"} =>
          \A i \in Sys : /\ gor[i] = "none" /\ srv[i] # "serving"
                         /\ stage[i] < 3 => lis[i] = "open"
    /\ pc = "undo" =>
          \E k \in Sys : idx <= k /\ Built = 1..k /\ \A i \in 1..k : InTurn(i)
    /\ pc = "failed" => \A i \in Built : stage[i] = 4
    /\ pc = "stop" => \A i \in Sys : srv[i] # "none" /\ InTurn(i)

\* The server process i of a cluster.
Process(i) ==
    /\ proc[i] \in {"absent", "start"} => lis[i] = "none" /\ Unbuilt(i)
    /\ proc[i] \in {"notify", "register"} => Silent(i)
    /\ proc[i] \in {"wait", "ready"} \/ (proc[i] = "stop" /\ stage[i] = 0) => Working(i)
    /\ why[i] # "none" <=> proc[i] = "gone"

Cluster ==
    /\ flags.cluster => \A i \in Sys : Process(i)
    /\ flags.cluster => \A i \in Sys \ Used : proc[i] = "absent"
    /\ pc = "spawn" => \A i \in Sys : i >= idx => proc[i] = "absent"
    /\ pc = "reap" => \A i \in Sys : i < idx => proc[i] \in {"absent", "gone"}

\* Why a server can miss a peer without a fault of the system.
Cause == \E i, j \in Used : \/ dial[j][i] = "failed"
                            \/ stage[j] > 0 \/ why[j] \notin {"none", "timeout"}

Causes ==
    faults = 0 => /\ ~flags.cluster => ok
                  /\ (\E i \in Used : why[i] = "timeout") => Cause

LaunchInv ==
    /\ TypeOK /\ Place /\ Stopping /\ DialsMet /\ NoProcesses
    /\ ComingUp /\ Undoing /\ Cluster /\ Causes /\ NoOrphans

-----------------------------------------------------------------------------
(* The systems' goroutines *)

\* The program starts in the invariant.
LEMMA InvInit == Init => LaunchInv
<1> SUFFICES ASSUME Init PROVE LaunchInv
  OBVIOUS
<1>1. TypeOK
  BY MaxSystemsAssumption, SMT DEF Init, SystemsInit, TypeOK, Sys
<1>2. Place /\ Stopping /\ DialsMet /\ NoProcesses /\ Causes /\ NoOrphans
  BY SMT DEF Init, SystemsInit, Place, Stopping, DialsMet, NoProcesses, Causes, NoOrphans,
         Local, Parent, Used, Sys
<1>3. ComingUp /\ Undoing /\ Cluster
  BY DEF Init, SystemsInit, ComingUp, Up, Unbuilt, Undoing, Cluster, Process
<1> QED BY <1>1, <1>2, <1>3 DEF LaunchInv

\* The invariant has its parts.
LEMMA Parts ==
    ASSUME LaunchInv
    PROVE  /\ TypeOK /\ Place /\ Stopping /\ DialsMet /\ NoProcesses
           /\ ComingUp /\ Undoing /\ Cluster /\ Causes /\ NoOrphans
BY DEF LaunchInv

\* After a step as well, the parts are the invariant.
LEMMA Whole ==
    ASSUME TypeOK', Place', Stopping', DialsMet', NoProcesses',
           ComingUp', Undoing', Cluster', Causes', NoOrphans'
    PROVE  LaunchInv'
BY DEF LaunchInv

\* What the loop of the client does leaves the systems and processes alone.
LEMMA ElsewhereStep ==
    ASSUME LaunchInv, UNCHANGED <<mainVars, procVars, sysVars>>
    PROVE  LaunchInv'
<1> USE DEF mainVars, procVars, sysVars
<1>1. TypeOK' /\ Place' /\ Stopping' /\ DialsMet' /\ NoProcesses'
  BY Parts, SMT DEF TypeOK, Place, Stopping, DialsMet, NoProcesses, Used
<1>2. ComingUp'
  BY Parts, SMT DEF ComingUp, Up, Unbuilt, Silent, Working, Config, Used
<1>3. Undoing'
  BY Parts DEF Undoing, Built, InTurn
<1>4. Cluster' /\ Causes' /\ NoOrphans'
  BY Parts, SMT DEF Cluster, Process, Unbuilt, Silent, Working, Causes, Cause, NoOrphans, Used
<1> QED BY <1>1, <1>2, <1>3, <1>4, Whole

\* An eager connect keeps the invariant: it fails only if nobody listens.
LEMMA DialStep ==
    ASSUME LaunchInv, NEW i \in Sys, NEW j \in Used, Dial(i, j), Elsewhere
    PROVE  LaunchInv'
<1> USE DEF Elsewhere, mainVars, procVars
<1>0. TypeOK /\ j \in Sys /\ Used \subseteq Sys
  BY MaxSystemsAssumption, Parts, SMT DEF TypeOK, Used, Sys
<1>1. \A a, b \in Sys : dial'[a][b] = IF a = i /\ b = j THEN IF lis[j] = "open" THEN "made" ELSE "failed"
                                     ELSE dial[a][b]
  BY <1>0 DEF Dial, TypeOK
<1>2. TypeOK' /\ Place' /\ Stopping' /\ DialsMet' /\ NoProcesses'
  BY <1>0, <1>1, Parts, SMT DEF Dial, TypeOK, Place, Stopping, DialsMet, NoProcesses, Used
<1>3. Undoing'
  BY Parts DEF Dial, Undoing, Built, InTurn
<1>4. \A a \in Sys : Config(a) \subseteq Config(a)' /\ Config(a)' \subseteq {a} \cup Used
  BY <1>0, <1>1, SMT DEF Dial, Config, Used
<1>5. ComingUp'
  <2>1. pc \notin {"main", "alloc"}
    BY Parts DEF Dial, ComingUp, Unbuilt
  <2>2. Up' => \A a \in Sys : lis'[a] = "open" /\ \A b \in Sys : dial'[a][b] # "failed"
    BY <1>0, <1>1, Parts, SMT DEF Dial, ComingUp, Up
  <2>3. pc = "wait" => Used = Sys
    BY Parts DEF Place, Local, Used, Sys
  <2>4. \A a \in Used : Config(a) = Used => Config(a)' = Used
    BY <1>0, <1>4, SMT
  <2>5. /\ pc' = "wait" => \A a \in Sys : a < idx' => Config(a)' = Used'
        /\ pc' \in {"client", "repl"} => \A a \in Used' : Config(a)' = Used'
    BY <2>3, <2>4, Parts DEF Dial, ComingUp, Used
  <2>6. /\ pc' = "build" => \A a \in Sys : IF a < idx' THEN Silent(a)' ELSE Unbuilt(a)'
        /\ pc' = "register" => \A a \in Sys : IF a < idx' THEN Working(a)' ELSE Silent(a)'
        /\ Up' /\ pc' \in {"wait", "client", "repl"} => \A a \in Sys : Working(a)'
    BY Parts DEF Dial, ComingUp, Up, Unbuilt, Silent, Working
  <2> QED BY <2>1, <2>2, <2>5, <2>6 DEF ComingUp
<1>6. Cluster' /\ NoOrphans'
  BY Parts DEF Dial, Cluster, Process, Unbuilt, Silent, Working, NoOrphans, Used
<1>7. Causes'
  BY <1>0, <1>1, Parts, SMT DEF Dial, Causes, Cause, Used
<1> QED BY <1>2, <1>3, <1>5, <1>6, <1>7, Whole

\* A Serve that returns does so behind Stop.
LEMMA ServeEndStep ==
    ASSUME LaunchInv, NEW i \in Sys, ServeEnd(i), Elsewhere
    PROVE  LaunchInv'
<1> USE DEF Elsewhere, mainVars, procVars
<1>0. TypeOK
  BY Parts
<1>1. \A a \in Sys : gor'[a] = IF a = i THEN "ended" ELSE gor[a]
  BY <1>0 DEF ServeEnd, TypeOK
<1>2. gor[i] = "serving" /\ srv[i] = "stopped"
  BY DEF ServeEnd
<1>3. TypeOK' /\ Place' /\ Stopping' /\ DialsMet' /\ NoProcesses'
  BY Parts, SMT DEF ServeEnd, TypeOK, Place, Stopping, DialsMet, NoProcesses, Used
<1>4. Undoing'
  BY <1>1, <1>2, Parts DEF ServeEnd, Undoing, Built, InTurn
<1>5. ~Up /\ pc \notin {"main", "alloc"}
  BY <1>2, Parts DEF ComingUp, Up, Unbuilt, Silent, Working
<1>6. ComingUp'
  BY <1>5, Parts DEF ServeEnd, ComingUp, Up, Config, Used
<1>7. Cluster' /\ NoOrphans'
  BY <1>1, <1>2, Parts, SMT
     DEF ServeEnd, Cluster, Process, Unbuilt, Silent, Working, NoOrphans, Used
<1>8. Causes'
  BY Parts DEF ServeEnd, Causes, Cause, Used
<1> QED BY <1>3, <1>4, <1>6, <1>7, <1>8, Whole

\* A Serve that begins late does not revive a stopped system.
LEMMA ServeBeginStep ==
    ASSUME LaunchInv, NEW i \in Sys, ServeBegin(i), Elsewhere
    PROVE  LaunchInv'
<1> USE DEF Elsewhere, mainVars, procVars
<1>0. TypeOK
  BY Parts
<1>1. \A a \in Sys : a # i => gor'[a] = gor[a] /\ srv'[a] = srv[a] /\ lis'[a] = lis[a]
  BY <1>0, SMT DEF ServeBegin, TypeOK
<1>2. gor[i] = "started"
  BY DEF ServeBegin
<1>3. \/ /\ srv[i] = "stopped" /\ srv'[i] = "stopped"
         /\ lis'[i] = "closed" /\ gor'[i] = "ended"
      \/ /\ srv[i] # "stopped" /\ srv'[i] = "serving"
         /\ lis'[i] = lis[i] /\ gor'[i] = "serving"
  BY <1>0, SMT DEF ServeBegin, TypeOK
<1>4. UNCHANGED <<size, out, dial, stage>>
  BY DEF ServeBegin
<1>5. TypeOK'
  BY <1>0, ZenonT(40) DEF ServeBegin, TypeOK
<1>6. Place' /\ NoProcesses'
  BY <1>4, Parts DEF Place, NoProcesses, Used
<1>7. Stopping' /\ DialsMet'
  BY <1>0, <1>1, <1>3, <1>4, Parts, SMT DEF TypeOK, Stopping, DialsMet
<1>8. Undoing'
  <2>1. pc \notin {"undo", "failed"}
    BY <1>2, Parts DEF Undoing
  <2>2. \A a \in Sys : srv[a] # "none" => srv'[a] # "none"
    BY <1>1, <1>3
  <2> QED BY <2>1, <2>2, <1>4, Parts DEF Undoing, InTurn
<1>9. pc \notin {"main", "alloc", "build"}
  BY <1>2, Parts DEF ComingUp, Unbuilt, Silent
<1>10. \A a \in Sys : /\ Working(a) => Working(a)'
                      /\ Silent(a) => Silent(a)'
                      /\ Unbuilt(a) => Unbuilt(a)'
  BY <1>1, <1>2, <1>3, <1>4 DEF Working, Silent, Unbuilt
<1>11. ComingUp'
  <2>1. Up => srv[i] # "stopped"
    BY <1>9, Parts DEF ComingUp, Up, Working, Silent
  <2>2. Up' => \A a \in Sys : lis'[a] = "open" /\ \A b \in Sys : dial'[a][b] # "failed"
    BY <1>1, <1>3, <1>4, <2>1, Parts DEF ComingUp, Up
  <2>3. /\ pc = "wait" => Used = Sys
        /\ pc \in {"client", "repl"} => Up \/ Used = {}
    BY Parts, SMT DEF Place, Local, Used, Sys, Up
  <2>4. Up => \A a \in Sys : Config(a) = Used => Config(a)' = Used
    BY <1>1, <1>3, <1>4, <2>1 DEF Config, Used
  <2>5. /\ pc' = "wait" => \A a \in Sys : a < idx' => Config(a)' = Used'
        /\ pc' \in {"client", "repl"} => \A a \in Used' : Config(a)' = Used'
    BY <1>0, <1>4, <2>3, <2>4, MaxSystemsAssumption, Parts, SMT DEF ComingUp, Used, Up, TypeOK, Sys
  <2>6. /\ pc' = "register" => \A a \in Sys : IF a < idx' THEN Working(a)' ELSE Silent(a)'
        /\ Up' /\ pc' \in {"wait", "client", "repl"} => \A a \in Sys : Working(a)'
    BY <1>4, <1>10, Parts DEF ComingUp, Up
  <2> QED BY <1>9, <2>2, <2>5, <2>6 DEF ComingUp
<1>12. Cluster' /\ NoOrphans'
  BY <1>1, <1>2, <1>4, <1>10, Parts, SMT DEF Cluster, Process, Unbuilt, NoOrphans, Used
<1>13. Causes'
  BY <1>4, Parts DEF Causes, Cause, Used
<1> QED BY <1>5, <1>6, <1>7, <1>8, <1>11, <1>12, <1>13, Whole

-----------------------------------------------------------------------------
(* main, up to a running local cluster *)

\* A step of main that is not that of a cluster's parent.
LEMMA LocalFrame ==
    ASSUME LaunchInv, ~flags.cluster, UNCHANGED <<flags, procVars>>, TypeOK',
           pc' \notin {"spawn", "reap"}, faults' = 0 => ok'
    PROVE  NoProcesses' /\ Cluster' /\ NoOrphans' /\ Causes'
<1>1. \A i \in Sys : proc'[i] = "absent" /\ why'[i] = "none"
  BY Parts DEF NoProcesses, procVars
<1>2. Used' \subseteq Sys
  BY MaxSystemsAssumption, SMT DEF TypeOK, Used, Sys
<1> QED BY <1>1, <1>2 DEF NoProcesses, Cluster, NoOrphans, Causes

\* The number of systems that are built is the last of them.
LEMMA BuiltCount ==
    ASSUME NEW k \in Sys, Built = 1..k
    PROVE  Cardinality(Built) = k
<1>1. k \in Nat \ {0}
  BY MaxSystemsAssumption, SMT DEF Sys
<1> QED BY <1>1, FS_Interval, SMT

\* main chooses between the three ways to run.
LEMMA MainStep ==
    ASSUME LaunchInv, main
    PROVE  LaunchInv'
<1> DEFINE all == splitAddrs(flags.addrs)
<1> USE DEF Goto, procVars
<1>0. TypeOK /\ pc = "main" /\ idx' = 1 /\ UNCHANGED <<flags, ok, faults, procVars, lis, srv, gor, out, dial, stage>>
  BY Parts DEF main
<1>1. CASE flags.cluster
  <2>1. size' = Len(all) /\ pc' = IF all = <<>> THEN "fatal" ELSE "spawn"
    BY <1>1 DEF main
  <2>2. all = <<>> => Len(all) = 0
    BY SMT
  <2>3. all # <<>> => Len(all) \in Sys
    BY <1>0, <1>1, InvocationsAssumption DEF TypeOK
  <2> HIDE DEF all
  <2>4. size' \in 0..MaxSystems /\ (pc' = "spawn" => size' >= 1 /\ 1 \in Used')
    BY <2>1, <2>2, <2>3, MaxSystemsAssumption, SMT DEF Used, Sys
  <2>5. TypeOK' /\ Place' /\ Stopping' /\ DialsMet' /\ NoProcesses'
    BY <1>0, <1>1, <2>1, <2>4, MaxSystemsAssumption, Parts, SMT
       DEF TypeOK, Place, Stopping, DialsMet, NoProcesses, Local, Parent, Ending
  <2>6. ComingUp' /\ Undoing'
    BY <2>1 DEF ComingUp, Up, Undoing
  <2>7. \A i \in Sys : proc'[i] = "absent" /\ why'[i] = "none" /\ lis'[i] = "none" /\ Unbuilt(i)'
    BY <1>0, Parts DEF ComingUp, Unbuilt
  <2>8. Cluster' /\ NoOrphans'
    BY <2>1, <2>7 DEF Cluster, NoOrphans, Process
  <2>9. Used' \subseteq Sys
    BY <2>4, MaxSystemsAssumption, SMT DEF Used, Sys
  <2>10. Causes'
    BY <1>0, <1>1, <2>7, <2>9 DEF Causes
  <2> QED BY <2>5, <2>6, <2>8, <2>10, Whole
<1>2. CASE ~flags.cluster
  <2>1. /\ size' = IF all = <<>> THEN MaxSystems ELSE 0
        /\ pc' \in {"client", "alloc", "fatal"}
        /\ pc' = "client" => all # <<>>
        /\ pc' = "alloc" => all = <<>>
    BY <1>2 DEF main
  <2> HIDE DEF all
  <2>2. TypeOK' /\ Place' /\ Stopping' /\ DialsMet'
    BY <1>0, <1>2, <2>1, MaxSystemsAssumption, Parts, SMT
       DEF TypeOK, Place, Stopping, DialsMet, Local, Parent, Ending, Sys
  <2>3. ComingUp' /\ Undoing'
    <3>1. pc' = "client" => size' = 0 /\ Used' = {}
      BY <2>1, SMT DEF Used
    <3>2. \A i \in Sys : Unbuilt(i)' /\ \A j \in Sys : dial'[i][j] = "idle"
      BY <1>0, Parts DEF ComingUp, Unbuilt
    <3>3. \A i \in Sys : ~(i < idx')
      BY <1>0, SMT DEF Sys
    <3> QED BY <2>1, <3>1, <3>2, <3>3 DEF ComingUp, Up, Undoing
  <2>4. NoProcesses' /\ Cluster' /\ NoOrphans' /\ Causes'
    BY <1>0, <1>2, <2>1, <2>2, LocalFrame, Parts DEF Causes
  <2> QED BY <2>2, <2>3, <2>4, Whole
<1> QED BY <1>1, <1>2

\* allocateListeners opens one listener after the other, or closes those it has.
LEMMA AllocateStep ==
    ASSUME LaunchInv, Allocate
    PROVE  LaunchInv'
<1> USE DEF Goto, procVars
<1>0. /\ TypeOK /\ pc = "alloc" /\ ~flags.cluster /\ size = MaxSystems /\ idx \in Sys
      /\ UNCHANGED <<flags, ok, proc, sig, why, size, srv, gor, out, dial, stage>>
      /\ \A i \in Sys : Unbuilt(i) /\ \A j \in Sys : dial[i][j] = "idle"
      /\ \A i \in Sys : i < idx => lis[i] = "open"
  BY Parts DEF Allocate, Place, ComingUp, Local
<1>1. CASE Listen(idx) /\ Loop(size, "build") /\ UNCHANGED faults
  <2>1. \A i \in Sys : lis'[i] = IF i = idx THEN "open" ELSE lis[i]
    BY <1>0, <1>1, SMT DEF Listen, TypeOK
  <2>2. \/ idx = MaxSystems /\ pc' = "build" /\ idx' = 1
        \/ idx < MaxSystems /\ pc' = "alloc" /\ idx' = idx + 1
    BY <1>0, <1>1, MaxSystemsAssumption, SMT DEF Loop, Sys
  <2>3. TypeOK'
    BY <1>0, <1>1, <2>2, MaxSystemsAssumption, SMT DEF TypeOK, Listen, Local, Sys
  <2>4. Place' /\ Stopping' /\ DialsMet'
    BY <1>0, <2>1, <2>2, MaxSystemsAssumption, Parts, SMT
       DEF Place, Stopping, DialsMet, Unbuilt, Local, Parent, Sys
  <2>5. ComingUp' /\ Undoing'
    <3>1. \A i \in Sys : Unbuilt(i)' /\ \A j \in Sys : dial'[i][j] = "idle"
      BY <1>0 DEF Unbuilt
    <3>2. pc' = "alloc" => \A i \in Sys : i < idx' => lis'[i] = "open"
      BY <1>0, <2>1, <2>2, SMT DEF Sys
    <3>3. pc' = "build" => \A i \in Sys : lis'[i] = "open" /\ ~(i < idx')
      BY <1>0, <2>1, <2>2, SMT DEF Sys
    <3> QED BY <2>2, <3>1, <3>2, <3>3 DEF ComingUp, Up, Undoing
  <2>6. NoProcesses' /\ Cluster' /\ NoOrphans' /\ Causes'
    BY <1>0, <1>1, <2>2, <2>3, LocalFrame, Parts DEF Causes
  <2> QED BY <2>3, <2>4, <2>5, <2>6, Whole
<1>2. CASE /\ Fault /\ Goto("fatal")
           /\ lis' = [i \in Sys |-> IF i < idx THEN "closed" ELSE lis[i]]
  <2>1. TypeOK'
    BY <1>0, <1>2, SMT DEF TypeOK, Fault, Ending
  <2>2. Place' /\ Stopping' /\ DialsMet' /\ ComingUp' /\ Undoing'
    BY <1>0, <1>2, SMT DEF Place, Stopping, DialsMet, ComingUp, Up, Undoing, Unbuilt, Local, Parent
  <2>3. NoProcesses' /\ Cluster' /\ NoOrphans' /\ Causes'
    <3>1. faults' # 0
      BY <1>0, <1>2, SMT DEF Fault, TypeOK
    <3> QED BY <1>0, <1>2, <2>1, <3>1, LocalFrame
  <2> QED BY <2>1, <2>2, <2>3, Whole
<1> QED BY <1>1, <1>2 DEF Allocate

\* The systems are built in order; an error leaves a prefix of them built.
LEMMA BuildStep ==
    ASSUME LaunchInv, BuildSystem
    PROVE  LaunchInv'
<1> USE DEF Goto, procVars
<1>0. /\ TypeOK /\ pc = "build" /\ ~flags.cluster /\ size = MaxSystems /\ idx \in Sys
      /\ UNCHANGED <<flags, ok, proc, sig, why, size, lis, gor, dial, stage>>
      /\ \A i \in Sys : IF i < idx THEN Silent(i) ELSE Unbuilt(i)
      /\ \A i \in Sys : lis[i] = "open" /\ \A j \in Sys : dial[i][j] # "failed"
  BY Parts DEF BuildSystem, Place, ComingUp, Up, Local
<1>1. CASE Build(idx) /\ Loop(size, "register") /\ UNCHANGED faults
  <2>1. \A i \in Sys : IF i = idx THEN Silent(i)'
                       ELSE srv'[i] = srv[i] /\ out'[i] = out[i]
    BY <1>0, <1>1, SMT DEF Build, TypeOK, Silent, Unbuilt
  <2>2. \/ idx = MaxSystems /\ pc' = "register" /\ idx' = 1
        \/ idx < MaxSystems /\ pc' = "build" /\ idx' = idx + 1
    BY <1>0, <1>1, MaxSystemsAssumption, SMT DEF Loop, Sys
  <2>3. TypeOK'
    <3>1. idx' \in Nat \ {0} /\ pc' \in Local
      BY <1>0, <2>2, SMT DEF TypeOK, Local
    <3>2. /\ srv' \in [Sys -> {"none", "new", "serving", "stopped"}]
          /\ out' \in [Sys -> {"none", "open", "closed"}]
      BY <1>0, <1>1 DEF TypeOK, Build
    <3> QED BY <1>0, <1>1, <3>1, <3>2 DEF TypeOK
  <2>4. Place' /\ DialsMet'
    BY <1>0, <2>2, MaxSystemsAssumption, Parts, SMT DEF Place, DialsMet, Local, Parent, Sys
  <2>5. Stopping'
    BY <1>0, SMT DEF Stopping, Silent, Unbuilt
  <2>6. ComingUp' /\ Undoing'
    <3>1. \A i \in Sys : IF i <= idx THEN Silent(i)' ELSE Unbuilt(i)'
      BY <1>0, <2>1, SMT DEF Silent, Unbuilt, Sys
    <3>2. pc' = "build" => \A i \in Sys : IF i < idx' THEN Silent(i)' ELSE Unbuilt(i)'
      BY <1>0, <2>2, <3>1, SMT DEF Sys
    <3>3. pc' = "register" => \A i \in Sys : IF i < idx' THEN Working(i)' ELSE Silent(i)'
      BY <1>0, <2>2, <3>1, SMT DEF Sys
    <3> QED BY <1>0, <2>2, <3>2, <3>3 DEF ComingUp, Up, Undoing
  <2>7. NoProcesses' /\ Cluster' /\ NoOrphans' /\ Causes'
    BY <1>0, <1>1, <2>2, <2>3, LocalFrame, Parts DEF Causes
  <2> QED BY <2>3, <2>4, <2>5, <2>6, <2>7, Whole
<1>2. CASE Fault /\ UndoBuild /\ UNCHANGED <<srv, out>>
  <2>1. idx' = 1 /\ pc' = IF idx = 1 THEN "failed" ELSE "undo"
    BY <1>2 DEF UndoBuild
  <2>2. TypeOK'
    BY <1>0, <1>2, <2>1, SMT DEF TypeOK, Fault, Local
  <2>3. Place' /\ Stopping' /\ DialsMet' /\ ComingUp'
    BY <1>0, <1>2, <2>1, Parts DEF Place, Stopping, DialsMet, ComingUp, Up, Local, Parent
  <2>4. Undoing'
    <3>1. \A i \in Sys : gor'[i] = "none" /\ srv'[i] # "serving" /\ lis'[i] = "open" /\ stage'[i] = 0
      BY <1>0, <1>2 DEF Silent, Unbuilt
    <3>2. \A i \in Sys : srv'[i] # "none" <=> i < idx
      BY <1>0, <1>2 DEF Silent, Unbuilt
    <3>3. Built' = 1..idx - 1
      <4>1. \A i : i \in 1..idx - 1 <=> i \in Sys /\ i < idx
        BY <1>0, MaxSystemsAssumption, SMT DEF Sys
      <4>2. \A i : i \in Built' <=> i \in Sys /\ srv'[i] # "none"
        BY DEF Built
      <4> QED BY <3>2, <4>1, <4>2
    <3>4. pc' = "failed" => Built' = {}
      BY <2>1, <3>3, SMT
    <3>5. pc' = "undo" =>
             \E k \in Sys : idx' <= k /\ Built' = 1..k /\ \A i \in 1..k : InTurn(i)'
      <4> SUFFICES ASSUME pc' = "undo"
                   PROVE  \E k \in Sys : idx' <= k /\ Built' = 1..k /\ \A i \in 1..k : InTurn(i)'
        OBVIOUS
      <4>1. idx - 1 \in Sys /\ idx' <= idx - 1 /\ 1..idx - 1 \subseteq Sys
        BY <1>0, <2>1, MaxSystemsAssumption, SMT DEF Sys
      <4>2. \A i \in 1..idx - 1 : InTurn(i)'
        BY <2>1, <3>1, <4>1, SMT DEF InTurn
      <4> QED BY <3>3, <4>1, <4>2
    <3> QED BY <2>1, <3>1, <3>4, <3>5 DEF Undoing
  <2>5. NoProcesses' /\ Cluster' /\ NoOrphans' /\ Causes'
    <3>1. faults' # 0
      BY <1>0, <1>2, SMT DEF Fault, TypeOK
    <3> QED BY <1>0, <1>2, <2>1, <2>2, <3>1, LocalFrame
  <2> QED BY <2>2, <2>3, <2>4, <2>5, Whole
<1> QED BY <1>1, <1>2 DEF BuildSystem

\* registerAndServe starts the goroutines in order.
LEMMA RegisterStep ==
    ASSUME LaunchInv, RegisterAndServe
    PROVE  LaunchInv'
<1> USE DEF Goto, procVars
<1>0. /\ TypeOK /\ pc = "register" /\ ~flags.cluster /\ size = MaxSystems /\ idx \in Sys
      /\ UNCHANGED <<flags, ok, faults, proc, sig, why, size, lis, srv, out, dial, stage>>
      /\ \A i \in Sys : IF i < idx THEN Working(i) ELSE Silent(i)
      /\ \A i \in Sys : lis[i] = "open" /\ \A j \in Sys : dial[i][j] # "failed"
  BY Parts DEF RegisterAndServe, Place, ComingUp, Up, Local
<1>1. \A i \in Sys : gor'[i] = IF i = idx THEN "started" ELSE gor[i]
  BY <1>0 DEF RegisterAndServe, GoServe, TypeOK
<1>2. \/ idx = MaxSystems /\ pc' = "wait" /\ idx' = 1
      \/ idx < MaxSystems /\ pc' = "register" /\ idx' = idx + 1
  BY <1>0, MaxSystemsAssumption, SMT DEF RegisterAndServe, Loop, Sys
<1>3. TypeOK'
  BY <1>0, <1>2, MaxSystemsAssumption, SMT DEF TypeOK, RegisterAndServe, GoServe, Local, Sys
<1>4. Place' /\ Stopping' /\ DialsMet'
  BY <1>0, <1>2, MaxSystemsAssumption, Parts, SMT DEF Place, Stopping, DialsMet, Local, Parent, Sys
<1>5. ComingUp' /\ Undoing'
  <2>1. \A i \in Sys : IF i <= idx THEN Working(i)' ELSE Silent(i)'
    BY <1>0, <1>1, SMT DEF Working, Silent, Sys
  <2>2. pc' = "register" => \A i \in Sys : IF i < idx' THEN Working(i)' ELSE Silent(i)'
    BY <1>0, <1>2, <2>1, SMT DEF Sys
  <2>3. pc' = "wait" => \A i \in Sys : Working(i)' /\ ~(i < idx')
    BY <1>0, <1>2, <2>1, SMT DEF Sys
  <2> QED BY <1>0, <1>2, <2>2, <2>3 DEF ComingUp, Up, Undoing
<1>6. NoProcesses' /\ Cluster' /\ NoOrphans' /\ Causes'
  BY <1>0, <1>2, <1>3, LocalFrame, Parts DEF Causes
<1> QED BY <1>3, <1>4, <1>5, <1>6, Whole

\* Steps that move main on and do nothing else.
LEMMA OnlyMain ==
    ASSUME LaunchInv, Failed \/ NewClient \/ ReplEnds \/ ReplFails
    PROVE  LaunchInv'
<1> USE DEF Goto, procVars, sysVars
<1> DEFINE Moves(from, to) == pc = from /\ pc' = to
<1>0. /\ TypeOK /\ ~flags.cluster /\ idx' = 1
      /\ UNCHANGED <<flags, ok, procVars, sysVars>>
      /\ faults' = faults \/ (faults' = faults + 1)
  BY Parts DEF Failed, NewClient, ReplEnds, ReplFails, Place, Local, Fault
<1>1. \/ Moves("failed", "fatal") \/ Moves("client", "repl") \/ Moves("client", "fatal")
      \/ Moves("repl", "fatal")
      \/ Moves("repl", "exit") /\ size = 0
      \/ Moves("repl", "stop") /\ size # 0
  BY DEF Failed, NewClient, ReplEnds, ReplFails
<1>2. TypeOK'
  BY <1>0, <1>1, SMT DEF TypeOK, Local, Ending
<1>3. Place' /\ Stopping' /\ DialsMet'
  BY <1>0, <1>1, MaxSystemsAssumption, Parts, SMT DEF Place, Stopping, DialsMet, Local, Parent, Sys
<1>4. ComingUp'
  <2>1. \A i \in Sys : /\ Working(i) => Working(i)'
                       /\ (Config(i) = Used) => (Config(i) = Used)'
    BY <1>0 DEF Working, Config, Used
  <2>2. \A i \in Used : i \in Sys
    BY <1>0, MaxSystemsAssumption, SMT DEF TypeOK, Used, Sys
  <2>3. CASE Moves("client", "repl")
    <3>1. Up' => Up
      BY <1>0, <2>3 DEF Up
    <3>2. \A i \in Used' : (Config(i) = Used)'
      BY <1>0, <2>1, <2>2, <2>3, Parts DEF ComingUp, Used
    <3> QED BY <1>0, <2>1, <2>3, <3>1, <3>2, Parts DEF ComingUp
  <2> QED BY <1>1, <2>3 DEF ComingUp, Up
<1>5. Undoing'
  <2>1. CASE Moves("repl", "stop") /\ size # 0
    <3>1. \A i \in Sys : Working(i)
      BY <2>1, Parts DEF ComingUp, Up
    <3>2. \A i \in Sys : srv'[i] # "none" /\ stage'[i] = 0 /\ ~(i < idx')
      BY <1>0, <3>1, SMT DEF Working, Sys
    <3>3. \A i \in Sys : InTurn(i)'
      BY <1>0, <3>2, SMT DEF InTurn, Sys
    <3> QED BY <2>1, <3>2, <3>3 DEF Undoing
  <2> QED BY <1>1, <2>1 DEF Undoing
<1>6. NoProcesses' /\ Cluster' /\ NoOrphans' /\ Causes'
  <2>1. faults' = 0 => ok'
    BY <1>0, Parts, SMT DEF Causes, TypeOK
  <2> QED BY <1>0, <1>1, <1>2, <2>1, LocalFrame
<1> QED BY <1>2, <1>3, <1>4, <1>5, <1>6, Whole

\* A system that counts all systems in its configuration has all of them there.
LEMMA ConnectedToAll ==
    ASSUME size \in Nat, NEW i \in Used, Connected(i)
    PROVE  Config(i) = Used
<1>1. IsFiniteSet(Used) /\ Cardinality(Used) = size
  BY FS_Interval, SMT DEF Used
<1>2. Config(i) \in SUBSET Used
  BY DEF Config
<1> QED BY <1>1, <1>2, FS_Subset DEF Connected

\* In a local cluster that is up and settled, everybody is connected.
LEMMA SettledConnects ==
    ASSUME size \in Nat, NEW i \in Used, Used \subseteq Sys, dial \in [Sys -> [Sys -> {"idle", "made", "failed"}]],
           \A j \in Used : Working(j) /\ \A k \in Used : dial[j][k] # "failed",
           Settled
    PROVE  Connected(i)
<1>1. srv[i] = "serving"
  BY DEF Settled, Working
<1>2. ASSUME NEW j \in Used, j # i PROVE dial[j][i] = "made" /\ out[j] = "open"
  <2>1. out[j] = "open" /\ dial[j][i] # "idle" /\ dial[j][i] # "failed"
    BY <1>2 DEF Settled, Working
  <2>2. dial[j][i] \in {"idle", "made", "failed"}
    OBVIOUS
  <2> QED BY <2>1, <2>2
<1>3. Config(i) = Used
  BY <1>1, <1>2 DEF Config
<1>4. Cardinality(Used) = size
  BY FS_Interval, SMT DEF Used
<1> QED BY <1>3, <1>4 DEF Connected

\* The wait of one system ends connected, or with a fault.
LEMMA WaitStep ==
    ASSUME LaunchInv, WaitForSystem
    PROVE  LaunchInv'
<1> USE DEF Goto, procVars, sysVars
<1>0. /\ TypeOK /\ pc = "wait" /\ ~flags.cluster /\ size = MaxSystems /\ idx \in Sys
      /\ UNCHANGED <<flags, procVars, sysVars>>
      /\ \A i \in Sys : Working(i) /\ lis[i] = "open"
      /\ \A i, j \in Sys : dial[i][j] # "failed"
      /\ \A i \in Sys : i < idx => Config(i) = Used
  BY Parts DEF WaitForSystem, Place, ComingUp, Up, Local
<1>1. Used = Sys /\ Used' = Used /\ size \in Nat /\ \A i \in Sys : Config(i)' = Config(i)
  BY <1>0, MaxSystemsAssumption DEF Used, Sys, Config
<1>2. \A i \in Sys : Working(i)'
  BY <1>0 DEF Working
<1>3. CASE Connected(idx) /\ Loop(size, "client") /\ UNCHANGED <<ok, faults>>
  <2>1. Config(idx) = Used
    BY <1>0, <1>1, <1>3, ConnectedToAll
  <2>2. \/ idx = MaxSystems /\ pc' = "client" /\ idx' = 1
        \/ idx < MaxSystems /\ pc' = "wait" /\ idx' = idx + 1
    BY <1>0, <1>3, MaxSystemsAssumption, SMT DEF Loop, Sys
  <2>3. TypeOK'
    BY <1>0, <1>3, <2>2, MaxSystemsAssumption, SMT DEF TypeOK, Local, Sys
  <2>4. Place' /\ Stopping' /\ DialsMet'
    BY <1>0, <2>2, MaxSystemsAssumption, Parts, SMT
       DEF Place, Stopping, DialsMet, Local, Parent, Sys
  <2>5. ComingUp' /\ Undoing'
    <3>1. \A i \in Sys : i <= idx => Config(i)' = Used'
      BY <1>0, <1>1, <2>1, SMT DEF Sys
    <3>2. pc' = "wait" => \A i \in Sys : i < idx' => Config(i)' = Used'
      BY <1>0, <2>2, <3>1, SMT DEF Sys
    <3>3. pc' = "client" => \A i \in Used' : Config(i)' = Used'
      BY <1>0, <1>1, <2>2, <3>1, SMT DEF Sys
    <3> QED BY <1>0, <1>2, <2>2, <3>2, <3>3 DEF ComingUp, Up, Undoing
  <2>6. NoProcesses' /\ Cluster' /\ NoOrphans' /\ Causes'
    BY <1>0, <1>3, <2>2, <2>3, LocalFrame, Parts DEF Causes
  <2> QED BY <2>3, <2>4, <2>5, <2>6, Whole
<1>4. CASE /\ ~Connected(idx) /\ Goto("stop") /\ ok' = FALSE
           /\ IF Settled THEN UNCHANGED faults ELSE Fault
  <2>1. ~Settled
    <3> SUFFICES ASSUME Settled PROVE FALSE
      OBVIOUS
    <3>1. Connected(idx)
      BY <1>0, <1>1, SettledConnects DEF TypeOK
    <3> QED BY <1>4, <3>1
  <2>2. faults' = faults + 1 /\ faults' # 0
    BY <1>0, <1>4, <2>1, SMT DEF Fault, TypeOK
  <2>3. TypeOK'
    <3>1. ok' \in BOOLEAN
      BY <1>4
    <3>2. faults' \in Nat /\ idx' = 1 /\ pc' = "stop"
      BY <1>0, <1>4, <2>2, SMT DEF TypeOK
    <3>3. idx' \in Nat \ {0} /\ pc' \in Local
      BY <3>2, SMT DEF Local
    <3> QED BY <1>0, <3>1, <3>2, <3>3 DEF TypeOK
  <2>4. Place' /\ Stopping' /\ DialsMet' /\ ComingUp'
    BY <1>0, <1>4, MaxSystemsAssumption, Parts, SMT
       DEF Place, Stopping, DialsMet, ComingUp, Up, Local, Parent, Sys
  <2>5. Undoing'
    <3>1. \A i \in Sys : srv'[i] # "none" /\ stage'[i] = 0 /\ ~(i < idx')
      BY <1>0, <1>4, SMT DEF Working, Sys
    <3>2. \A i \in Sys : InTurn(i)'
      BY <1>4, <3>1, SMT DEF InTurn, Sys
    <3> QED BY <1>4, <3>1, <3>2 DEF Undoing
  <2>6. NoProcesses' /\ Cluster' /\ NoOrphans' /\ Causes'
    BY <1>0, <1>4, <2>2, <2>3, LocalFrame
  <2> QED BY <2>3, <2>4, <2>5, <2>6, Whole
<1> QED BY <1>3, <1>4 DEF WaitForSystem

\* One step of Stop on system i.
LEMMA StopFacts ==
    ASSUME TypeOK, Stopping, DialsMet, NEW i \in Sys, StopStep(i)
    PROVE  /\ Stopping' /\ DialsMet'
           /\ stage[i] \in 0..3 /\ stage'[i] = stage[i] + 1
           /\ \A a \in Sys : a # i => /\ stage'[a] = stage[a] /\ lis'[a] = lis[a]
                                      /\ srv'[a] = srv[a] /\ out'[a] = out[a]
           /\ srv'[i] \in {srv[i], "stopped"}
           /\ srv[i] # "serving" /\ stage'[i] < 3 => lis'[i] = lis[i]
           /\ lis' \in [Sys -> {"none", "open", "closed"}]
           /\ srv' \in [Sys -> {"none", "new", "serving", "stopped"}]
           /\ out' \in [Sys -> {"none", "open", "closed"}]
           /\ stage' \in [Sys -> 0..4]
           /\ UNCHANGED <<size, gor, dial>>
<1>1. /\ stage[i] \in 0..3 /\ stage'[i] = stage[i] + 1 /\ stage' \in [Sys -> 0..4]
      /\ \A a \in Sys : a # i => stage'[a] = stage[a]
  BY SMT DEF TypeOK, StopStep
<1>2. /\ lis' \in [Sys -> {"none", "open", "closed"}]
      /\ srv' \in [Sys -> {"none", "new", "serving", "stopped"}]
      /\ out' \in [Sys -> {"none", "open", "closed"}]
      /\ UNCHANGED <<size, gor, dial>>
  <2>1. lis' = lis \/ lis' = [lis EXCEPT ![i] = "closed"]
    BY DEF StopStep, CloseListener
  <2>2. srv' = srv \/ srv' = [srv EXCEPT ![i] = "stopped"]
    BY DEF StopStep
  <2>3. out' = out \/ out' = [out EXCEPT ![i] = "closed"]
    BY DEF StopStep
  <2>4. UNCHANGED <<size, gor, dial>>
    BY DEF StopStep
  <2>5. lis' \in [Sys -> {"none", "open", "closed"}]
    BY <2>1 DEF TypeOK
  <2>6. srv' \in [Sys -> {"none", "new", "serving", "stopped"}]
    BY <2>2 DEF TypeOK
  <2>7. out' \in [Sys -> {"none", "open", "closed"}]
    BY <2>3 DEF TypeOK
  <2> QED BY <2>4, <2>5, <2>6, <2>7
<1>3. \A a \in Sys : a # i => lis'[a] = lis[a] /\ srv'[a] = srv[a] /\ out'[a] = out[a]
  BY SMT DEF TypeOK, StopStep, CloseListener
<1>4. /\ lis'[i] \in {lis[i], "closed"} /\ srv'[i] \in {srv[i], "stopped"}
      /\ out'[i] \in {out[i], "closed"}
      /\ stage[i] = 1 => srv'[i] = "stopped" /\ (srv[i] # "serving" => lis'[i] = lis[i])
      /\ stage[i] = 2 => lis'[i] = "closed"
      /\ stage[i] = 3 => out'[i] = "closed"
      /\ stage[i] = 0 => lis'[i] = lis[i]
  BY SMT DEF TypeOK, StopStep, CloseListener
<1>5. Stopping'
  <2>1. /\ stage'[i] >= 2 => stage[i] >= 2 \/ stage[i] = 1
        /\ stage'[i] >= 3 => stage[i] >= 3 \/ stage[i] = 2
        /\ stage'[i] = 4 => stage[i] = 3
    BY <1>1, SMT
  <2>2. /\ stage'[i] >= 2 => srv'[i] = "stopped"
        /\ stage'[i] >= 3 => lis'[i] = "closed"
        /\ stage'[i] = 4 => out'[i] = "closed"
    BY <1>4, <2>1 DEF Stopping
  <2>3. ASSUME NEW a \in Sys, a # i
        PROVE  /\ stage'[a] >= 2 => srv'[a] = "stopped"
               /\ stage'[a] >= 3 => lis'[a] = "closed"
               /\ stage'[a] = 4 => out'[a] = "closed"
    <3>1. stage'[a] = stage[a] /\ lis'[a] = lis[a] /\ srv'[a] = srv[a] /\ out'[a] = out[a]
      BY <1>1, <1>3, <2>3
    <3> QED BY <3>1 DEF Stopping
  <2> QED BY <2>2, <2>3 DEF Stopping
<1>6. DialsMet'
  BY <1>2, <1>3, <1>4, SMT DEF DialsMet
<1>7. srv[i] # "serving" /\ stage'[i] < 3 => lis'[i] = lis[i]
  BY <1>1, <1>4, SMT
<1> QED BY <1>1, <1>2, <1>3, <1>4, <1>5, <1>6, <1>7

\* One step of stopping the systems that were built, one after the other.
LEMMA StopSystemsStep ==
    ASSUME LaunchInv, StopSystems
    PROVE  LaunchInv'
<1> USE DEF Goto, procVars
<1>0. /\ TypeOK /\ pc \in {"stop", "undo"} /\ ~flags.cluster /\ size = MaxSystems
      /\ Stopping /\ DialsMet /\ StopStep(idx)
      /\ UNCHANGED <<flags, ok, faults, proc, sig, why>>
  BY Parts DEF StopSystems, Place, Local
<1>1. PICK k \in Sys : idx \in 1..k /\ Built = 1..k /\ \A i \in 1..k : InTurn(i)
  <2>1. CASE pc = "undo"
    <3>1. PICK k \in Sys : idx <= k /\ Built = 1..k /\ \A i \in 1..k : InTurn(i)
      BY <2>1, Parts DEF Undoing
    <3>2. idx \in 1..k
      BY <1>0, <3>1, MaxSystemsAssumption, SMT DEF TypeOK, Sys
    <3> QED BY <3>1, <3>2
  <2>2. CASE pc = "stop"
    <3>1. idx \in Sys /\ \A i \in Sys : srv[i] # "none" /\ InTurn(i)
      BY <2>2, Parts DEF Undoing, Place
    <3>2. Built = 1..MaxSystems /\ MaxSystems \in Sys /\ idx \in 1..MaxSystems
      BY <3>1, MaxSystemsAssumption, SMT DEF Built, Sys
    <3> QED BY <3>1, <3>2 DEF Sys
  <2> QED BY <1>0, <2>1, <2>2
<1>2. Cardinality(Built) = k /\ idx \in Sys /\ 1..k \subseteq Sys /\ k \in Nat
  BY <1>1, BuiltCount, MaxSystemsAssumption, SMT DEF Sys
<1>3. /\ Stopping' /\ DialsMet'
      /\ stage[idx] \in 0..3 /\ stage'[idx] = stage[idx] + 1
      /\ \A a \in Sys : a # idx => /\ stage'[a] = stage[a] /\ lis'[a] = lis[a]
                                   /\ srv'[a] = srv[a] /\ out'[a] = out[a]
      /\ srv'[idx] \in {srv[idx], "stopped"}
      /\ srv[idx] # "serving" /\ stage'[idx] < 3 => lis'[idx] = lis[idx]
      /\ lis' \in [Sys -> {"none", "open", "closed"}]
      /\ srv' \in [Sys -> {"none", "new", "serving", "stopped"}]
      /\ out' \in [Sys -> {"none", "open", "closed"}]
      /\ stage' \in [Sys -> 0..4]
      /\ UNCHANGED <<size, gor, dial>>
  BY <1>0, <1>2, StopFacts
<1>4. \/ stage[idx] < 3 /\ pc' = pc /\ idx' = idx
      \/ stage[idx] = 3 /\ idx < k /\ pc' = pc /\ idx' = idx + 1
      \/ /\ stage[idx] = 3 /\ idx = k /\ idx' = 1
         /\ pc = "undo" => pc' = "failed"
         /\ pc = "stop" => pc' \in {"exit", "fatal"}
  BY <1>0, <1>1, <1>2, <1>3, SMT DEF StopSystems, Loop
<1>5. TypeOK'
  BY <1>0, <1>1, <1>2, <1>3, <1>4, SMT DEF TypeOK, Local, Ending
<1>6. Built' = Built
  BY <1>1, <1>3 DEF Built
<1>7. pc' = pc => idx' \in 1..k /\ \A i \in 1..k : InTurn(i)'
  <2> SUFFICES ASSUME pc' = pc PROVE idx' \in 1..k /\ \A i \in 1..k : InTurn(i)'
    OBVIOUS
  <2>1. \/ stage[idx] < 3 /\ idx' = idx
        \/ stage[idx] = 3 /\ idx < k /\ idx' = idx + 1
    BY <1>0, <1>4
  <2>2. idx' \in 1..k
    BY <1>1, <1>2, <2>1, SMT
  <2>3. ASSUME NEW i \in 1..k PROVE InTurn(i)'
    <3>1. InTurn(i) /\ i \in Sys /\ i \in Int /\ idx \in Int
      BY <1>1, <1>2, SMT
    <3> QED BY <1>2, <1>3, <2>1, <3>1, SMT DEF InTurn
  <2> QED BY <2>2, <2>3
<1>8. pc' # pc => \A i \in 1..k : stage'[i] = 4
  <2> SUFFICES ASSUME pc' # pc, NEW i \in 1..k PROVE stage'[i] = 4
    OBVIOUS
  <2>1. stage[idx] = 3 /\ idx = k
    BY <1>4
  <2>2. InTurn(i) /\ i \in Sys
    BY <1>1, <1>2
  <2>3. CASE i = idx
    BY <1>3, <2>1, <2>3, SMT
  <2>4. CASE i < idx
    BY <1>3, <2>2, <2>4, <1>1, SMT DEF InTurn
  <2> QED BY <2>1, <2>3, <2>4, <1>2, SMT
<1>9. Place'
  <2>1. idx' \in 1..k => idx' \in Sys
    BY <1>2
  <2> QED BY <1>0, <1>3, <1>4, <1>7, <2>1 DEF Place, Local, Parent
<1>10. ComingUp'
  BY <1>0, <1>4 DEF ComingUp, Up
<1>11. Undoing'
  <2>1. pc = "undo" => \A i \in Sys : /\ gor'[i] = "none" /\ srv'[i] # "serving"
                                      /\ stage'[i] < 3 => lis'[i] = "open"
    <3> SUFFICES ASSUME pc = "undo", NEW i \in Sys
                 PROVE  /\ gor'[i] = "none" /\ srv'[i] # "serving"
                        /\ stage'[i] < 3 => lis'[i] = "open"
      OBVIOUS
    <3>1. gor[i] = "none" /\ srv[i] # "serving" /\ (stage[i] < 3 => lis[i] = "open")
      BY Parts DEF Undoing
    <3>2. CASE i = idx
      BY <1>2, <1>3, <3>1, <3>2, SMT
    <3>3. CASE i # idx
      BY <1>3, <3>1, <3>3
    <3> QED BY <3>2, <3>3
  <2>2. pc' = "undo" =>
           \E h \in Sys : idx' <= h /\ Built' = 1..h /\ \A i \in 1..h : InTurn(i)'
    <3> SUFFICES ASSUME pc' = "undo"
                 PROVE  idx' <= k /\ Built' = 1..k /\ \A i \in 1..k : InTurn(i)'
      BY <1>1
    <3>1. pc' = pc
      BY <1>0, <1>4
    <3> QED BY <1>1, <1>6, <1>7, <3>1, SMT
  <2>3. pc' = "failed" => \A i \in Built' : stage'[i] = 4
    BY <1>0, <1>1, <1>6, <1>8
  <2>4. pc' = "stop" => \A i \in Sys : srv'[i] # "none" /\ InTurn(i)'
    <3> SUFFICES ASSUME pc' = "stop" PROVE \A i \in Sys : srv'[i] # "none" /\ InTurn(i)'
      OBVIOUS
    <3>1. pc = "stop" /\ pc' = pc
      BY <1>0, <1>4
    <3>2. Built = Sys
      BY <3>1, Parts DEF Undoing, Built
    <3> QED BY <1>1, <1>6, <1>7, <3>1, <3>2 DEF Built
  <2> QED BY <1>0, <1>4, <2>1, <2>2, <2>3, <2>4 DEF Undoing
<1>12. NoProcesses' /\ Cluster' /\ NoOrphans' /\ Causes'
  BY <1>0, <1>4, <1>5, LocalFrame, Parts DEF Causes
<1> QED BY <1>3, <1>5, <1>9, <1>10, <1>11, <1>12, Whole

-----------------------------------------------------------------------------
(* The parent of a cluster and its processes *)

\* While a process runs, main is the parent of a cluster.
LEMMA ParentRuns ==
    ASSUME LaunchInv, NEW i \in Sys, proc[i] \notin {"absent", "gone"}
    PROVE  flags.cluster /\ pc \in Parent /\ i \in Used
<1>1. flags.cluster
  BY Parts DEF NoProcesses
<1>2. pc # "main" /\ pc \notin Ending
  BY Parts DEF ComingUp, NoOrphans, Ending
<1>3. pc \in Parent
  BY <1>1, <1>2, Parts DEF TypeOK, Place
<1>4. i \in Used
  BY <1>1, Parts DEF Cluster
<1> QED BY <1>1, <1>3, <1>4

\* What a cluster's steps need not be asked for.
LEMMA ClusterFrame ==
    ASSUME flags.cluster, flags' = flags, pc' \in Parent \cup Ending
    PROVE  NoProcesses' /\ ComingUp' /\ Undoing'
BY DEF NoProcesses, ComingUp, Up, Undoing, Parent, Ending

\* Processes end, and nothing else happens to the systems.
LEMMA GoneFacts ==
    ASSUME LaunchInv, flags.cluster, NEW D \in SUBSET Sys, Release(D),
           \A i \in D : proc[i] \notin {"absent", "gone"},
           \A i \in Sys : IF i \in D THEN proc'[i] = "gone" /\ why'[i] # "none"
                          ELSE proc'[i] = proc[i] /\ why'[i] = why[i]
    PROVE  /\ Stopping' /\ DialsMet'
           /\ \A i \in Sys : Process(i)'
           /\ \A i \in Sys \ Used' : proc'[i] = "absent"
           /\ Cause => Cause'
           /\ UNCHANGED <<size, dial, stage>>
           /\ lis' \in [Sys -> {"none", "open", "closed"}]
           /\ srv' \in [Sys -> {"none", "new", "serving", "stopped"}]
           /\ gor' \in [Sys -> {"none", "started", "serving", "ended"}]
           /\ out' \in [Sys -> {"none", "open", "closed"}]
<1>0. TypeOK
  BY Parts
<1>1. /\ UNCHANGED <<size, dial, stage>>
      /\ lis' \in [Sys -> {"none", "open", "closed"}]
      /\ srv' \in [Sys -> {"none", "new", "serving", "stopped"}]
      /\ gor' \in [Sys -> {"none", "started", "serving", "ended"}]
      /\ out' \in [Sys -> {"none", "open", "closed"}]
  BY <1>0 DEF Release, TypeOK
<1>2. \A i \in Sys : IF i \in D THEN lis'[i] = "closed" /\ srv'[i] = "stopped" /\ out'[i] = "closed"
                     ELSE lis'[i] = lis[i] /\ srv'[i] = srv[i] /\ gor'[i] = gor[i] /\ out'[i] = out[i]
  BY DEF Release
<1>3. Stopping'
  BY <1>1, <1>2, Parts DEF Stopping
<1>4. DialsMet'
  BY <1>1, <1>2, Parts DEF DialsMet
<1>5. ASSUME NEW i \in Sys PROVE Process(i)'
  <2>1. Process(i)
    BY Parts DEF Cluster
  <2>2. CASE i \in D
    BY <2>2 DEF Process
  <2>3. CASE i \notin D
    BY <1>1, <1>2, <2>1, <2>3 DEF Process, Unbuilt, Silent, Working
  <2> QED BY <2>2, <2>3
<1>6. \A i \in Sys \ Used' : proc'[i] = "absent"
  BY <1>1, Parts DEF Cluster, Used
<1>7. Cause => Cause'
  <2>1. Used' = Used /\ Used \subseteq Sys
    BY <1>0, <1>1, MaxSystemsAssumption, SMT DEF Used, TypeOK, Sys
  <2>2. \A j \in Used : why[j] \notin {"none", "timeout"} => why'[j] = why[j]
    <3> SUFFICES ASSUME NEW j \in Used, why[j] # "none" PROVE why'[j] = why[j]
      OBVIOUS
    <3>1. j \in Sys /\ proc[j] = "gone"
      BY <2>1, Parts DEF Cluster, Process
    <3> QED BY <3>1
  <2> QED BY <1>1, <2>1, <2>2 DEF Cause
<1> QED BY <1>1, <1>3, <1>4, <1>5, <1>6, <1>7

\* A signal ends the processes that are not prepared for one.
LEMMA SignalFacts ==
    ASSUME LaunchInv, flags.cluster, NEW S \in SUBSET Sys, Signal(S)
    PROVE  /\ Stopping' /\ DialsMet'
           /\ \A i \in Sys : Process(i)'
           /\ \A i \in Sys \ Used' : proc'[i] = "absent"
           /\ Cause => Cause'
           /\ UNCHANGED <<size, dial, stage>>
           /\ lis' \in [Sys -> {"none", "open", "closed"}]
           /\ srv' \in [Sys -> {"none", "new", "serving", "stopped"}]
           /\ gor' \in [Sys -> {"none", "started", "serving", "ended"}]
           /\ out' \in [Sys -> {"none", "open", "closed"}]
           /\ proc' \in [Sys -> Unprepared \cup Prepared \cup {"absent", "gone"}]
           /\ why' \in [Sys -> {"none", "killed", "fatal", "timeout", "stopped"}]
           /\ \A i \in Sys : /\ proc[i] \in {"absent", "gone"} => proc'[i] = proc[i]
                             /\ why'[i] = "timeout" => why[i] = "timeout"
<1> DEFINE D == {i \in S : proc[i] \in Unprepared}
<1>0. TypeOK
  BY Parts
<1>1. /\ proc' = [i \in Sys |-> IF i \in D THEN "gone" ELSE proc[i]]
      /\ why' = [i \in Sys |-> IF i \in D THEN "killed" ELSE why[i]]
      /\ Release(D)
  BY DEF Signal
<1>2. D \in SUBSET Sys /\ \A i \in D : proc[i] \notin {"absent", "gone"}
  BY DEF Unprepared
<1> HIDE DEF D
<1>3. /\ proc' \in [Sys -> Unprepared \cup Prepared \cup {"absent", "gone"}]
      /\ why' \in [Sys -> {"none", "killed", "fatal", "timeout", "stopped"}]
  BY <1>0, <1>1 DEF TypeOK
<1>4. \A i \in Sys : IF i \in D THEN proc'[i] = "gone" /\ why'[i] = "killed"
                     ELSE proc'[i] = proc[i] /\ why'[i] = why[i]
  BY <1>1
<1>5. \A i \in Sys : IF i \in D THEN proc'[i] = "gone" /\ why'[i] # "none"
                     ELSE proc'[i] = proc[i] /\ why'[i] = why[i]
  BY <1>4
<1>6. \A i \in Sys : /\ proc[i] \in {"absent", "gone"} => proc'[i] = proc[i]
                     /\ why'[i] = "timeout" => why[i] = "timeout"
  BY <1>2, <1>4
<1> QED BY <1>1, <1>2, <1>3, <1>5, <1>6, GoneFacts

\* The parent starts one process more, or gives up.
LEMMA SpawnStep ==
    ASSUME LaunchInv, Spawn
    PROVE  LaunchInv'
<1> USE DEF Goto, sysVars
<1>0. /\ TypeOK /\ pc = "spawn" /\ flags.cluster /\ size >= 1 /\ idx \in Used
      /\ UNCHANGED <<flags, sig, why, sysVars>>
      /\ \A i \in Sys : Process(i)
      /\ \A i \in Sys \ Used : proc[i] = "absent"
      /\ \A i \in Sys : i >= idx => proc[i] = "absent"
  BY Parts DEF Spawn, Place, Parent, Cluster
<1>1. idx \in Sys /\ Used' = Used /\ size \in Nat
  BY <1>0, MaxSystemsAssumption, SMT DEF Used, Sys, TypeOK
<1>2. Stopping' /\ DialsMet'
  BY <1>0, Parts DEF Stopping, DialsMet
<1>3. CASE /\ proc' = [proc EXCEPT ![idx] = "start"] /\ Loop(size, "notify")
           /\ UNCHANGED <<ok, faults>>
  <2>1. \A i \in Sys : proc'[i] = IF i = idx THEN "start" ELSE proc[i]
    BY <1>0, <1>3 DEF TypeOK
  <2>2. \/ idx = size /\ pc' = "notify" /\ idx' = 1
        \/ idx < size /\ pc' = "spawn" /\ idx' = idx + 1
    BY <1>0, <1>1, <1>3, SMT DEF Loop, Used
  <2>3. TypeOK'
    BY <1>0, <1>1, <1>3, <2>2, SMT DEF TypeOK, Parent, Unprepared, Used
  <2>4. Place'
    BY <1>0, <1>1, <2>2, SMT DEF Place, Local, Parent, Used
  <2>5. ASSUME NEW i \in Sys PROVE Process(i)'
    <3>1. Process(i) /\ proc'[i] = (IF i = idx THEN "start" ELSE proc[i]) /\ idx \in Int
      BY <1>0, <1>1, <2>1, SMT DEF Sys
    <3>2. CASE i = idx
      <4>1. proc[i] = "absent" /\ proc'[i] = "start"
        BY <1>0, <3>1, <3>2, SMT
      <4> QED BY <1>0, <3>1, <4>1 DEF Process, Unbuilt
    <3>3. CASE i # idx
      BY <1>0, <3>1, <3>3 DEF Process, Unbuilt, Silent, Working
    <3> QED BY <3>2, <3>3
  <2>6. Cluster'
    <3>1. pc' = "spawn" => \A i \in Sys : i >= idx' => proc'[i] = "absent"
      BY <1>0, <1>1, <2>1, <2>2, SMT DEF Sys, Used
    <3> QED BY <1>0, <1>1, <2>1, <2>2, <2>5, <3>1 DEF Cluster
  <2>7. NoProcesses' /\ ComingUp' /\ Undoing'
    BY <1>0, <2>2, ClusterFrame DEF Parent
  <2>8. Causes' /\ NoOrphans'
    BY <1>0, <1>1, <1>3, <2>2, Parts, SMT DEF Causes, Cause, NoOrphans
  <2> QED BY <1>2, <2>3, <2>4, <2>6, <2>7, <2>8, Whole
<1>4. CASE Fault /\ ok' = FALSE /\ Goto("signal") /\ UNCHANGED proc
  <2>1. faults' \in Nat \ {0}
    BY <1>0, <1>4, SMT DEF Fault, TypeOK
  <2>2. ok' \in BOOLEAN
    BY <1>4
  <2>3. TypeOK'
    BY <1>0, <1>4, <2>1, <2>2, SMT DEF TypeOK, Parent
  <2>4. Place'
    BY <1>0, <1>1, <1>4, SMT DEF Place, Local, Parent, Used
  <2>5. Cluster'
    BY <1>0, <1>1, <1>4 DEF Cluster, Process, Unbuilt, Silent, Working
  <2>6. NoProcesses' /\ ComingUp' /\ Undoing'
    BY <1>0, <1>4, ClusterFrame DEF Parent
  <2>7. Causes' /\ NoOrphans'
    BY <1>4, <2>1 DEF Causes, NoOrphans
  <2> QED BY <1>2, <2>3, <2>4, <2>5, <2>6, <2>7, Whole
<1> QED BY <1>3, <1>4 DEF Spawn

\* The parent goes on, and the processes and systems stay as they are.
LEMMA ParentStep ==
    ASSUME LaunchInv, flags.cluster, UNCHANGED <<flags, ok, faults, procVars, sysVars>>,
           pc \in Parent, idx' \in Nat \ {0},
           \/ pc' \in Parent \ {"spawn", "reap"} /\ (pc' = "signal" => idx' = 1)
           \/ /\ pc' \in {"reap"} \cup Ending /\ (pc' = "reap" => idx' \in Used)
              /\ \A i \in Sys : (pc' = "reap" => i < idx') => proc[i] \in {"absent", "gone"}
    PROVE  LaunchInv'
<1> USE DEF procVars, sysVars
<1>0. TypeOK /\ size >= 1 /\ size \in Nat /\ Used' = Used /\ 1 \in Used
  BY Parts, SMT DEF Place, TypeOK, Used
<1>1. TypeOK'
  BY <1>0 DEF TypeOK, Parent, Ending
<1>2. Place' /\ Stopping' /\ DialsMet'
  BY <1>0, Parts DEF Place, Stopping, DialsMet, Local, Parent, Ending
<1>3. Cluster' /\ NoOrphans'
  BY <1>0, Parts, SMT DEF Cluster, Process, Unbuilt, Silent, Working, NoOrphans, Parent, Ending
<1>4. NoProcesses' /\ ComingUp' /\ Undoing'
  BY ClusterFrame DEF Parent, Ending
<1>5. Causes'
  BY <1>0, Parts, SMT DEF Causes, Cause
<1> QED BY <1>1, <1>2, <1>3, <1>4, <1>5, Whole

\* The parent is prepared for a signal.
LEMMA NotifyStep ==
    ASSUME LaunchInv, ParentNotify
    PROVE  LaunchInv'
<1>1. flags.cluster /\ pc \in Parent
  BY Parts DEF ParentNotify, Place, Parent
<1>2. pc' = "run" /\ idx' = 1 /\ UNCHANGED <<flags, ok, faults, procVars, sysVars>>
  BY DEF ParentNotify, Goto
<1> QED BY <1>1, <1>2, ParentStep, SMT DEF Parent

\* The parent goes on when the process it waits for has ended.
LEMMA ReapStep ==
    ASSUME LaunchInv, stopAllWait
    PROVE  LaunchInv'
<1>1. /\ flags.cluster /\ pc = "reap" /\ idx \in Used /\ Ended
      /\ \A i \in Sys : i < idx => proc[i] \in {"absent", "gone"}
      /\ \A i \in Sys \ Used : proc[i] = "absent"
  BY Parts DEF stopAllWait, Place, Parent, Cluster
<1>2. size \in Nat /\ Used \subseteq Sys
  BY MaxSystemsAssumption, Parts, SMT DEF TypeOK, Used, Sys
<1>3. \A i \in Sys : i <= idx => proc[i] \in {"absent", "gone"}
  BY <1>1, <1>2, SMT DEF Ended, Sys, Used
<1>4. UNCHANGED <<flags, ok, faults, procVars, sysVars>>
  BY DEF stopAllWait
<1>5. CASE idx = size
  <2>1. pc' \in Ending /\ idx' = 1
    BY <1>5 DEF stopAllWait, Loop, Goto, Ending
  <2>2. \A i \in Sys : proc[i] \in {"absent", "gone"}
    BY <1>1, <1>2, <1>3, <1>5, SMT DEF Sys, Used
  <2> QED BY <1>1, <1>4, <2>1, <2>2, ParentStep, SMT DEF Parent, Ending
<1>6. CASE idx # size
  <2>1. pc' = "reap" /\ idx' = idx + 1 /\ idx' \in Used /\ idx' \in Nat \ {0}
    BY <1>1, <1>2, <1>6, SMT DEF stopAllWait, Loop, Used
  <2>2. \A i \in Sys : i < idx' => proc[i] \in {"absent", "gone"}
    BY <1>1, <1>3, <2>1, SMT DEF Sys, Used
  <2> QED BY <1>1, <1>4, <2>1, <2>2, ParentStep DEF Parent
<1> QED BY <1>5, <1>6

\* A signal, and what the parent does next.
LEMMA SignalStep ==
    ASSUME LaunchInv, flags.cluster, NEW S \in SUBSET Sys, Signal(S),
           UNCHANGED <<flags, ok, faults>>, pc \in Parent,
           pc' \in {"signal", "reap", "killed"}, idx' \in Used,
           pc' = "reap" => idx' = 1 \/ UNCHANGED <<pc, idx>>
    PROVE  LaunchInv'
<1>0. TypeOK /\ size >= 1 /\ size \in Nat
  BY Parts, SMT DEF Place, TypeOK
<1>1. /\ Stopping' /\ DialsMet'
      /\ \A i \in Sys : Process(i)'
      /\ \A i \in Sys \ Used' : proc'[i] = "absent"
      /\ Cause => Cause'
      /\ UNCHANGED <<size, dial, stage>>
      /\ lis' \in [Sys -> {"none", "open", "closed"}]
      /\ srv' \in [Sys -> {"none", "new", "serving", "stopped"}]
      /\ gor' \in [Sys -> {"none", "started", "serving", "ended"}]
      /\ out' \in [Sys -> {"none", "open", "closed"}]
      /\ proc' \in [Sys -> Unprepared \cup Prepared \cup {"absent", "gone"}]
      /\ why' \in [Sys -> {"none", "killed", "fatal", "timeout", "stopped"}]
      /\ \A i \in Sys : why'[i] = "timeout" => why[i] = "timeout"
  BY SignalFacts
<1>2. Used' = Used /\ Used \subseteq Sys /\ idx' \in Nat \ {0}
  BY <1>0, <1>1, MaxSystemsAssumption, SMT DEF Used, Sys, TypeOK
<1>3. TypeOK'
  BY <1>0, <1>1, <1>2 DEF TypeOK, Parent
<1>4. Place'
  BY <1>0, <1>1, <1>2 DEF Place, Local, Parent
<1>5. NoProcesses' /\ ComingUp' /\ Undoing'
  BY ClusterFrame DEF Parent
<1>6. Cluster'
  <2>1. idx' = 1 => \A i \in Sys : ~(i < idx')
    BY SMT DEF Sys
  <2>2. \A i \in Sys : proc[i] \in {"absent", "gone"} => proc'[i] \in {"absent", "gone"}
    BY DEF Signal
  <2>3. pc' = "reap" => \A i \in Sys : i < idx' => proc'[i] \in {"absent", "gone"}
    BY <2>1, <2>2, Parts DEF Cluster
  <2> QED BY <1>1, <2>3 DEF Cluster
<1>7. Causes' /\ NoOrphans'
  BY <1>1, <1>2, Parts DEF Causes, NoOrphans
<1> QED BY <1>1, <1>3, <1>4, <1>5, <1>6, <1>7, Whole

\* An interrupt of the parent, or of all processes.
LEMMA InterruptStep ==
    ASSUME LaunchInv, Interrupt
    PROVE  LaunchInv'
<1>1. flags.cluster /\ pc \in Parent /\ 1 \in Used
  BY Parts, SMT DEF Interrupt, Place, Parent, Used, TypeOK
<1>2. /\ UNCHANGED <<flags, ok, faults>>
      /\ \/ pc' \in {"signal", "killed"} /\ idx' = 1
         \/ pc \in {"signal", "reap"} /\ UNCHANGED <<pc, idx>>
  BY DEF Interrupt, Goto
<1>3. CASE Signal(Sys)
  <2>1. pc \in {"signal", "reap"} => idx \in Used
    BY Parts DEF Place
  <2> QED BY <1>1, <1>2, <1>3, <2>1, SignalStep
<1>4. CASE UNCHANGED <<procVars, sysVars>>
  <2>1. CASE pc' \in {"signal", "killed"} /\ idx' = 1
    BY <1>1, <1>2, <1>4, <2>1, ParentStep, SMT DEF Parent
  <2>2. CASE UNCHANGED <<pc, idx>>
    BY <1>2, <1>4, <2>2, ElsewhereStep DEF mainVars
  <2> QED BY <1>2, <2>1, <2>2
<1> QED BY <1>3, <1>4 DEF Interrupt

\* The parent signals one process after the other.
LEMMA StopAllStep ==
    ASSUME LaunchInv, stopAllSignal
    PROVE  LaunchInv'
<1>1. flags.cluster /\ pc = "signal" /\ idx \in Used /\ size \in Nat /\ idx \in Sys
  BY MaxSystemsAssumption, Parts, SMT DEF stopAllSignal, Place, Parent, TypeOK, Used, Sys
<1>2. \/ pc' = "reap" /\ idx' = 1
      \/ pc' = "signal" /\ idx' = idx + 1 /\ idx # size
  BY <1>1 DEF stopAllSignal, Loop, Goto
<1>3. idx' \in Used
  BY <1>1, <1>2, SMT DEF Used
<1>4. Signal({idx}) /\ UNCHANGED <<flags, ok, faults>>
  BY DEF stopAllSignal
<1>5. {idx} \in SUBSET Sys /\ pc \in Parent
  BY <1>1 DEF Parent
<1> QED BY <1>1, <1>2, <1>3, <1>4, <1>5, SignalStep

-----------------------------------------------------------------------------
(* A server process *)

\* The process of one system goes on, and so may its system.
LEMMA ProcessFrame ==
    ASSUME LaunchInv, NEW i \in Sys, flags.cluster, pc \in Parent,
           proc[i] \notin {"absent", "gone"},
           UNCHANGED <<flags, pc, idx, ok, size>>, TypeOK', Process(i)', proc'[i] # "absent",
           \A a \in Sys : a # i => /\ proc'[a] = proc[a] /\ why'[a] = why[a]
                                   /\ lis'[a] = lis[a] /\ srv'[a] = srv[a] /\ gor'[a] = gor[a]
                                   /\ out'[a] = out[a] /\ stage'[a] = stage[a]
    PROVE  Place' /\ NoProcesses' /\ ComingUp' /\ Undoing' /\ Cluster' /\ NoOrphans'
<1>1. Used' = Used /\ i \in Used
  BY ParentRuns DEF Used
<1>2. Place'
  BY <1>1, Parts DEF Place
<1>3. NoProcesses' /\ ComingUp' /\ Undoing'
  BY ClusterFrame
<1>4. NoOrphans'
  BY DEF Parent, NoOrphans
<1>5. \A a \in Sys : Process(a)'
  <2> SUFFICES ASSUME NEW a \in Sys, a # i PROVE Process(a)'
    OBVIOUS
  <2>1. Process(a)
    BY Parts DEF Cluster
  <2> QED BY <2>1 DEF Process, Unbuilt, Silent, Working
<1>6. /\ \A a \in Sys \ Used' : proc'[a] = "absent"
      /\ pc' = "spawn" => \A a \in Sys : a >= idx' => proc'[a] = "absent"
      /\ pc' = "reap" => \A a \in Sys : a < idx' => proc'[a] \in {"absent", "gone"}
  BY <1>1, Parts DEF Cluster
<1>7. Cluster'
  BY <1>5, <1>6 DEF Cluster
<1> QED BY <1>2, <1>3, <1>4, <1>7

\* A cause stays one.
LEMMA CauseStays ==
    ASSUME LaunchInv, NEW i \in Sys, flags.cluster, proc[i] # "gone",
           UNCHANGED <<size, dial>>, Cause,
           \A a \in Sys : a # i => why'[a] = why[a] /\ stage'[a] = stage[a],
           stage'[i] \in Nat, stage'[i] >= stage[i]
    PROVE  Cause'
<1>1. Used' = Used /\ Used \subseteq Sys
  BY MaxSystemsAssumption, Parts, SMT DEF TypeOK, Used, Sys
<1>2. PICK a, b \in Used : \/ dial[b][a] = "failed"
                           \/ stage[b] > 0 \/ why[b] \notin {"none", "timeout"}
  BY DEF Cause
<1>3. why[b] \notin {"none", "timeout"} => b # i
  BY <1>1, Parts DEF Cluster, Process
<1>4. stage[b] \in Int /\ stage[i] \in Int
  BY <1>1, Parts, SMT DEF TypeOK
<1>5. stage[b] > 0 => stage'[b] > 0
  BY <1>1, <1>4, SMT
<1>6. dial'[b][a] = "failed" \/ stage'[b] > 0 \/ why'[b] \notin {"none", "timeout"}
  BY <1>1, <1>2, <1>3, <1>5
<1> QED BY <1>1, <1>6 DEF Cause

\* Process i ends; without a fault of the system, a timeout has a cause.
LEMMA EndStep ==
    ASSUME LaunchInv, NEW i \in Sys, NEW reason \in {"fatal", "timeout", "stopped"},
           proc[i] \notin {"absent", "gone"}, End(i, reason), ProcFrame,
           faults' = faults \/ faults' = faults + 1,
           reason = "timeout" /\ faults' = 0 => Cause
    PROVE  LaunchInv'
<1> USE DEF ProcFrame
<1>0. flags.cluster /\ pc \in Parent /\ TypeOK
  BY ParentRuns, Parts
<1>1. /\ proc' \in [Sys -> Unprepared \cup Prepared \cup {"absent", "gone"}]
      /\ why' \in [Sys -> {"none", "killed", "fatal", "timeout", "stopped"}]
      /\ Release({i})
      /\ \A a \in Sys : IF a = i THEN proc'[a] = "gone" /\ why'[a] = reason
                        ELSE proc'[a] = proc[a] /\ why'[a] = why[a]
  BY <1>0, SMT DEF End, TypeOK
<1>2. \A a \in Sys : IF a \in {i} THEN proc'[a] = "gone" /\ why'[a] # "none"
                     ELSE proc'[a] = proc[a] /\ why'[a] = why[a]
  BY <1>1
<1>3. {i} \in SUBSET Sys /\ \A a \in {i} : proc[a] \notin {"absent", "gone"}
  OBVIOUS
<1>4. /\ Stopping' /\ DialsMet'
      /\ \A a \in Sys : Process(a)'
      /\ \A a \in Sys \ Used' : proc'[a] = "absent"
      /\ Cause => Cause'
      /\ UNCHANGED <<size, dial, stage>>
      /\ lis' \in [Sys -> {"none", "open", "closed"}]
      /\ srv' \in [Sys -> {"none", "new", "serving", "stopped"}]
      /\ gor' \in [Sys -> {"none", "started", "serving", "ended"}]
      /\ out' \in [Sys -> {"none", "open", "closed"}]
  BY <1>0, <1>1, <1>2, <1>3, GoneFacts
<1>5. TypeOK'
  <2>1. faults' \in Nat
    BY <1>0, SMT DEF TypeOK
  <2> QED BY <1>0, <1>1, <1>4, <2>1 DEF TypeOK
<1>6. \A a \in Sys : a # i => /\ proc'[a] = proc[a] /\ why'[a] = why[a]
                              /\ lis'[a] = lis[a] /\ srv'[a] = srv[a] /\ gor'[a] = gor[a]
                              /\ out'[a] = out[a] /\ stage'[a] = stage[a]
  BY <1>1, <1>4 DEF Release
<1>7. Place' /\ NoProcesses' /\ ComingUp' /\ Undoing' /\ Cluster' /\ NoOrphans'
  BY <1>0, <1>1, <1>4, <1>5, <1>6, ProcessFrame
<1>8. Causes'
  <2> SUFFICES ASSUME faults' = 0, NEW a \in Used, why'[a] = "timeout" PROVE Cause'
    BY <1>0, <1>4 DEF Causes, Used
  <2>1. faults = 0 /\ a \in Sys
    BY <1>0, MaxSystemsAssumption, SMT DEF TypeOK, Used, Sys
  <2>2. Cause
    BY <1>1, <2>1, Parts DEF Causes
  <2> QED BY <1>4, <2>2
<1> QED BY <1>4, <1>5, <1>7, <1>8, Whole

\* Process i goes on without a change that a timeout could have as its cause.
LEMMA RunStep ==
    ASSUME LaunchInv, NEW i \in Sys, proc[i] \notin {"absent", "gone"}, proc'[i] # "absent",
           ProcFrame, UNCHANGED <<why, faults, size, dial>>, TypeOK',
           Stopping', DialsMet', Process(i)', stage'[i] >= stage[i],
           \A a \in Sys : a # i => /\ proc'[a] = proc[a]
                                   /\ lis'[a] = lis[a] /\ srv'[a] = srv[a] /\ gor'[a] = gor[a]
                                   /\ out'[a] = out[a] /\ stage'[a] = stage[a]
    PROVE  LaunchInv'
<1>0. flags.cluster /\ pc \in Parent
  BY ParentRuns
<1>1. Place' /\ NoProcesses' /\ ComingUp' /\ Undoing' /\ Cluster' /\ NoOrphans'
  BY <1>0, ProcessFrame DEF ProcFrame
<1>2. stage'[i] \in Nat
  BY SMT DEF TypeOK
<1>3. Cause => Cause'
  BY <1>0, <1>2, CauseStays
<1>4. Causes'
  BY <1>0, <1>3, Parts DEF Causes, ProcFrame, Used
<1> QED BY <1>1, <1>4, Whole

\* A process builds its system or ends.
LEMMA ServerStartStep ==
    ASSUME LaunchInv, NEW i \in Sys, ServerStart(i)
    PROVE  LaunchInv'
<1>0. proc[i] = "start" /\ ProcFrame /\ TypeOK /\ flags.cluster
  BY ParentRuns, Parts DEF ServerStart
<1>1. CASE /\ proc' = [proc EXCEPT ![i] = "notify"]
           /\ Listen(i) /\ Build(i)
           /\ UNCHANGED <<why, faults, size, gor, dial, stage>>
  <2>1. /\ Process(i) /\ lis[i] = "none" /\ Unbuilt(i)
    BY <1>0, Parts DEF Cluster, Process
  <2>2. \A a \in Sys : IF a = i THEN /\ proc'[a] = "notify" /\ lis'[a] = "open"
                                     /\ srv'[a] = "new" /\ out'[a] = "open"
                       ELSE /\ proc'[a] = proc[a] /\ lis'[a] = lis[a]
                            /\ srv'[a] = srv[a] /\ out'[a] = out[a]
    BY <1>0, <1>1 DEF TypeOK, Listen, Build
  <2>3. TypeOK'
    BY <1>0, <1>1 DEF TypeOK, Listen, Build, ProcFrame, Unprepared
  <2>4. Process(i)'
    BY <1>0, <1>1, <2>1, <2>2 DEF Process, Unbuilt, Silent
  <2>5. Stopping' /\ DialsMet'
    <3>1. ~(0 >= 2) /\ ~(0 >= 3) /\ 0 # 4
      BY SMT
    <3>2. stage' = stage /\ dial' = dial /\ stage[i] = 0
      BY <1>1, <2>1 DEF Unbuilt
    <3>3. Stopping'
      <4>1. Stopping
        BY Parts
      <4>2. ASSUME NEW a \in Sys
            PROVE  /\ stage'[a] >= 2 => srv'[a] = "stopped"
                   /\ stage'[a] >= 3 => lis'[a] = "closed"
                   /\ stage'[a] = 4 => out'[a] = "closed"
        <5>1. CASE a = i
          BY <3>1, <3>2, <5>1
        <5>2. CASE a # i
          BY <2>2, <3>2, <4>1, <5>2 DEF Stopping
        <5> QED BY <5>1, <5>2
      <4> QED BY <4>2 DEF Stopping
    <3>4. DialsMet'
      BY <2>1, <2>2, <3>2, Parts DEF DialsMet
    <3> QED BY <3>3, <3>4
  <2>6. stage'[i] >= stage[i]
    BY <1>1, <2>1, SMT DEF Unbuilt
  <2> QED BY <1>0, <1>1, <2>2, <2>3, <2>4, <2>5, <2>6, RunStep
<1>2. CASE End(i, "fatal") /\ (UNCHANGED faults \/ Fault)
  BY <1>0, <1>2, EndStep DEF Fault
<1> QED BY <1>1, <1>2 DEF ServerStart

\* A process goes on to the next of its steps.
LEMMA ServerOnStep ==
    ASSUME LaunchInv, NEW i \in Sys,
           ServerNotify(i) \/ ServerServe(i) \/ ServerSignalled(i)
    PROVE  LaunchInv'
<1>0. TypeOK /\ ProcFrame /\ UNCHANGED <<why, faults, size, lis, srv, out, dial, stage>>
  BY Parts DEF ServerNotify, ServerServe, ServerSignalled, sysVars
<1>1. \/ proc[i] = "notify" /\ proc' = [proc EXCEPT ![i] = "register"] /\ UNCHANGED gor
      \/ proc[i] = "register" /\ proc' = [proc EXCEPT ![i] = "wait"] /\ GoServe(i)
      \/ proc[i] = "ready" /\ proc' = [proc EXCEPT ![i] = "stop"] /\ UNCHANGED gor
  BY DEF ServerNotify, ServerServe, ServerSignalled, Step, sysVars
<1>2. TypeOK'
  BY <1>0, <1>1 DEF TypeOK, ProcFrame, Prepared, GoServe
<1>3. \A a \in Sys : a # i => proc'[a] = proc[a] /\ gor'[a] = gor[a]
  BY <1>0, <1>1 DEF TypeOK, GoServe
<1>4. flags.cluster /\ Process(i)
  BY <1>1, ParentRuns, Parts DEF Cluster
<1>5. \/ proc[i] = "notify" /\ proc'[i] = "register" /\ gor'[i] = gor[i]
      \/ proc[i] = "register" /\ proc'[i] = "wait" /\ gor'[i] = "started"
      \/ proc[i] = "ready" /\ proc'[i] = "stop" /\ gor'[i] = gor[i]
  BY <1>0, <1>1 DEF TypeOK, GoServe
<1>6. Process(i)'
  BY <1>0, <1>4, <1>5 DEF Process, Silent, Working
<1>7. Stopping' /\ DialsMet'
  BY <1>0, Parts DEF Stopping, DialsMet
<1>8. stage'[i] >= stage[i]
  BY <1>0, SMT DEF TypeOK
<1> QED BY <1>0, <1>2, <1>3, <1>5, <1>6, <1>7, <1>8, RunStep

\* A server that is not connected when nothing is on its way misses a peer that
\* it or the other could not reach, or that is ending.
LEMMA MissedPeer ==
    ASSUME LaunchInv, NEW i \in Sys, proc[i] = "wait", ~Connected(i),
           Settled, PeersSettled, faults = 0
    PROVE  Cause
<1>0. /\ TypeOK /\ flags.cluster /\ i \in Used /\ Used \subseteq Sys /\ size \in Nat
      /\ \A j \in Sys : Process(j)
  <2>1. TypeOK /\ flags.cluster /\ i \in Used
    BY ParentRuns, Parts
  <2>2. Used \subseteq Sys /\ size \in Nat
    BY <2>1, MaxSystemsAssumption, SMT DEF TypeOK, Used, Sys
  <2> QED BY <2>1, <2>2, Parts DEF Cluster
<1>1. Working(i) /\ srv[i] = "serving" /\ out[i] = "open"
  BY <1>0 DEF Process, Working, Settled
<1>2. PICK j \in Used : j \notin Config(i)
  <2> SUFFICES ASSUME \A j \in Used : j \in Config(i) PROVE FALSE
    OBVIOUS
  <2>1. Config(i) = Used
    BY <1>0 DEF Config
  <2>2. Cardinality(Used) = size
    BY <1>0, FS_Interval, SMT DEF Used
  <2> QED BY <2>1, <2>2 DEF Connected
<1>3. j # i /\ ~(dial[j][i] = "made" /\ out[j] = "open") /\ j \in Sys /\ Process(j)
  BY <1>0, <1>1, <1>2 DEF Config
<1>4. dial[i][j] \in {"made", "failed"}
  BY <1>0, <1>1, <1>3, SMT DEF Settled, TypeOK
<1>5. CASE proc[j] = "absent"
  <2>1. dial[i][j] # "made"
    BY <1>3, <1>5, Parts DEF DialsMet, Process
  <2> QED BY <1>0, <1>4, <2>1 DEF Cause
<1>6. CASE proc[j] \in {"wait", "ready"} \/ (proc[j] = "stop" /\ stage[j] = 0)
  <2>1. out[j] = "open"
    BY <1>3, <1>6 DEF Process, Working
  <2>2. dial[j][i] \in {"made", "failed"}
    BY <1>0, <1>3, <2>1, SMT DEF Settled, TypeOK
  <2> QED BY <1>0, <1>3, <2>1, <2>2 DEF Cause
<1>7. CASE proc[j] = "stop" /\ stage[j] # 0
  <2>1. stage[j] > 0
    BY <1>0, <1>3, <1>7, SMT DEF TypeOK
  <2> QED BY <1>0, <2>1 DEF Cause
<1>8. CASE proc[j] = "gone"
  <2>1. why[j] # "none"
    BY <1>3, <1>8 DEF Process
  <2>2. CASE why[j] = "timeout"
    BY <1>2, <2>2, Parts DEF Causes
  <2>3. CASE why[j] # "timeout"
    BY <1>0, <2>1, <2>3 DEF Cause
  <2> QED BY <2>2, <2>3
<1>9. proc[j] \notin {"start", "notify", "register"}
  BY DEF PeersSettled
<1>10. proc[j] \in Unprepared \cup Prepared \cup {"absent", "gone"}
  BY <1>0, <1>3 DEF TypeOK
<1> QED BY <1>5, <1>6, <1>7, <1>8, <1>9, <1>10 DEF Unprepared, Prepared

\* A process finds its peers, or ends with a timeout that has a cause.
LEMMA ServerWaitStep ==
    ASSUME LaunchInv, NEW i \in Sys, ServerWait(i)
    PROVE  LaunchInv'
<1>0. TypeOK /\ ProcFrame
  BY Parts DEF ServerWait
<1>1. CASE Step(i, "wait", "ready") /\ UNCHANGED <<why, faults, sysVars>>
  <2>1. proc[i] = "wait" /\ \A a \in Sys : proc'[a] = IF a = i THEN "ready" ELSE proc[a]
    BY <1>0, <1>1 DEF Step, TypeOK
  <2>2. UNCHANGED <<size, lis, srv, gor, out, dial, stage>>
    BY <1>1 DEF sysVars
  <2>3. TypeOK'
    BY <1>0, <1>1, <2>2 DEF Step, TypeOK, ProcFrame, Prepared
  <2>4. Process(i)
    BY <2>1, ParentRuns, Parts DEF Cluster
  <2>5. Process(i)'
    BY <1>1, <2>1, <2>2, <2>4 DEF Process, Working
  <2>6. Stopping' /\ DialsMet'
    BY <2>2, Parts DEF Stopping, DialsMet
  <2>7. stage'[i] >= stage[i]
    BY <1>0, <2>2, SMT DEF TypeOK
  <2> QED BY <1>0, <1>1, <2>1, <2>2, <2>3, <2>5, <2>6, <2>7, RunStep
<1>2. CASE /\ proc[i] = "wait" /\ ~Connected(i) /\ End(i, "timeout")
           /\ IF Settled /\ PeersSettled /\ pc # "spawn" THEN UNCHANGED faults ELSE Fault
  <2>1. faults' = faults \/ faults' = faults + 1
    BY <1>2 DEF Fault
  <2>2. faults' = 0 => faults = 0 /\ Settled /\ PeersSettled
    BY <1>0, <1>2, SMT DEF Fault, TypeOK
  <2>3. faults' = 0 => Cause
    BY <1>2, <2>2, MissedPeer
  <2> QED BY <1>0, <1>2, <2>1, <2>3, EndStep
<1> QED BY <1>1, <1>2 DEF ServerWait

\* A process stops its system and ends.
LEMMA ServerStopStep ==
    ASSUME LaunchInv, NEW i \in Sys, ServerStop(i)
    PROVE  LaunchInv'
<1>0. TypeOK /\ Stopping /\ DialsMet /\ ProcFrame /\ proc[i] = "stop" /\ UNCHANGED faults
  BY Parts DEF ServerStop
<1>1. CASE StopStep(i) /\ UNCHANGED <<proc, why>>
  <2>1. /\ Stopping' /\ DialsMet'
        /\ stage[i] \in 0..3 /\ stage'[i] = stage[i] + 1
        /\ \A a \in Sys : a # i => /\ stage'[a] = stage[a] /\ lis'[a] = lis[a]
                                   /\ srv'[a] = srv[a] /\ out'[a] = out[a]
        /\ lis' \in [Sys -> {"none", "open", "closed"}]
        /\ srv' \in [Sys -> {"none", "new", "serving", "stopped"}]
        /\ out' \in [Sys -> {"none", "open", "closed"}]
        /\ stage' \in [Sys -> 0..4]
        /\ UNCHANGED <<size, gor, dial>>
    BY <1>0, <1>1, StopFacts
  <2>2. TypeOK'
    BY <1>0, <1>1, <2>1 DEF TypeOK, ProcFrame
  <2>3. Process(i)
    BY <1>0, ParentRuns, Parts DEF Cluster
  <2>4. Process(i)'
    <3>1. stage'[i] # 0
      BY <2>1, SMT
    <3>2. proc'[i] = "stop" /\ why'[i] = why[i]
      BY <1>0, <1>1
    <3> QED BY <1>0, <2>3, <3>1, <3>2 DEF Process
  <2>5. stage'[i] >= stage[i]
    BY <2>1, SMT
  <2> QED BY <1>0, <1>1, <2>1, <2>2, <2>4, <2>5, RunStep
<1>2. CASE End(i, "stopped")
  BY <1>0, <1>2, EndStep
<1> QED BY <1>1, <1>2 DEF ServerStop

-----------------------------------------------------------------------------
(* The invariant holds *)

\* Every step keeps the invariant.
LEMMA InvNext == LaunchInv /\ [Next]_launchVars => LaunchInv'
<1> SUFFICES ASSUME LaunchInv, [Next]_launchVars PROVE LaunchInv'
  OBVIOUS
<1>1. CASE Main
  BY <1>1, MainStep, AllocateStep, BuildStep, OnlyMain, RegisterStep, WaitStep,
     StopSystemsStep, SpawnStep, NotifyStep, StopAllStep, ReapStep DEF Main
<1>2. CASE ReplRuns
  BY <1>2, ElsewhereStep, OnlyMain DEF ReplRuns, InRepl
<1>3. ASSUME NEW i \in Sys, Server(i) PROVE LaunchInv'
  BY <1>3, ServerStartStep, ServerOnStep, ServerWaitStep, ServerStopStep DEF Server
<1>4. ASSUME NEW i \in Sys, SystemRuns(i) PROVE LaunchInv'
  BY <1>4, ServeBeginStep, ServeEndStep, DialStep DEF SystemRuns
<1>5. CASE UNCHANGED launchVars
  BY <1>5, ElsewhereStep DEF launchVars
<1> QED BY <1>1, <1>2, <1>3, <1>4, <1>5, InterruptStep DEF Next

\* The invariant always holds.
LEMMA Invariance == Spec => []LaunchInv
BY InvInit, InvNext, PTL DEF Spec

(* A system that Stop has returned for is released, wherever its goroutine is,
   and so is every system that a failed NewLocalSystems had built.           *)
THEOREM StoppedReleased == Spec => []StoppedIsReleased
<1>1. LaunchInv => StoppedIsReleased
  <2> SUFFICES ASSUME LaunchInv PROVE StoppedIsReleased
    OBVIOUS
  <2>1. \A i \in Sys : stage[i] = 4 => Released(i)
    BY Parts, SMT DEF Stopping, Released
  <2>2. ASSUME pc = "failed", NEW i \in Built PROVE Released(i)
    BY <2>1, <2>2, Parts DEF Undoing, Built
  <2> QED BY <2>1, <2>2 DEF StoppedIsReleased
<1> QED BY <1>1, Invariance, PTL

(* The prompt appears when every server has every other in its configuration;
   without faults a local cluster comes up, and a server process misses a peer
   only if a dial came too early or a process is ending.                     *)
THEOREM WaitsHaveCause == Spec => []WaitEndsForCause
<1>1. LaunchInv => WaitEndsForCause
  BY Parts DEF ComingUp, Causes, Cause, WaitEndsForCause
<1> QED BY <1>1, Invariance, PTL

(* When runCluster returns, no process it started is left, for any number of
   processes and wherever each of them was when it was signalled.            *)
THEOREM NoneOrphaned == Spec => []NoOrphans
<1>1. LaunchInv => NoOrphans
  BY Parts
<1> QED BY <1>1, Invariance, PTL

-----------------------------------------------------------------------------
(* The calls of the interactive loop *)

\* A list of distinct numbers has an ascending rearrangement: each number goes
\* to the place that the count of those up to it names.
LEMMA Rearrangement ==
    ASSUME NEW n \in Nat, NEW s \in [1..n -> Int],
           \A i, j \in 1..n : s[i] = s[j] => i = j
    PROVE  \E p \in Bijection(1..n, 1..n) :
               \A i, j \in 1..n : i < j => s[p[i]] <= s[p[j]]
<1> DEFINE D == 1..n
           UpTo(j) == {k \in D : s[k] <= s[j]}
           rank == [j \in D |-> Cardinality(UpTo(j))]
<1>1. IsFiniteSet(D) /\ Cardinality(D) = n
  BY FS_Interval, SMT
<1>2. ASSUME NEW j \in D
      PROVE  /\ IsFiniteSet(UpTo(j)) /\ Cardinality(UpTo(j)) \in 1..n
  <2>1. UpTo(j) \in SUBSET D
    OBVIOUS
  <2>2. IsFiniteSet(UpTo(j)) /\ Cardinality(UpTo(j)) <= n
    BY <1>1, <2>1, FS_Subset, SMT
  <2>3. j \in UpTo(j)
    BY SMT
  <2>4. Cardinality(UpTo(j)) \in Nat /\ Cardinality(UpTo(j)) # 0
    BY <2>2, <2>3, FS_CardinalityType, FS_EmptySet
  <2> QED BY <2>2, <2>4, SMT
<1>3. ASSUME NEW j \in D, NEW k \in D, s[j] < s[k]
      PROVE  Cardinality(UpTo(j)) < Cardinality(UpTo(k))
  <2>1. UpTo(j) \in SUBSET UpTo(k)
    BY <1>3, SMT
  <2>2. k \in UpTo(k) /\ k \notin UpTo(j)
    BY <1>3, SMT
  <2>3. UpTo(j) # UpTo(k)
    BY <2>2
  <2>4. IsFiniteSet(UpTo(k))
    BY <1>2
  <2> HIDE DEF UpTo, D
  <2>5. Cardinality(UpTo(j)) <= Cardinality(UpTo(k)) /\ Cardinality(UpTo(j)) # Cardinality(UpTo(k))
    BY <2>1, <2>3, <2>4, FS_Subset
  <2>6. Cardinality(UpTo(j)) \in Nat /\ Cardinality(UpTo(k)) \in Nat
    BY <1>2, SMT DEF D
  <2> QED BY <2>5, <2>6, SMT
<1>4. rank \in [D -> D]
  BY <1>2
<1>5. \A j, k \in D : s[j] < s[k] => rank[j] < rank[k]
  BY <1>3
<1> HIDE DEF rank
<1>6. \A j, k \in D : rank[j] = rank[k] => j = k
  <2> SUFFICES ASSUME NEW j \in D, NEW k \in D, rank[j] = rank[k] PROVE j = k
    OBVIOUS
  <2>1. rank[j] \in Int /\ rank[k] \in Int /\ s[j] \in Int /\ s[k] \in Int
    BY <1>4, SMT
  <2>2. ~(s[j] < s[k]) /\ ~(s[k] < s[j])
    BY <1>5, <2>1, SMT
  <2> QED BY <2>1, <2>2, SMT
<1>7. rank \in Injection(D, D)
  BY <1>4, <1>6 DEF Injection, IsInjective
<1>8. rank \in Surjection(D, D)
  BY <1>1, <1>7, FS_Injection
<1> DEFINE p == [i \in D |-> CHOOSE j \in D : rank[j] = i]
<1>9. \A i \in D : p[i] \in D /\ rank[p[i]] = i
  BY <1>8 DEF Surjection
<1>10. p \in Bijection(D, D)
  <2>1. p \in [D -> D]
    BY <1>9
  <2> HIDE DEF p
  <2>2. \A i, j \in D : p[i] = p[j] => i = j
    BY <1>9
  <2>3. \A j \in D : p[rank[j]] = j
    BY <1>4, <1>6, <1>9
  <2>4. p \in Injection(D, D)
    BY <2>1, <2>2 DEF Injection, IsInjective
  <2>5. p \in Surjection(D, D)
    BY <1>4, <2>1, <2>3 DEF Surjection
  <2> QED BY <2>4, <2>5 DEF Bijection
<1>11. ASSUME NEW i \in D, NEW j \in D, i < j PROVE s[p[i]] <= s[p[j]]
  <2> HIDE DEF p
  <2>1. p[i] \in D /\ p[j] \in D /\ rank[p[i]] = i /\ rank[p[j]] = j
    BY <1>9
  <2>2. s[p[j]] < s[p[i]] => j < i
    BY <1>5, <2>1
  <2>3. s[p[i]] \in Int /\ s[p[j]] \in Int
    BY <2>1
  <2> QED BY <1>11, <2>2, <2>3, SMT
<1> QED BY <1>10, <1>11

\* SortFunc puts distinct numbers in ascending order and loses none.
LEMMA SortFacts ==
    ASSUME NEW n \in Nat, NEW s \in [1..n -> Int],
           \A i, j \in 1..n : s[i] = s[j] => i = j
    PROVE  /\ SortFunc(s) \in [1..n -> Int]
           /\ \A i, j \in 1..n : i < j => SortFunc(s)[i] < SortFunc(s)[j]
           /\ Range(SortFunc(s)) = Range(s)
<1> DEFINE Of(p) == [i \in DOMAIN s |-> s[p[i]]]
           Arranged == {Of(p) : p \in Bijection(DOMAIN s, DOMAIN s)}
           Asc(t) == \A i, j \in DOMAIN s : i < j => t[i] <= t[j]
           t == CHOOSE u \in Arranged : Asc(u)
<1>1. DOMAIN s = 1..n
  OBVIOUS
<1>2. PICK q \in Bijection(1..n, 1..n) : \A i, j \in 1..n : i < j => s[q[i]] <= s[q[j]]
  BY Rearrangement
<1>3. Asc(Of(q)) /\ Of(q) \in Arranged
  BY <1>1, <1>2
<1>4. SortFunc(s) = t
  BY DEF SortFunc
<1>5. t \in Arranged /\ Asc(t)
  <2> HIDE DEF Arranged, Asc, Of
  <2> QED BY <1>3
<1>6. PICK p \in Bijection(1..n, 1..n) : t = Of(p)
  <2> HIDE DEF t, Of
  <2> QED BY <1>1, <1>5
<1>7. Asc(t)
  BY <1>5
<1> HIDE DEF t
<1>8. /\ p \in [1..n -> 1..n]
      /\ \A i, j \in 1..n : p[i] = p[j] => i = j
      /\ \A j \in 1..n : \E i \in 1..n : p[i] = j
  BY <1>6 DEF Bijection, Injection, IsInjective, Surjection
<1>9. t \in [1..n -> Int] /\ DOMAIN t = 1..n /\ \A i \in 1..n : t[i] = s[p[i]] /\ t[i] \in Int
  BY <1>1, <1>6, <1>8
<1>10. ASSUME NEW i \in 1..n, NEW j \in 1..n, i < j PROVE t[i] < t[j]
  <2>1. t[i] <= t[j]
    BY <1>1, <1>7, <1>10
  <2>2. t[i] # t[j]
    <3>1. i # j
      BY <1>10, SMT
    <3>2. p[i] \in 1..n /\ p[j] \in 1..n /\ p[i] # p[j]
      BY <1>8, <3>1
    <3> QED BY <1>9, <3>2
  <2> QED BY <1>9, <2>1, <2>2, SMT
<1>11. Range(t) = Range(s)
  <2>a. \A x : x \in Range(t) <=> \E i \in DOMAIN t : t[i] = x
    BY DEF Range
  <2>1. \A x : x \in Range(t) <=> \E i \in 1..n : s[p[i]] = x
    BY <1>9, <2>a, SMT
  <2>2. \A x : x \in Range(s) <=> \E j \in 1..n : s[j] = x
    BY <1>1 DEF Range
  <2>3. \A x : (\E i \in 1..n : s[p[i]] = x) <=> (\E j \in 1..n : s[j] = x)
    BY <1>8
  <2> QED BY <2>1, <2>2, <2>3
<1> QED BY <1>4, <1>9, <1>10, <1>11

\* What CallsAreWellFormed says of a call.
WellFormed(c) ==
    /\ c.nodes # <<>>
    /\ Range(c.nodes) \subseteq 0..NumNodes - 1
    /\ \A i, j \in DOMAIN c.nodes : i < j => c.nodes[i] < c.nodes[j]
    /\ Is(1, "cfg") => Range(c.nodes) = Named(args[2])

CallInv ==
    /\ at \in {"run", "called"} => args \in Sentences
    /\ at # "called" => call = NoCall
    /\ call # NoCall => WellFormed(call)

\* The operation asked for is called on the nodes given.
LEMMA OperationNodes ==
    ASSUME NEW ops, NEW ns, NEW i
    PROVE  Operation(ops, ns, i) # NoCall => Operation(ops, ns, i).nodes = ns
BY DEF Operation, NoCall

\* A call on one node.
LEMMA OneNode ==
    ASSUME NEW c, NEW k \in 0..NumNodes - 1, c.nodes = <<k>>, ~Is(1, "cfg")
    PROVE  WellFormed(c)
<1>1. DOMAIN c.nodes = {1} /\ c.nodes[1] = k /\ c.nodes # <<>>
  BY SMT
<1>2. Range(c.nodes) = {k}
  BY <1>1 DEF Range
<1>3. \A i, j \in DOMAIN c.nodes : ~(i < j)
  BY <1>1, SMT
<1> QED BY <1>1, <1>2, <1>3 DEF WellFormed

\* A call on all nodes.
LEMMA AllNodes ==
    ASSUME NEW c, c.nodes = All, ~Is(1, "cfg")
    PROVE  WellFormed(c)
<1>1. NumNodes \in Nat \ {0}
  BY ReplAssumption
<1>2. DOMAIN All = 1..NumNodes /\ \A i \in 1..NumNodes : All[i] = i - 1
  BY DEF All
<1>3. All # <<>>
  BY <1>1, <1>2, SMT
<1>4. Range(All) \subseteq 0..NumNodes - 1
  BY <1>1, <1>2, SMT DEF Range
<1>5. \A i, j \in DOMAIN All : i < j => All[i] < All[j]
  BY <1>2, SMT
<1> QED BY <1>3, <1>4, <1>5 DEF WellFormed

\* The indices of a configuration argument are distinct nodes, and the ones it
\* names.
LEMMA IndexFacts ==
    ASSUME NEW w, w.list \in Seq(Index), w.kind = "range" => Len(w.list) = 2,
           parseIndices(w) # <<>>
    PROVE  \E n \in Nat :
              /\ parseIndices(w) \in [1..n -> Int]
              /\ \A i, j \in 1..n : parseIndices(w)[i] = parseIndices(w)[j] => i = j
              /\ Range(parseIndices(w)) \subseteq 0..NumNodes - 1
              /\ Range(parseIndices(w)) = Named(w)
<1>0. NumNodes \in Nat /\ Nothing \notin Int /\ NotANumber \notin Int
  BY ReplAssumption
<1>1. CASE w.kind = "range"
  <2> DEFINE start == IF w.list[1] = Nothing THEN 0 ELSE w.list[1]
             stop == IF w.list[2] = Nothing THEN NumNodes ELSE w.list[2]
             s == [i \in 1..stop - start |-> start + i - 1]
  <2>1. parseIndices(w) = s /\ RangeValid(start, stop) /\ NotANumber \notin {start, stop}
    BY <1>1 DEF parseIndices
  <2>2. w.list[1] \in Index /\ w.list[2] \in Index
    BY <1>1, SMT
  <2>3. start \in Int /\ stop \in Int
    BY <1>0, <2>1, <2>2, SMT DEF Index
  <2>4. start < stop /\ 0 <= start /\ stop <= NumNodes
    BY <1>0, <2>1, <2>3, SMT DEF RangeValid
  <2>5. \A i \in 0..NumNodes - 1 : i \in Named(w) <=> start <= i /\ i < stop
    BY <1>0, <1>1, <2>3, SMT DEF Named
  <2>6. Named(w) \subseteq 0..NumNodes - 1
    BY <1>1 DEF Named
  <2> HIDE DEF start, stop
  <2>7. /\ DOMAIN s = 1..stop - start
        /\ \A i \in 1..stop - start : s[i] = start + i - 1 /\ s[i] \in Int
    BY <2>3, SMT
  <2>8. s \in [1..stop - start -> Int] /\ stop - start \in Nat
    BY <2>3, <2>4, SMT
  <2>9. \A i, j \in 1..stop - start : s[i] = s[j] => i = j
    BY <2>3, SMT
  <2>10. \A x : x \in Range(s) <=> \E i \in 1..stop - start : s[i] = x
    <3>1. \A x : x \in Range(s) <=> \E i \in DOMAIN s : s[i] = x
      BY DEF Range
    <3> QED BY <2>7, <3>1
  <2> HIDE DEF s
  <2>11. \A x : x \in Range(s) => x \in 0..NumNodes - 1 /\ start <= x /\ x < stop
    BY <1>0, <2>3, <2>4, <2>7, <2>10, SMT
  <2>12. ASSUME NEW x \in 0..NumNodes - 1, start <= x, x < stop PROVE x \in Range(s)
    <3>1. x - start + 1 \in 1..stop - start /\ s[x - start + 1] = x
      BY <1>0, <2>3, <2>7, <2>12, SMT
    <3> QED BY <2>10, <3>1
  <2>13. Range(s) = Named(w)
    BY <2>5, <2>6, <2>11, <2>12
  <2> QED BY <2>1, <2>6, <2>8, <2>9, <2>13
<1>2. CASE w.kind # "range"
  <2>1. parseIndices(w) = w.list /\ ListValid(w.list)
    BY <1>2 DEF parseIndices
  <2>2. Named(w) = Range(w.list)
    BY <1>2 DEF Named
  <2>3. Len(w.list) \in Nat /\ w.list \in [1..Len(w.list) -> Index] /\ DOMAIN w.list = 1..Len(w.list)
    BY SMT
  <2>4. \A i, j \in 1..Len(w.list) : w.list[i] = w.list[j] => i = j
    BY <2>1, <2>3 DEF ListValid, IsInjective
  <2>5. Range(w.list) \subseteq 0..NumNodes - 1
    BY <2>1 DEF ListValid, Range
  <2>6. \A i \in 1..Len(w.list) : w.list[i] \in Int
    BY <1>0, <2>1, <2>3, SMT DEF ListValid
  <2>7. w.list \in [1..Len(w.list) -> Int]
    BY <2>3, <2>6
  <2> QED BY <2>1, <2>2, <2>3, <2>4, <2>5, <2>7
<1> QED BY <1>1, <1>2

\* A call on the configuration that an argument names.
LEMMA NamedNodes ==
    ASSUME NEW c, args \in Sentences, 2 \in DOMAIN args, c.nodes = parseConfiguration(args[2]),
           parseConfiguration(args[2]) # <<>>
    PROVE  WellFormed(c)
<1> DEFINE w == args[2]
           s == parseIndices(w)
<1>1. w.list \in Seq(Index) /\ (w.kind = "range" => Len(w.list) = 2)
  BY ReplAssumption
<1>2. CASE s # <<>>
  <2> HIDE DEF w
  <2>1. PICK n \in Nat : /\ s \in [1..n -> Int]
                         /\ \A i, j \in 1..n : s[i] = s[j] => i = j
                         /\ Range(s) \subseteq 0..NumNodes - 1
                         /\ Range(s) = Named(w)
    BY <1>1, <1>2, IndexFacts
  <2>2. c.nodes = SortFunc(s)
    BY DEF parseConfiguration, w
  <2> HIDE DEF s
  <2>3. /\ SortFunc(s) \in [1..n -> Int]
        /\ \A i, j \in 1..n : i < j => SortFunc(s)[i] < SortFunc(s)[j]
        /\ Range(SortFunc(s)) = Range(s)
    BY <2>1, SortFacts
  <2> QED BY <2>1, <2>2, <2>3 DEF WellFormed, w
<1>3. CASE s = <<>>
  <2>1. s \in [1..0 -> Int] /\ \A i, j \in 1..0 : s[i] = s[j] => i = j
    BY <1>3, SMT
  <2> HIDE DEF s
  <2>2. SortFunc(s) \in [1..0 -> Int]
    BY <2>1, SortFacts
  <2>3. SortFunc(s) = <<>>
    BY <2>2, SMT
  <2> QED BY <2>3 DEF parseConfiguration, s
<1> QED BY <1>2, <1>3

\* A command makes a call that is well formed, or none.
LEMMA MakeStep ==
    ASSUME NEW c, Make(c), CallInv, at = "run", c # NoCall => WellFormed(c)
    PROVE  CallInv'
<1>1. CASE c = NoCall /\ Prompt
  BY <1>1 DEF Prompt, CallInv
<1>2. CASE /\ c # NoCall
           /\ call' = c /\ at' = "called" /\ UNCHANGED args
  BY <1>2 DEF CallInv, WellFormed, Is, Named
<1> QED BY <1>1, <1>2 DEF Make

\* Every command makes a call that is well formed, or none.
LEMMA CommandStep ==
    ASSUME CallInv, rpc \/ unicast \/ multicast \/ qc \/ qcCfg
    PROVE  CallInv'
<1>1. at = "run" /\ args \in Sentences
  BY DEF CallInv, Ran, rpc, unicast, multicast, qc, qcCfg
<1>2. ASSUME NEW name \in {"rpc", "unicast", "multicast", "qc"}, Is(1, name)
      PROVE  ~Is(1, "cfg")
  BY <1>2, SMT DEF Is, Word
<1>3. CASE rpc
  <2> DEFINE c == IF Has(3) /\ IndexValid(args[2])
                  THEN Operation({"read", "write"}, <<args[2].num>>, 3) ELSE NoCall
  <2>1. Make(c) /\ ~Is(1, "cfg")
    BY <1>2, <1>3 DEF rpc, Ran
  <2>2. ASSUME c # NoCall PROVE WellFormed(c)
    <3>1. args[2].num \in 0..NumNodes - 1 /\ c.nodes = <<args[2].num>>
      BY <2>2, OperationNodes DEF IndexValid
    <3> HIDE DEF c
    <3> QED BY <2>1, <3>1, OneNode
  <2> HIDE DEF c
  <2> QED BY <1>1, <2>1, <2>2, MakeStep
<1>4. CASE unicast
  <2> DEFINE c == IF Has(4) /\ IndexValid(args[2])
                  THEN [op |-> "unicast", nodes |-> <<args[2].num>>] ELSE NoCall
  <2>1. Make(c) /\ ~Is(1, "cfg")
    BY <1>2, <1>4 DEF unicast, Ran
  <2>2. ASSUME c # NoCall PROVE WellFormed(c)
    <3>1. args[2].num \in 0..NumNodes - 1 /\ c.nodes = <<args[2].num>>
      BY <2>2 DEF IndexValid
    <3> HIDE DEF c
    <3> QED BY <2>1, <3>1, OneNode
  <2> HIDE DEF c
  <2> QED BY <1>1, <2>1, <2>2, MakeStep
<1>5. CASE multicast
  <2> DEFINE c == IF Has(3) THEN [op |-> "multicast", nodes |-> All] ELSE NoCall
  <2>1. Make(c) /\ ~Is(1, "cfg")
    BY <1>2, <1>5 DEF multicast, Ran
  <2>2. ASSUME c # NoCall PROVE WellFormed(c)
    <3>1. c.nodes = All
      BY <2>2
    <3> HIDE DEF c
    <3> QED BY <2>1, <3>1, AllNodes
  <2> HIDE DEF c
  <2> QED BY <1>1, <2>1, <2>2, MakeStep
<1>6. CASE qc
  <2> DEFINE c == IF Has(2) THEN Operation(QuorumOps, All, 2) ELSE NoCall
  <2>1. Make(c) /\ ~Is(1, "cfg")
    BY <1>2, <1>6 DEF qc, Ran
  <2>2. ASSUME c # NoCall PROVE WellFormed(c)
    <3>1. c.nodes = All
      BY <2>2, OperationNodes
    <3> HIDE DEF c
    <3> QED BY <2>1, <3>1, AllNodes
  <2> HIDE DEF c
  <2> QED BY <1>1, <2>1, <2>2, MakeStep
<1>7. CASE qcCfg
  <2> DEFINE nodes == parseConfiguration(args[2])
             c == IF Has(3) /\ nodes # <<>> THEN Operation(QuorumOps, nodes, 3) ELSE NoCall
  <2>1. Make(c)
    BY <1>7 DEF qcCfg
  <2>2. ASSUME c # NoCall PROVE WellFormed(c)
    <3>1. nodes # <<>> /\ c.nodes = nodes
      BY <2>2, OperationNodes
    <3>2. 2 \in DOMAIN args
      BY <1>1, <2>2, ReplAssumption, SMT DEF Has
    <3> HIDE DEF c
    <3> QED BY <1>1, <3>1, <3>2, NamedNodes
  <2> HIDE DEF c
  <2> QED BY <1>1, <2>1, <2>2, MakeStep
<1> QED BY <1>3, <1>4, <1>5, <1>6, <1>7

\* Every step keeps the invariant of the calls.
LEMMA CallInvNext == CallInv /\ [Next]_launchVars => CallInv'
<1> SUFFICES ASSUME CallInv, [Next]_launchVars PROVE CallInv'
  OBVIOUS
<1>1. CASE UNCHANGED replVars
  BY <1>1 DEF CallInv, WellFormed, Is, Named, replVars
<1>2. CASE ReadLine \/ ReadSentence \/ Scan \/ EndScan
  <2>1. at' \in {"scan", "run", "words", "bad"} /\ call' = NoCall
    BY <1>2 DEF ReadLine, ReadSentence, Scan, EndScan, StartScan, CallInv
  <2>2. at' = "run" => args' \in Sentences
    BY <1>2 DEF ReadLine, ReadSentence, Scan, EndScan, StartScan
  <2> QED BY <2>1, <2>2 DEF CallInv
<1>3. CASE Returned \/ Other
  BY <1>3 DEF Returned, Other, Prompt, CallInv
<1>4. CASE Exit
  BY <1>4 DEF Exit, Ran, CallInv
<1>5. ReplRuns \/ UNCHANGED replVars
  BY
     DEF Next, launchVars, ReplRuns, Main, main, Allocate, BuildSystem, Failed, RegisterAndServe,
         WaitForSystem, StopSystems, NewClient, ReplEnds, Spawn, ParentNotify, stopAllSignal,
         stopAllWait, Interrupt, Server, ServerStart, ServerNotify, ServerServe, ServerWait,
         ServerSignalled, ServerStop, ProcFrame, SystemRuns, Elsewhere
<1> QED BY <1>1, <1>2, <1>3, <1>4, <1>5, CommandStep DEF ReplRuns, ReplFails

(* Every call the interactive loop makes is on a non-empty list of known nodes
   in ascending order, and after "cfg" on exactly the nodes the range or list
   names, for any number of nodes and any words.                             *)
THEOREM CallsWellFormed == Spec => []CallsAreWellFormed
<1>1. Init => CallInv
  BY DEF Init, ReplInit, CallInv
<1>2. CallInv => CallsAreWellFormed
  BY DEF CallInv, WellFormed, CallsAreWellFormed
<1> QED BY <1>1, <1>2, CallInvNext, PTL DEF Spec

=============================================================================
