------------------------------- MODULE Launch -------------------------------
(***************************************************************************)
(* The storage example's program (examples/storage: main.go, cluster.go,   *)
(* runServer, runLocalCluster, runClient) from its command line to its     *)
(* end.  It runs as                                                        *)
(*   - a client with a local cluster: NewLocalSystems in this process,     *)
(*   - a client of servers that are given with -addrs,                     *)
(*   - the parent of a cluster: one server process for each address.       *)
(* Repl is the interactive loop of the client.                             *)
(*                                                                         *)
(* Ten seconds are long: WaitForConfig times out when no connection is on  *)
(* its way any more, and before that only on a machine so slow that it     *)
(* counts as a fault.  The addresses of a cluster are distinct.            *)
(***************************************************************************)
EXTENDS Systems, Repl

CONSTANTS
    Invocations,  \* command lines: [cluster, serve, addrs, ic]
    Blank,        \* an entry of -addrs that is empty after trimming
    MaxFaults     \* how often the system refuses or delays something

VARIABLES
    flags,   \* this command line
    pc,      \* where main is
    idx,     \* loop variable of the loop main is in
    ok,      \* no error will be returned to main
    proc,    \* the server processes of a cluster
    sig,     \* a signal is buffered in each of them
    why,     \* why a process ended
    faults

mainVars == <<flags, pc, idx, ok, faults>>
procVars == <<proc, sig, why>>
launchVars == <<mainVars, procVars, sysVars, replVars>>

-----------------------------------------------------------------------------
(* The command line *)

\* The comma-separated entries, trimmed.
splitAddrs(s) == SelectSeq(s, LAMBDA a : a # Blank)

\* A cluster has at most MaxSystems addresses.  A server with an address is a
\* process of a cluster: -serve is typed without one.
ASSUME InvocationsAssumption ==
    \A f \in Invocations :
        splitAddrs(f.addrs) # <<>> =>
            (f.cluster => Len(splitAddrs(f.addrs)) \in Sys) /\ (f.serve => f.cluster)

KnownInterceptors == {"logging", "nofoo", "metadata", "delayed"}
parseInterceptors(ic) == Range(ic) \subseteq KnownInterceptors

Fault == faults < MaxFaults /\ faults' = faults + 1

Goto(label) == pc' = label /\ idx' = 1

\* The loop goes on with the next index, or to label after the last one.
Loop(last, label) ==
    IF idx = last THEN Goto(label) ELSE idx' = idx + 1 /\ pc' = pc

main ==
    /\ pc = "main"
    /\ LET all == splitAddrs(flags.addrs) IN
       \/ /\ flags.cluster
          /\ size' = Len(all)
          /\ Goto(IF all = <<>> THEN "fatal" ELSE "spawn")
       \/ /\ ~flags.cluster
          /\ size' = IF all = <<>> THEN MaxSystems ELSE 0
          /\ Goto(IF all # <<>> THEN "client"
                  ELSE IF ~flags.serve /\ parseInterceptors(flags.ic) THEN "alloc" ELSE "fatal")
    /\ UNCHANGED <<flags, ok, faults, procVars, lis, srv, gor, out, dial, stage, replVars>>

-----------------------------------------------------------------------------
(* NewLocalSystems and runLocalCluster *)

\* allocateListeners; on an error it closes the ones before.
Allocate ==
    /\ pc = "alloc"
    /\ \/ /\ Listen(idx)
          /\ Loop(size, "build")
          /\ UNCHANGED faults
       \/ /\ Fault
          /\ lis' = [i \in Sys |-> IF i < idx THEN "closed" ELSE lis[i]]
          /\ Goto("fatal")
    /\ UNCHANGED <<flags, ok, procVars, size, srv, gor, out, dial, stage, replVars>>

UndoBuild == Goto(IF idx = 1 THEN "failed" ELSE "undo")

\* The loop over the systems; on an error it stops the ones before.
BuildSystem ==
    /\ pc = "build"
    /\ \/ Build(idx) /\ Loop(size, "register") /\ UNCHANGED faults
       \/ Fault /\ UndoBuild /\ UNCHANGED <<srv, out>>
    /\ UNCHANGED <<flags, ok, procVars, size, lis, gor, dial, stage, replVars>>

\* NewLocalSystems failed.  Its caller ends the program.
Failed ==
    /\ pc = "failed"
    /\ Goto("fatal")
    /\ UNCHANGED <<flags, ok, faults, procVars, sysVars, replVars>>

RegisterAndServe ==
    /\ pc = "register"
    /\ GoServe(idx)
    /\ Loop(size, "wait")
    /\ UNCHANGED <<flags, ok, faults, procVars, size, lis, srv, out, dial, stage, replVars>>

\* Slip: any new connection ends the wait.
Connected_Some(i) == Cardinality(Config(i)) > 1
\* cfg.Size() == len(systems)
Connected(i) == Cardinality(Config(i)) = size

WaitForSystem ==
    /\ pc = "wait"
    /\ \/ Connected(idx) /\ Loop(size, "client") /\ UNCHANGED <<ok, faults>>
       \/ /\ ~Connected(idx)
          /\ IF Settled THEN UNCHANGED faults ELSE Fault
          /\ Goto("stop") /\ ok' = FALSE
    /\ UNCHANGED <<flags, procVars, sysVars, replVars>>

Built == {i \in Sys : srv[i] # "none"}

\* stop, called by main in the end or after an error, and the loop over the
\* systems that NewLocalSystems gives up.
StopSystems ==
    /\ pc \in {"stop", "undo"}
    /\ IF stage[idx] < 3 THEN UNCHANGED <<pc, idx>>
       ELSE Loop(Cardinality(Built), IF pc = "undo" THEN "failed"
                                     ELSE IF ok THEN "exit" ELSE "fatal")
    /\ StopStep(idx)
    /\ UNCHANGED <<flags, ok, faults, procVars, replVars>>

-----------------------------------------------------------------------------
(* runClient.  After an error log.Fatal ends main, and stop is not called. *)

NewClient ==
    /\ pc = "client"
    /\ \/ Goto("repl") /\ UNCHANGED faults
       \/ Fault /\ Goto("fatal")
    /\ UNCHANGED <<flags, ok, procVars, sysVars, replVars>>

\* The deferred Close, and main's deferred stop.
ReplEnds ==
    /\ pc = "repl"
    /\ at = "exit"
    /\ Goto(IF size = 0 THEN "exit" ELSE "stop")
    /\ UNCHANGED <<flags, ok, faults, procVars, sysVars, replVars>>

\* The terminal cannot be read.
ReplFails ==
    /\ pc = "repl"
    /\ at = "prompt"
    /\ Fault
    /\ Goto("fatal")
    /\ UNCHANGED <<flags, ok, procVars, sysVars, replVars>>

-----------------------------------------------------------------------------
(* runCluster: the parent *)

\* exec.Command and Start; after an error stopAll ends the ones before.
Spawn ==
    /\ pc = "spawn"
    /\ \/ /\ proc' = [proc EXCEPT ![idx] = "start"]
          /\ Loop(size, "notify")
          /\ UNCHANGED <<ok, faults>>
       \/ /\ Fault
          /\ ok' = FALSE
          /\ Goto("signal")
          /\ UNCHANGED proc
    /\ UNCHANGED <<flags, sig, why, sysVars, replVars>>

ParentNotify ==
    /\ pc = "notify"
    /\ Goto("run")
    /\ UNCHANGED <<flags, ok, faults, procVars, sysVars, replVars>>

Unprepared == {"start", "notify"}          \* a signal ends the process
Prepared == {"register", "wait", "ready", "stop"}

\* Slip: without a buffer a signal is lost unless the process waits for it.
Buffered_None(i) == proc[i] = "ready"
Buffered(i) == proc[i] \in Prepared

\* A signal to the processes of S: the default action before signal.Notify,
\* a place in the channel of one after it.
Signal(S) ==
    LET dead == {i \in S : proc[i] \in Unprepared}
    IN /\ proc' = [i \in Sys |-> IF i \in dead THEN "gone" ELSE proc[i]]
       /\ why' = [i \in Sys |-> IF i \in dead THEN "killed" ELSE why[i]]
       /\ sig' = [i \in Sys |-> sig[i] \/ (i \in S /\ Buffered(i))]
       /\ Release(dead)

\* Ctrl-C is sent to every process of the terminal, kill only to the parent.
\* The parent has the default action until its own Notify, also while it stops
\* the others because one cannot be started; after it a second signal is kept
\* in the channel that nobody reads any more.
Interrupt ==
    /\ pc \in {"spawn", "notify", "run", "signal", "reap"}
    /\ CASE pc = "run" -> Goto("signal")
         [] pc \in {"signal", "reap"} /\ ok -> UNCHANGED <<pc, idx>>
         [] OTHER -> Goto("killed")
    /\ \/ Signal(Sys)
       \/ UNCHANGED <<procVars, sysVars>>
    /\ UNCHANGED <<flags, ok, faults, replVars>>

\* stopAll: SIGTERM to each process that was started, then Wait for each.
stopAllSignal ==
    /\ pc = "signal"
    /\ Signal({idx})
    /\ Loop(size, "reap")
    /\ UNCHANGED <<flags, ok, faults, replVars>>

\* Slip: only the last process is waited for.
Ended_Last == idx < size \/ proc[idx] \in {"gone", "absent"}
Ended == proc[idx] \in {"gone", "absent"}

stopAllWait ==
    /\ pc = "reap"
    /\ Ended
    /\ Loop(size, IF ok THEN "exit" ELSE "fatal")
    /\ UNCHANGED <<flags, ok, faults, procVars, sysVars, replVars>>

-----------------------------------------------------------------------------
(* runServer: process i of a cluster *)

Step(i, from, to) == proc[i] = from /\ proc' = [proc EXCEPT ![i] = to]
ProcFrame == UNCHANGED <<flags, pc, idx, ok, replVars>>

End(i, reason) ==
    /\ proc' = [proc EXCEPT ![i] = "gone"]
    /\ why' = [why EXCEPT ![i] = reason]
    /\ Release({i})

\* main, peerConfig and NewSystem.
ServerStart(i) ==
    /\ proc[i] = "start"
    /\ \/ /\ parseInterceptors(flags.ic)
          /\ proc' = [proc EXCEPT ![i] = "notify"]
          /\ Listen(i) /\ Build(i)
          /\ UNCHANGED <<why, faults, size, gor, dial, stage>>
       \/ ~parseInterceptors(flags.ic) /\ End(i, "fatal") /\ UNCHANGED faults
       \/ parseInterceptors(flags.ic) /\ Fault /\ End(i, "fatal")
    /\ UNCHANGED sig
    /\ ProcFrame

ServerNotify(i) ==
    /\ Step(i, "notify", "register")
    /\ UNCHANGED <<sig, why, faults, sysVars>>
    /\ ProcFrame

ServerServe(i) ==
    /\ Step(i, "register", "wait")
    /\ GoServe(i)
    /\ UNCHANGED <<sig, why, faults, size, lis, srv, out, dial, stage>>
    /\ ProcFrame

\* No peer is still on its way to where it dials the others.
PeersSettled == \A j \in Used : proc[j] \notin {"start", "notify", "register"}

ServerWait(i) ==
    /\ \/ /\ Connected(i)
          /\ Step(i, "wait", "ready")
          /\ UNCHANGED <<why, faults, sysVars>>
       \/ /\ proc[i] = "wait"
          /\ ~Connected(i)
          /\ IF Settled /\ PeersSettled /\ pc # "spawn" THEN UNCHANGED faults ELSE Fault
          /\ End(i, "timeout")
    /\ UNCHANGED sig
    /\ ProcFrame

\* <-signals
ServerSignalled(i) ==
    /\ sig[i]
    /\ Step(i, "ready", "stop")
    /\ sig' = [sig EXCEPT ![i] = FALSE]
    /\ UNCHANGED <<why, faults, sysVars>>
    /\ ProcFrame

ServerStop(i) ==
    /\ proc[i] = "stop"
    /\ \/ StopStep(i) /\ UNCHANGED <<proc, why>>
       \/ stage[i] = 4 /\ End(i, "stopped")
    /\ UNCHANGED <<sig, faults>>
    /\ ProcFrame

-----------------------------------------------------------------------------
Main ==
    \/ main \/ Allocate \/ BuildSystem \/ Failed \/ RegisterAndServe \/ WaitForSystem
    \/ StopSystems \/ NewClient \/ ReplEnds
    \/ Spawn \/ ParentNotify \/ stopAllSignal \/ stopAllWait

Server(i) ==
    \/ ServerStart(i) \/ ServerNotify(i) \/ ServerServe(i) \/ ServerWait(i)
    \/ ServerSignalled(i) \/ ServerStop(i)

\* The goroutines of a system run until its process ends.
Elsewhere == UNCHANGED <<mainVars, procVars, replVars>>
SystemRuns(i) ==
    \/ ServeBegin(i) /\ Elsewhere
    \/ ServeEnd(i) /\ Elsewhere
    \/ \E j \in Used : Dial(i, j) /\ Elsewhere

\* The loop of the client.
InRepl == pc = "repl" /\ UNCHANGED <<mainVars, procVars, sysVars>>
ReplRuns ==
    \/ InRepl /\ ReadLine
    \/ InRepl /\ ReadSentence
    \/ InRepl /\ Scan
    \/ InRepl /\ EndScan
    \/ InRepl /\ rpc
    \/ InRepl /\ unicast
    \/ InRepl /\ multicast
    \/ InRepl /\ qc
    \/ InRepl /\ qcCfg
    \/ InRepl /\ Returned
    \/ InRepl /\ Other
    \/ InRepl /\ Exit
    \/ ReplFails

Init ==
    /\ flags \in Invocations
    /\ pc = "main" /\ idx = 1 /\ ok = TRUE /\ faults = 0
    /\ proc = [i \in Sys |-> "absent"]
    /\ sig = [i \in Sys |-> FALSE]
    /\ why = [i \in Sys |-> "none"]
    /\ size = 0
    /\ SystemsInit
    /\ ReplInit

Next ==
    \/ Main
    \/ Interrupt
    \/ ReplRuns
    \/ \E i \in Sys : Server(i) \/ SystemRuns(i)

Spec == Init /\ [][Next]_launchVars

(* Processes and goroutines keep running; users and the network owe nothing. *)
FairSpec ==
    /\ Spec
    /\ WF_launchVars(Main)
    /\ \A i \in Sys : WF_launchVars(Server(i)) /\ WF_launchVars(SystemRuns(i))

-----------------------------------------------------------------------------
(* Properties *)

Released(i) == lis[i] = "closed" /\ srv[i] = "stopped" /\ out[i] = "closed"

(* After Stop the listener, the server and the outbound configuration are
   closed, wherever the goroutine that calls Serve is, also if it begins only
   now: "It is safe to call Stop before Serve".  When NewLocalSystems fails it
   has stopped every system it had built.                                    *)
StoppedIsReleased ==
    /\ \A i \in Sys : stage[i] = 4 => Released(i)
    /\ pc = "failed" => \A i \in Built : Released(i)

(* What the comment of NewLocalSystems says: "If system creation fails, all
   resources acquired by this function are released before returning the
   error."  The listeners are acquired before the first system is built, and
   those of the systems that were not built yet are not closed.              *)
FailedStartReleases == pc = "failed" => \A i \in Used : lis[i] = "closed"

(* The prompt of a client with a local cluster appears when every server is
   connected with every other, so that nested calls reach all of them.
   Without faults a local cluster comes up, because all listeners are open
   before the first eager connect.  Servers in processes of their own can miss each
   other, but only if one dials before the other listens or if one ends.     *)
WaitEndsForCause ==
    /\ pc = "repl" => \A i \in Used : Config(i) = Used
    /\ faults = 0 =>
          /\ ~flags.cluster => ok
          /\ (\E i \in Used : why[i] = "timeout") =>
                \E i, j \in Used : \/ dial[j][i] = "failed"
                                   \/ stage[j] > 0 \/ why[j] \notin {"none", "timeout"}

(* When runCluster returns, no process it started is left.                   *)
NoOrphans == pc \in {"exit", "fatal"} => \A i \in Sys : proc[i] \in {"absent", "gone"}

(* A signalled cluster comes down: no server misses the signal, whether it
   starts, waits for its peers or serves.  So does one that could not be
   started completely, unless the parent, which has no Notify yet, is killed
   meanwhile.                                                                *)
StopCompletes ==
    /\ pc = "signal" /\ ok ~> pc = "exit"
    /\ pc = "signal" ~> pc \in {"exit", "fatal", "killed"}

=============================================================================
