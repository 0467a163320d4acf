------------------------------ MODULE Systems ------------------------------
(***************************************************************************)
(* The life of gorums Systems (system.go): a listener, a gRPC server that  *)
(* a goroutine serves, and an outbound configuration that dials the peers. *)
(* The steps are combined by Launch, which knows when each is called.      *)
(*                                                                         *)
(* Every channel of the outbound configuration dials once on its own       *)
(* ("eager connect") and from then on only when something is sent, so the  *)
(* dial of a peer that does not listen yet is not repeated here.           *)
(***************************************************************************)
EXTENDS Integers, Sequences, FiniteSets

CONSTANT MaxSystems

ASSUME MaxSystemsAssumption == MaxSystems \in Nat \ {0}

Sys == 1..MaxSystems

VARIABLES
    size,   \* how many of the systems this invocation uses
    lis,    \* listener of each system: "none", "open", "closed"
    srv,    \* gRPC server: "none", "new", "serving", "stopped"
    gor,    \* goroutine that calls Serve: "none", "started", "serving", "ended"
    out,    \* outbound configuration: "none", "open", "closed"
    dial,   \* eager connect of i to j: "idle", "made", "failed"
    stage   \* how far Stop has come: 0 (not called) .. 4 (returned)

sysVars == <<size, lis, srv, gor, out, dial, stage>>

Used == 1..size

SystemsInit ==
    /\ lis = [i \in Sys |-> "none"]
    /\ srv = [i \in Sys |-> "none"]
    /\ gor = [i \in Sys |-> "none"]
    /\ out = [i \in Sys |-> "none"]
    /\ dial = [i \in Sys |-> [j \in Sys |-> "idle"]]
    /\ stage = [i \in Sys |-> 0]

\* net.Listen succeeds.
Listen(i) == lis' = [lis EXCEPT ![i] = "open"]

\* NewServer and newOutboundConfig succeed.
Build(i) ==
    /\ srv' = [srv EXCEPT ![i] = "new"]
    /\ out' = [out EXCEPT ![i] = "open"]

\* The sender goroutine of i's channel to j connects, if somebody listens: the
\* kernel accepts for a server that does not serve yet.
Dial(i, j) ==
    /\ i # j
    /\ out[i] = "open"
    /\ dial[i][j] = "idle"
    /\ dial' = [dial EXCEPT ![i][j] = IF lis[j] = "open" THEN "made" ELSE "failed"]
    /\ UNCHANGED <<size, lis, srv, gor, out, stage>>

\* System.Config of i: itself, and the peers whose streams its server accepted.
Config(i) ==
    {i} \cup {j \in Used : dial[j][i] = "made" /\ out[j] = "open" /\ srv[i] = "serving"}

\* go sys.Serve()
GoServe(i) == gor' = [gor EXCEPT ![i] = "started"]

\* A server that was stopped before closes the listener it is given.
ServeBegin(i) ==
    /\ gor[i] = "started"
    /\ IF srv[i] = "stopped"
       THEN /\ lis' = [lis EXCEPT ![i] = "closed"]
            /\ gor' = [gor EXCEPT ![i] = "ended"]
            /\ UNCHANGED srv
       ELSE /\ srv' = [srv EXCEPT ![i] = "serving"]
            /\ gor' = [gor EXCEPT ![i] = "serving"]
            /\ UNCHANGED lis
    /\ UNCHANGED <<size, out, dial, stage>>

ServeEnd(i) ==
    /\ gor[i] = "serving"
    /\ srv[i] = "stopped"
    /\ gor' = [gor EXCEPT ![i] = "ended"]
    /\ UNCHANGED <<size, lis, srv, out, dial, stage>>

\* Slip: the listener is left to gRPC, which never saw it if Serve did not run.
CloseListener_Served(i) == UNCHANGED lis
CloseListener(i) == lis' = [lis EXCEPT ![i] = "closed"]

\* Stop: waiters of the inbound manager; gRPC, which closes the listener it
\* serves; the listener; the closers.
StopStep(i) ==
    /\ \/ stage[i] = 0 /\ UNCHANGED <<lis, srv, out>>
       \/ /\ stage[i] = 1
          /\ srv' = [srv EXCEPT ![i] = "stopped"]
          /\ lis' = IF srv[i] = "serving" THEN [lis EXCEPT ![i] = "closed"] ELSE lis
          /\ UNCHANGED out
       \/ stage[i] = 2 /\ CloseListener(i) /\ UNCHANGED <<srv, out>>
       \/ /\ stage[i] = 3
          /\ out' = [out EXCEPT ![i] = "closed"]
          /\ UNCHANGED <<lis, srv>>
    /\ stage' = [stage EXCEPT ![i] = @ + 1]
    /\ UNCHANGED <<size, gor, dial>>

\* The processes of the systems in S end, and the kernel takes everything back.
Release(S) ==
    /\ lis' = [i \in Sys |-> IF i \in S THEN "closed" ELSE lis[i]]
    /\ srv' = [i \in Sys |-> IF i \in S THEN "stopped" ELSE srv[i]]
    /\ gor' = [i \in Sys |-> IF i \in S THEN "ended" ELSE gor[i]]
    /\ out' = [i \in Sys |-> IF i \in S THEN "closed" ELSE out[i]]
    /\ UNCHANGED <<size, dial, stage>>

\* Nothing is on its way any more that could bring the systems together.
Settled ==
    \A i \in Used :
        /\ gor[i] # "started"
        /\ out[i] = "open" => \A j \in Used \ {i} : dial[i][j] # "idle"

=============================================================================
