------------------------------ MODULE Storage ------------------------------
(***************************************************************************)
(* The storage example (examples/storage): servers that keep a timestamped *)
(* state per key (server.go), and clients whose interactive loop runs one  *)
(* command at a time against them (repl.go, client.go).  A command sends a *)
(* request to every node of a configuration and evaluates the responses    *)
(* that arrive before its context expires.  Handlers of nested commands    *)
(* make calls of their own on the server's peers.                          *)
(*                                                                         *)
(* Requests and responses travel independently: they are delayed past the  *)
(* end of their command, overtake each other, are lost with a connection,  *)
(* and a two-way request is sent again when its stream broke, also if the  *)
(* server has handled it (OutboundChannel).  Servers keep their state in   *)
(* memory and do not come back after a failure.                            *)
(***************************************************************************)
EXTENDS Integers, Sequences, FiniteSets

CONSTANTS
    Servers,      \* the nodes of the configuration
    Clients,      \* interactive clients
    Keys, Times,  \* keys; the timestamps that clients' clocks can give
    Foo,          \* the key that NoFooAllowedInterceptor refuses
    Filtering,    \* servers that run with that interceptor
    PeerConfigs,  \* what ServerCtx.Config() can return: sets of servers
    Inputs,       \* what may be typed at the clients: a sequence of commands each
    MaxFaults,    \* bound on failed sends and lost responses
    None          \* no value

ReadOps == {"ReadRPC", "ReadQC", "ReadCorrectable", "ReadNestedQC"}
WriteOps == {"WriteRPC", "WriteUnicast", "WriteMulticast", "WriteQC", "WriteNestedMulticast"}
OneWayOps == {"WriteUnicast", "WriteMulticast"}
NestedOps == {"ReadNestedQC", "WriteNestedMulticast"}
SingleOps == {"ReadRPC", "WriteRPC", "WriteUnicast"}

Commands ==
    {m \in [op : ReadOps \cup WriteOps, cfg : (SUBSET Servers) \ {{}}, key : Keys] :
        m.op \in SingleOps => Cardinality(m.cfg) = 1}

ASSUME StorageAssumption ==
    /\ IsFiniteSet(Servers) /\ None \notin Servers
    /\ Times \subseteq Nat \ {0}
    /\ Filtering \subseteq Servers
    /\ PeerConfigs \subseteq SUBSET Servers
    /\ Inputs \subseteq [Clients -> Seq(Commands)]
    /\ MaxFaults \in Nat

\* A value is the name of the command that wrote it.
Values == Clients \X Nat

\* A key that is not in the map; the timestamp of its response is the epoch.
Absent == [value |-> None, time |-> 0]
States == [value : Values, time : Times] \cup {Absent}

VARIABLES
    store,    \* the map of each server
    cmd,      \* the last command of each client
    got,      \* the responses it has received
    corr,     \* the Correctable of a ReadCorrectable command, and its reader
    net,      \* requests in transit
    replies,  \* responses in transit
    nested,   \* calls made by handlers of nested commands
    input,    \* the commands still to be typed at each client
    issued,   \* number of commands of each client
    faults,   \* number of failed sends and lost responses
    acked,    \* history: writes that WriteQC reported as done
    handled   \* history: the writes each server has applied Write to

vars == <<store, cmd, got, corr, net, replies, nested, input, issued, faults, acked, handled>>

\* A call of a client, or (via a server) of the handler of its request there.
CallID(c, i, via, copy) == [client |-> c, num |-> i, via |-> via, copy |-> copy]

\* A one-way request is confirmed to its caller when it has been sent.
Request(call, op, n, key, value, time) ==
    [call |-> call, op |-> op, to |-> n, key |-> key, value |-> value, time |-> time,
     copy |-> 0, sent |-> op \notin OneWayOps]

\* read: the servers whose state the response reflects (history).
Response(m, err, isNew, st, read) ==
    [call |-> m.call, node |-> m.to, err |-> err, isNew |-> isNew, st |-> st, read |-> read]

Failure(m) == Response(m, TRUE, FALSE, Absent, {})

-----------------------------------------------------------------------------
(* Evaluating responses (client.go, responses.go) *)

Successes(rs) == {r \in rs : ~r.err}

\* Slip: any response will do.
newestValue_Any(rs) == {r.st : r \in Successes(rs)}
\* The states with the most recent time; of several, the loop returns the one that
\* arrived first.  No state: ErrIncomplete.
newestValue(rs) == {r.st : r \in {r \in Successes(rs) :
                                    \A q \in Successes(rs) : r.st.time >= q.st.time}}

Updated(rs) == {r.node : r \in {r \in Successes(rs) : r.isNew}}

\* Slip: half of the nodes are enough.
numUpdated_Half(rs, size) == Cardinality(Updated(rs)) >= size \div 2
\* A majority of the nodes updated their value.
numUpdated(rs, size) == Cardinality(Updated(rs)) > size \div 2

Majority(size) == size \div 2 + 1

ReadFrom(rs) == UNION {r.read : r \in Successes(rs)}

-----------------------------------------------------------------------------
(* Commands (repl.go) *)

Idle == [op |-> "none", cfg |-> {}, key |-> None, value |-> None, time |-> 0, seen |-> {},
         res |-> "idle"]

Running(c) == cmd[c].res = "running"

Call(c) == CallID(c, issued[c], None, 0)

Size(c) == Cardinality(cmd[c].cfg)

NoCorr == [level |-> 0, done |-> FALSE, err |-> FALSE, target |-> 0, at |-> "off"]
NewCorr == [NoCorr EXCEPT !.target = 1, !.at = "watch"]

\* Repl, rpc, unicast, multicast, qc and qcCfg: a line is read and the requests of
\* its command are sent.
Issue(c, t) ==
    LET m == Head(input[c])
        i == issued[c] + 1
        write == m.op \in WriteOps
        value == IF write THEN <<c, i>> ELSE None
        time == IF write THEN t ELSE 0
    IN /\ ~Running(c)
       /\ input[c] # <<>>
       /\ input' = [input EXCEPT ![c] = Tail(@)]
       /\ cmd' = [cmd EXCEPT ![c] =
             [op |-> m.op, cfg |-> m.cfg, key |-> m.key, value |-> value, time |-> time,
              seen |-> acked, res |-> "running"]]
       /\ got' = [got EXCEPT ![c] = {}]
       /\ corr' = [corr EXCEPT ![c] = IF m.op = "ReadCorrectable" THEN NewCorr ELSE NoCorr]
       /\ net' = net \cup {Request(CallID(c, i, None, 0), m.op, n, m.key, value, time) :
                              n \in m.cfg}
       /\ issued' = [issued EXCEPT ![c] = i]
       /\ UNCHANGED <<store, replies, nested, faults, acked, handled>>

AllIn(c) == Cardinality(got[c]) = Size(c)

Enough(c) ==
    /\ cmd[c].op = "WriteNestedMulticast"
    /\ Cardinality(Successes(got[c])) >= Majority(Size(c))

\* What a command reports; "old" stands for "timestamp too old".
Outcome(c) ==
    LET ok == Successes(got[c])
    IN CASE cmd[c].op \in {"ReadRPC", "ReadQC", "ReadNestedQC"} ->
              IF ok = {} THEN "error" ELSE "ok"
         [] cmd[c].op = "WriteRPC" ->
              IF ok = {} THEN "error" ELSE IF Updated(got[c]) = {} THEN "old" ELSE "ok"
         [] cmd[c].op = "WriteQC" -> IF numUpdated(got[c], Size(c)) THEN "ok" ELSE "old"
         [] cmd[c].op = "WriteNestedMulticast" -> IF Enough(c) THEN "ok" ELSE "error"
         [] OTHER -> IF Cardinality(ok) = Size(c) THEN "ok" ELSE "error"

Reported(c) ==
    [key |-> cmd[c].key, cfg |-> cmd[c].cfg, time |-> cmd[c].time, value |-> cmd[c].value]

\* The command returns to the prompt and its context is cancelled: a one-way request
\* that has not left is not sent any more.  From now on a response to the command is
\* dropped, and a read request changes nothing: both are forgotten here.
Return(c, res) ==
    /\ cmd' = [cmd EXCEPT ![c] = [Idle EXCEPT !.res = res]]
    /\ got' = [got EXCEPT ![c] = {}]
    /\ corr' = [corr EXCEPT ![c] = NoCorr]
    /\ replies' = {r \in replies : r.call # Call(c)}
    /\ net' = {m \in net : m.call = Call(c) => m.op \in WriteOps /\ m.sent}

Finish(c) ==
    /\ Return(c, Outcome(c))
    /\ acked' = IF cmd[c].op = "WriteQC" /\ Outcome(c) = "ok"
                THEN acked \cup {Reported(c)} ELSE acked
    /\ UNCHANGED <<store, nested, input, issued, faults, handled>>

Complete(c) ==
    /\ Running(c)
    /\ cmd[c].op # "ReadCorrectable"
    /\ AllIn(c) \/ Enough(c)
    /\ Finish(c)

\* The context of the command expires; what has arrived is evaluated.
Timeout(c) ==
    /\ Running(c)
    /\ cmd[c].op # "ReadCorrectable"
    /\ Finish(c)

-----------------------------------------------------------------------------
(* creadQC: a loop that watches the levels of a Correctable *)

\* The level at which creadQC stops: half of the nodes, rounded up.
creadMajority(size) == (size + 1) \div 2

\* Slip: completion does not wake the reader.
update_LevelOnly(k, level, done, err) ==
    [k EXCEPT !.level = level, !.done = done, !.err = err,
              !.at = IF @ = "wait" /\ k.target <= level THEN "get" ELSE @]
\* Correctable.update wakes the reader when its level is reached or all is done.
update(k, level, done, err) ==
    [k EXCEPT !.level = level, !.done = done, !.err = err,
              !.at = IF @ = "wait" /\ (done \/ k.target <= level) THEN "get" ELSE @]

\* The goroutine of the Correctable takes a response.
Correct(c, r) ==
    LET k == corr[c]
    IN IF k.done \/ r.err THEN k
       ELSE update(k, k.level + 1, k.level + 1 >= creadMajority(Size(c)), FALSE)

\* The context expires before the last level.
Expire(c) ==
    /\ Running(c)
    /\ cmd[c].op = "ReadCorrectable"
    /\ ~corr[c].done
    /\ corr' = [corr EXCEPT ![c] = update(@, @.level, TRUE, TRUE)]
    /\ UNCHANGED <<store, cmd, got, net, replies, nested, input, issued, faults, acked, handled>>

\* Watch: a watcher that is registered after completion ("late") stays for ever.
WatchLevel(c) ==
    LET k == corr[c]
    IN /\ Running(c)
       /\ k.at = "watch"
       /\ corr' = [corr EXCEPT ![c].at = IF k.target <= k.level THEN "get"
                                         ELSE IF k.done THEN "late" ELSE "wait"]
       /\ UNCHANGED <<store, cmd, got, net, replies, nested, input, issued, faults, acked,
                      handled>>

\* The reader looks at the current response and goes on to the next level.
GetLevel(c) ==
    LET k == corr[c]
        last == k.err \/ k.target >= creadMajority(Size(c))
    IN /\ Running(c)
       /\ k.at = "get"
       /\ IF last THEN Return(c, IF k.err THEN "error" ELSE "ok")
          ELSE /\ corr' = [corr EXCEPT ![c].target = @ + 1, ![c].at = "watch"]
               /\ UNCHANGED <<cmd, got, net, replies>>
       /\ UNCHANGED <<store, nested, input, issued, faults, acked, handled>>

-----------------------------------------------------------------------------
(* Transport, as the channels of the library provide it *)

\* A second response of a node is dropped.
Accepts(rs, r) == \A q \in rs : q.node # r.node

\* The call of a response is still waiting for it.
Pending(r) ==
    IF r.call.via = None THEN Running(r.call.client) /\ r.call = Call(r.call.client)
    ELSE \E h \in nested : h.call = r.call

\* The router hands a response, or an error of the channel itself, to its call.
Deliver(r) ==
    LET c == r.call.client
    IN IF r.call.via = None
       THEN /\ IF Pending(r) /\ Accepts(got[c], r)
               THEN /\ got' = [got EXCEPT ![c] = @ \cup {r}]
                    /\ corr' = IF cmd[c].op = "ReadCorrectable"
                               THEN [corr EXCEPT ![c] = Correct(c, r)] ELSE corr
               ELSE UNCHANGED <<got, corr>>
            /\ UNCHANGED nested
       ELSE /\ nested' = {IF h.call = r.call /\ Accepts(h.got, r)
                          THEN [h EXCEPT !.got = @ \cup {r}] ELSE h : h \in nested}
            /\ UNCHANGED <<got, corr>>

Receive(r) ==
    /\ r \in replies
    /\ replies' = replies \ {r}
    /\ Deliver(r)
    /\ UNCHANGED <<store, cmd, net, input, issued, faults, acked, handled>>

\* A one-way request leaves, and its caller is told so.
Transmit(m) ==
    /\ m \in net
    /\ ~m.sent
    /\ net' = (net \ {m}) \cup {[m EXCEPT !.sent = TRUE]}
    /\ Deliver(Response(m, FALSE, FALSE, Absent, {}))
    /\ UNCHANGED <<store, cmd, replies, input, issued, faults, acked, handled>>

\* The request cannot be sent, or the call is failed by its channel.
SendFails(m) ==
    /\ m \in net
    /\ m.op \in OneWayOps => ~m.sent
    /\ faults < MaxFaults
    /\ faults' = faults + 1
    /\ net' = net \ {m}
    /\ Deliver(Failure(m))
    /\ UNCHANGED <<store, cmd, replies, input, issued, acked, handled>>

\* The handler of m is done and its response goes out.  If the stream breaks, a
\* two-way request is sent again, whether or not the response came through, and a
\* streaming call fails.
Respond(m, rest, r) ==
    \/ /\ net' = rest
       /\ replies' = IF m.op \in OneWayOps \/ ~Pending(r) THEN replies ELSE replies \cup {r}
       /\ UNCHANGED faults
    \/ /\ m.op \notin OneWayOps
       /\ Pending(r)
       /\ faults < MaxFaults
       /\ faults' = faults + 1
       /\ IF m.op = "ReadCorrectable"
          THEN net' = rest /\ replies' = replies \cup {Failure(m)}
          ELSE /\ net' = rest \cup {[m EXCEPT !.copy = @ + 1]}
               /\ replies' \in {replies, replies \cup {r}}

-----------------------------------------------------------------------------
(* The servers (server.go, interceptors) *)

\* NoFooAllowedInterceptor, instantiated for write requests.
Rejected(m) == m.to \in Filtering /\ m.key = Foo /\ m.op \in WriteOps

Arrived(m) == m \in net /\ m.sent

HandleRejected(m) ==
    /\ Arrived(m)
    /\ Rejected(m)
    /\ Respond(m, net \ {m}, Failure(m))
    /\ UNCHANGED <<store, cmd, got, corr, nested, input, issued, acked, handled>>

Read(m) ==
    /\ Arrived(m)
    /\ ~Rejected(m)
    /\ m.op \in {"ReadRPC", "ReadQC", "ReadCorrectable"}
    /\ Respond(m, net \ {m}, Response(m, FALSE, FALSE, store[m.to][m.key], {m.to}))
    /\ UNCHANGED <<store, cmd, got, corr, nested, input, issued, acked, handled>>

\* Slip: a key that is present is not written again.
TooOld_Present(m) == store[m.to][m.key] # Absent
TooOld(m) == store[m.to][m.key].time > m.time

Write(m) ==
    LET old == TooOld(m)
    IN /\ Arrived(m)
       /\ ~Rejected(m)
       /\ m.op \in {"WriteRPC", "WriteUnicast", "WriteMulticast", "WriteQC"}
       /\ store' = IF old THEN store
                   ELSE [store EXCEPT ![m.to][m.key] = [value |-> m.value, time |-> m.time]]
       /\ handled' = [handled EXCEPT ![m.to] =
                         @ \cup {[key |-> m.key, value |-> m.value, time |-> m.time]}]
       /\ Respond(m, net \ {m}, Response(m, FALSE, ~old, Absent, {}))
       /\ UNCHANGED <<cmd, got, corr, nested, input, issued, acked>>

\* The call that a nested handler makes: ReadQC or WriteMulticast.
InnerOp(op) == IF op = "ReadNestedQC" THEN "ReadQC" ELSE "WriteMulticast"

\* ReadNestedQC and WriteNestedMulticast, up to their call.
StartNested(m, cfg) ==
    /\ Arrived(m)
    /\ ~Rejected(m)
    /\ m.op \in NestedOps
    /\ IF cfg = {}
       THEN Respond(m, net \ {m}, Failure(m)) /\ UNCHANGED nested
       ELSE LET call == CallID(m.call.client, m.call.num, m.to, m.copy)
            IN /\ net' = (net \ {m}) \cup
                         {Request(call, InnerOp(m.op), n, m.key, m.value, m.time) : n \in cfg}
               /\ nested' = nested \cup {[call |-> call, req |-> m, cfg |-> cfg, got |-> {}]}
               /\ UNCHANGED <<replies, faults>>
    /\ UNCHANGED <<store, cmd, got, corr, input, issued, acked, handled>>

NestedResponses(h) ==
    LET ok == Successes(h.got)
    IN IF h.req.op = "ReadNestedQC"
       THEN IF ok = {} THEN {Failure(h.req)}
            ELSE {Response(h.req, FALSE, FALSE, st, ReadFrom(h.got)) : st \in newestValue(h.got)}
       ELSE IF Cardinality(ok) < Cardinality(h.cfg) THEN {Failure(h.req)}
            ELSE {Response(h.req, FALSE, TRUE, Absent, {})}

\* The handler has all responses; its call has no deadline.
EndNested(h) ==
    /\ h \in nested
    /\ Cardinality(h.got) = Cardinality(h.cfg)
    /\ nested' = nested \ {h}
    /\ \E r \in NestedResponses(h) : Respond(h.req, net, r)
    /\ UNCHANGED <<store, cmd, got, corr, input, issued, acked, handled>>

-----------------------------------------------------------------------------
Init ==
    /\ store = [n \in Servers |-> [k \in Keys |-> Absent]]
    /\ cmd = [c \in Clients |-> Idle] /\ got = [c \in Clients |-> {}]
    /\ corr = [c \in Clients |-> NoCorr]
    /\ net = {} /\ replies = {} /\ nested = {}
    /\ input \in Inputs /\ issued = [c \in Clients |-> 0] /\ faults = 0
    /\ acked = {} /\ handled = [n \in Servers |-> {}]

\* What a command does without the network: its deadline passes, its loop goes on.
Proceed(c) == Timeout(c) \/ Expire(c) \/ WatchLevel(c) \/ GetLevel(c)

Client(c) == (\E t \in Times : Issue(c, t)) \/ Complete(c) \/ Proceed(c)

Transport ==
    \/ \E r \in replies : Receive(r)
    \/ \E m \in net : Transmit(m) \/ SendFails(m)

Server ==
    \/ \E m \in net : HandleRejected(m) \/ Read(m) \/ Write(m)
    \/ \E m \in net, cfg \in PeerConfigs : StartNested(m, cfg)
    \/ \E h \in nested : EndNested(h)

Next == (\E c \in Clients : Client(c)) \/ Transport \/ Server

Spec == Init /\ [][Next]_vars

\* Deadlines pass and a client's loop goes on; nothing is owed by the network.
FairSpec == Spec /\ \A c \in Clients : WF_vars(Proceed(c))

-----------------------------------------------------------------------------
(* Properties *)

Writes == [key : Keys, value : Values, time : Times]

\* A majority of the nodes of a write, as numUpdated counts it.
IsQuorum(Q, cfg) == Q \subseteq cfg /\ 2 * Cardinality(Q) > Cardinality(cfg)

(* A write that WriteQC reported as done stays on a majority of its nodes: they
   hold it or something as recent, whatever arrives late, twice or out of order. *)
AckedWritesStay ==
    \A w \in acked : \E Q \in SUBSET w.cfg :
        IsQuorum(Q, w.cfg) /\ \A n \in Q : store[n][w.key].time >= w.time

(* A quorum read, also a nested one, whose responses so far cover half of the nodes
   of a write that was reported as done before the read began, returns that write
   or one at least as recent when it ends.                                      *)
ReadsAreFresh ==
    \A c \in Clients : \A w \in cmd[c].seen : \A st \in newestValue(got[c]) :
        /\ cmd[c].op \in {"ReadQC", "ReadNestedQC"}
        /\ w.key = cmd[c].key
        /\ 2 * Cardinality(ReadFrom(got[c]) \cap w.cfg) >= Cardinality(w.cfg)
        => st.time >= w.time

(* Two servers that were given the same writes of a key, with different times,
   hold the same value, in whatever order and however often these arrived.      *)
OrderDoesNotMatter ==
    \A n, p \in Servers, k \in Keys :
        LET W(x) == {w \in handled[x] : w.key = k}
        IN /\ W(n) = W(p)
           /\ \A v, w \in W(n) : v.time = w.time => v = w
           => store[n][k] = store[p][k]

(* No server that runs the interceptor stores the key it refuses, and no write of
   it is reported as done when a majority of the nodes run it.                  *)
RefusedKeyNotStored ==
    /\ \A n \in Filtering : Foo \in Keys => store[n][Foo] = Absent
    /\ \A w \in acked : w.key = Foo =>
          2 * Cardinality(w.cfg \cap Filtering) < Cardinality(w.cfg)

(* A command returns to the prompt, if not by its responses then by its deadline.
   Only a correctable read that registers a watcher after its call has ended, for
   a level that was not reached, waits for ever (correctable.go:52).            *)
PromptReturns == \A c \in Clients : Running(c) ~> (~Running(c) \/ corr[c].at = "late")

=============================================================================
