---------------------------- MODULE ConfigWatch ----------------------------
(***************************************************************************)
(* Configuration.Watch (config.go) with the derive function of the user    *)
(* guide: of the nodes that did not fail in the last quorum call, the ones *)
(* with the lowest latency estimates.  The estimates and the errors change *)
(* while the goroutine of Watch looks at them at every tick, and the       *)
(* consumer reads the channel when it likes.                               *)
(***************************************************************************)
EXTENDS Integers, Sequences, SequencesExt, FiniteSets

CONSTANTS
    Cfg,         \* the configuration: a sequence of node IDs
    Rtts,        \* round-trip times
    Causes,      \* causes of node errors
    Filter,      \* the error types given to WithoutErrors
    TopSize,     \* how many nodes are derived
    MaxChanges   \* how often the estimates and errors change

VARIABLES
    latency,   \* estimate of each node, negative without a measurement
    errors,    \* the last QuorumCallError: node errors [node, cause]
    pc,        \* the goroutine: "start", "loop" or "done"
    current,   \* its local
    ch,        \* the channel, with a buffer of one
    seen,      \* what the consumer received last
    changes

watchVars == <<latency, errors, pc, current, ch, seen, changes>>

IDs == ToSet(Cfg)

-----------------------------------------------------------------------------
(* Derived configurations *)

\* A comparator of nodes; those without a measurement come last.
Latency ==
    [a, b \in IDs |->
        LET la == latency[a]
            lb == latency[b]
        IN CASE la < 0 /\ lb < 0 -> 0
             [] la < 0 /\ lb >= 0 -> 1
             [] la >= 0 /\ lb < 0 -> -1
             [] OTHER -> la - lb]

\* A stable sort: equal nodes keep their order.
SortBy(c, cmp) ==
    LET before(i, j) == cmp[c[i], c[j]] < 0 \/ (cmp[c[i], c[j]] = 0 /\ i < j)
        order == SetToSortSeq(DOMAIN c, before)
    IN [k \in DOMAIN c |-> c[order[k]]]

\* No error types exclude every node that failed.
WithoutErrors(c, err, types) ==
    LET excluded == {e.node : e \in {x \in err : types = {} \/ x.cause \in types}}
    IN SelectSeq(c, LAMBDA n : n \notin excluded)

derive ==
    LET sorted == SortBy(WithoutErrors(Cfg, errors, Filter), Latency)
    IN SubSeq(sorted, 1, IF TopSize < Len(sorted) THEN TopSize ELSE Len(sorted))

-----------------------------------------------------------------------------
(* The goroutine of Watch and its consumer *)

Init ==
    /\ latency = [n \in IDs |-> -1] /\ errors = {} /\ changes = 0
    /\ pc = "start"
    /\ current = <<>> /\ ch = <<>> /\ seen = <<>>

\* The first configuration always finds room in the channel.
Start ==
    /\ pc = "start"
    /\ pc' = "loop"
    /\ current' = derive
    /\ ch' = <<derive>>
    /\ UNCHANGED <<latency, errors, seen, changes>>

Tick ==
    /\ pc = "loop"
    /\ derive # current
    /\ current' = derive
    /\ ch' = IF ch = <<>> THEN <<derive>> ELSE ch
    /\ UNCHANGED <<latency, errors, pc, seen, changes>>

\* The context is cancelled, and the channel is closed.
Cancelled ==
    /\ pc = "loop"
    /\ pc' = "done"
    /\ UNCHANGED <<latency, errors, current, ch, seen, changes>>

Receive ==
    /\ ch # <<>>
    /\ seen' = Head(ch)
    /\ ch' = <<>>
    /\ UNCHANGED <<latency, errors, pc, current, changes>>

-----------------------------------------------------------------------------
(* What the rest of the program does *)

Change == changes < MaxChanges /\ changes' = changes + 1

\* deliverPending routes a response: a moving average of the last ones.
updateLatency(n, rtt) ==
    latency' = [latency EXCEPT ![n] = IF @ < 0 THEN rtt ELSE (8 * @ + 2 * rtt) \div 10]

Response ==
    /\ Change
    /\ \E n \in IDs, rtt \in Rtts : updateLatency(n, rtt)
    /\ UNCHANGED <<errors, pc, current, ch, seen>>

\* A quorum call ends with errors of some nodes.
QuorumCallFails ==
    /\ Change
    /\ \E failed \in SUBSET IDs, cause \in Causes :
          errors' = {[node |-> n, cause |-> cause] : n \in failed}
    /\ UNCHANGED <<latency, pc, current, ch, seen>>

Next == Start \/ Tick \/ Cancelled \/ Receive \/ Response \/ QuorumCallFails

(* The ticker ticks and the consumer reads now and then.                     *)
FairSpec == Init /\ [][Next]_watchVars /\ WF_watchVars(Start \/ Tick) /\ WF_watchVars(Receive)

-----------------------------------------------------------------------------
(* config.go: if the consumer has not yet read, the emission is skipped and
   the "next tick will re-evaluate"; so when the derived configuration stays
   the same the consumer receives it in the end, unless Watch is cancelled.  *)
ConsumerCatchesUp == []<>(pc = "done" \/ seen = derive)

=============================================================================
