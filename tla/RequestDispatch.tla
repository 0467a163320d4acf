--------------------------- MODULE RequestDispatch ---------------------------
(***************************************************************************)
(* How a server runs its handlers: the NodeStream loop of one inbound      *)
(* stream (internal/stream/server.go, RouteInboundMessage in router.go),   *)
(* in-process dispatch to the self node (DispatchLocalRequest), and        *)
(* Server.HandleRequest, which both start in a goroutine and which gives   *)
(* the lock back when the handler returns or calls Release.                *)
(***************************************************************************)
EXTENDS Naturals, Sequences

CONSTANTS
    Remote,       \* requests that arrive on the stream
    LocalTwoWay,  \* two-way calls of this process on its self node
    LocalOneWay,  \* one-way calls on it that wait for send confirmation
    Replying,     \* requests whose handler returns a response or an error
    Unhandled,    \* requests without a handler, or that do not unmarshal
    Nested,       \* requests whose handler calls the peer back and waits
    Cancellable,  \* local calls whose context may be cancelled
    FinishedCap,  \* capacity of the finished channel
    NoMsg         \* the absence of a message

LocalCalls == LocalTwoWay \cup LocalOneWay
Requests == Remote \cup LocalCalls
Responds(m) == m \in Replying \cup Unhandled
LockOf(m) == IF m \in Remote THEN "stream" ELSE "local"

ASSUME KindAssumption ==
    /\ Remote \cap LocalCalls = {} /\ LocalTwoWay \cap LocalOneWay = {}
    /\ Nested \subseteq Remote \ Unhandled
    /\ Cancellable \subseteq LocalCalls
    /\ NoMsg \notin Requests
    /\ FinishedCap \in Nat

VARIABLES
    inbox,      \* messages on the stream, in order
    arrived,    \* requests the peer has sent
    received,   \* history: requests in the order of Recv
    loopPc,     \* the Recv loop of NodeStream
    locked,     \* mut of the stream, localMu of the router
    released,   \* requests whose release ran (sync.Once)
    handlerPc,  \* the HandleRequest goroutine of a request
    started,    \* history: remote requests in the order their handlers began
    calls,      \* nested calls registered in the peer's router
    finished,   \* responses on their way to the sending goroutine
    sndMsg,     \* the response the sending goroutine is enqueueing
    sndPc,      \* the sending goroutine
    sent,       \* responses put on the stream
    broken,     \* the stream is down and its context done
    detached,   \* the peer's channel does not send on this stream any more
    callPc,     \* local callers in DispatchLocalRequest
    cancelled,  \* local calls whose context is done
    replies     \* what was put on the ResponseChan of a local call

streamVars == <<inbox, arrived, received, loopPc>>
handlerVars == <<handlerPc, started, calls>>
sendVars == <<finished, sndMsg, sndPc, sent>>
localVars == <<callPc, cancelled, replies>>
linkVars == <<broken, detached>>
vars == <<streamVars, locked, released, handlerVars, sendVars, linkVars, localVars>>

-----------------------------------------------------------------------------
(* The stream and the Recv loop *)

Message(k, m) == [kind |-> k, req |-> m]

\* The peer sends a request, or answers a nested call.
Arrive(m) ==
    /\ ~broken
    /\ \/ /\ m \in Remote \ arrived
          /\ arrived' = arrived \cup {m}
          /\ inbox' = Append(inbox, Message("request", m))
       \/ /\ m \in calls
          /\ \A i \in DOMAIN inbox : inbox[i] # Message("answer", m)
          /\ inbox' = Append(inbox, Message("answer", m))
          /\ UNCHANGED arrived
    /\ UNCHANGED <<received, loopPc, locked, released, handlerVars, sendVars, linkVars,
                   localVars>>

Break ==
    /\ ~broken
    /\ broken' = TRUE
    /\ UNCHANGED <<streamVars, locked, released, handlerVars, sendVars, detached,
                   localVars>>

\* A call to the peer is cancelled in Send and clears the channel's stream, or a
\* newer stream of the peer replaces the channel.  This stream is still read.
Detach ==
    /\ ~broken /\ ~detached
    /\ detached' = TRUE
    /\ UNCHANGED <<streamVars, locked, released, handlerVars, sendVars, broken, localVars>>

\* Slip: without the sync.Once every call unlocks.
Release_Each(m) ==
    /\ released' = released \cup {m}
    /\ locked' = [locked EXCEPT ![LockOf(m)] = FALSE]
\* release: once.Do(mut.Unlock)
Release(m) ==
    IF m \in released
    THEN UNCHANGED <<released, locked>>
    ELSE /\ released' = released \cup {m}
         /\ locked' = [locked EXCEPT ![LockOf(m)] = FALSE]

\* Slip: the loop releases the lock when it has started the handler.
KeepTurn_Not(m) == Release(m)
KeepTurn(m) == UNCHANGED <<released, locked>>

\* Slip: the lock stays with a message that is no request.
ReleaseAnswer_Never == UNCHANGED locked
ReleaseAnswer == locked' = [locked EXCEPT !["stream"] = FALSE]

\* RouteInboundMessage: a request starts a handler goroutine, which keeps the
\* lock; an answer to a nested call goes to its caller, if it still waits,
\* and the lock is released here.
Route(msg) ==
    IF msg.kind = "request"
    THEN /\ handlerPc' = [handlerPc EXCEPT ![msg.req] = "spawned"]
         /\ received' = Append(received, msg.req)
         /\ KeepTurn(msg.req)
         /\ UNCHANGED calls
    ELSE /\ handlerPc' = IF msg.req \in calls
                         THEN [handlerPc EXCEPT ![msg.req] = "reply"] ELSE handlerPc
         /\ calls' = calls \ {msg.req}
         /\ ReleaseAnswer
         /\ UNCHANGED <<received, released>>

Recv ==
    /\ loopPc = "recv"
    /\ inbox # <<>>
    /\ Route(Head(inbox))
    /\ inbox' = Tail(inbox)
    /\ loopPc' = "lock"
    /\ UNCHANGED <<arrived, started, sendVars, linkVars, localVars>>

LoopLock ==
    /\ loopPc = "lock"
    /\ ~locked["stream"]
    /\ locked' = [locked EXCEPT !["stream"] = TRUE]
    /\ loopPc' = "recv"
    /\ UNCHANGED <<inbox, arrived, received, released, handlerVars, sendVars, linkVars,
                   localVars>>

\* Recv fails: NodeStream returns and unlocks.
RecvFails ==
    /\ loopPc = "recv"
    /\ broken
    /\ loopPc' = "returned"
    /\ locked' = [locked EXCEPT !["stream"] = FALSE]
    /\ UNCHANGED <<inbox, arrived, received, released, handlerVars, sendVars, linkVars,
                   localVars>>

Loop == Recv \/ LoopLock \/ RecvFails

-----------------------------------------------------------------------------
(* The goroutine that enqueues the responses to the peer's channel *)

\* Slip: the goroutine does not select on the context.
SendingStops_Never == FALSE
SendingStops == sndPc = "select" /\ broken

\* It leaves the loop when the stream's context is done; a response that is
\* enqueued after that goes nowhere, and nobody is told.  Nor does a response
\* go out on this stream when the channel has another one or none.
Sending ==
    /\ \/ /\ sndPc = "select" /\ finished # <<>>
          /\ sndMsg' = Head(finished)
          /\ finished' = Tail(finished)
          /\ sndPc' = "enqueue"
          /\ UNCHANGED sent
       \/ /\ sndPc = "enqueue"
          /\ sent' = IF broken \/ detached THEN sent ELSE sent \cup {sndMsg}
          /\ sndMsg' = NoMsg
          /\ sndPc' = "select"
          /\ UNCHANGED finished
       \/ /\ SendingStops
          /\ sndPc' = "exited"
          /\ UNCHANGED <<finished, sndMsg, sent>>
    /\ UNCHANGED <<streamVars, locked, released, handlerVars, linkVars, localVars>>

-----------------------------------------------------------------------------
(* HandleRequest *)

HandlerStart(m) ==
    /\ handlerPc[m] = "spawned"
    /\ handlerPc' = [handlerPc EXCEPT ![m] = "run"]
    /\ started' = IF m \in Remote THEN Append(started, m) ELSE started
    /\ UNCHANGED <<streamVars, locked, released, calls, sendVars, linkVars, localVars>>

\* The handler calls ServerCtx.Release itself.
HandlerRelease(m) ==
    /\ handlerPc[m] = "run"
    /\ m \notin Unhandled \cup released
    /\ Release(m)
    /\ UNCHANGED <<streamVars, handlerVars, sendVars, linkVars, localVars>>

\* The handler calls the peer, with or without having released the lock.
HandlerCall(m) ==
    /\ handlerPc[m] = "run"
    /\ m \in Nested
    /\ handlerPc' = [handlerPc EXCEPT ![m] = "call"]
    /\ calls' = calls \cup {m}
    /\ UNCHANGED <<streamVars, locked, released, started, sendVars, linkVars, localVars>>

\* The nested call's context is the stream's.  A channel without a stream fails
\* the call, and one that was replaced fails it or sends it on another stream.
HandlerCallFails(m) ==
    /\ handlerPc[m] = "call"
    /\ broken \/ detached
    /\ handlerPc' = [handlerPc EXCEPT ![m] = "reply"]
    /\ calls' = calls \ {m}
    /\ UNCHANGED <<streamVars, locked, released, started, sendVars, linkVars, localVars>>

HandlerReturn(m) ==
    /\ \/ handlerPc[m] = "run" /\ m \notin Nested
       \/ handlerPc[m] = "reply"
    /\ handlerPc' = [handlerPc EXCEPT ![m] = IF Responds(m) THEN "send" ELSE "end"]
    /\ UNCHANGED <<streamVars, locked, released, started, calls, sendVars, linkVars,
                   localVars>>

\* Without a free place a response can still be handed to the sending
\* goroutine, when that waits for one.
FinishedHasRoom ==
    \/ Len(finished) < FinishedCap
    \/ finished = <<>> /\ sndPc = "select"

\* NodeStream's send: the response goes to finished, or the stream's context
\* is done.
SendRemote(m) ==
    \/ /\ FinishedHasRoom
       /\ finished' = Append(finished, m)
       /\ UNCHANGED <<sndMsg, sndPc, sent>>
    \/ /\ broken
       /\ UNCHANGED sendVars

\* Slip: a one-way call is answered as well.
SendLocal_Always(m) == replies' = [replies EXCEPT ![m] = Append(@, "value")]
\* DispatchLocalRequest's send: only a two-way call gets the response.  The
\* response channel has room for it, so deliver succeeds.
SendLocal(m) ==
    replies' = IF m \in LocalTwoWay THEN [replies EXCEPT ![m] = Append(@, "value")]
               ELSE replies

HandlerSend(m) ==
    /\ handlerPc[m] = "send"
    /\ \/ m \in Remote /\ SendRemote(m) /\ UNCHANGED replies
       \/ m \in LocalCalls /\ SendLocal(m) /\ UNCHANGED sendVars
    /\ handlerPc' = [handlerPc EXCEPT ![m] = "end"]
    /\ UNCHANGED <<streamVars, locked, released, started, calls, linkVars, callPc,
                   cancelled>>

\* The deferred Release.
HandlerEnd(m) ==
    /\ handlerPc[m] = "end"
    /\ Release(m)
    /\ handlerPc' = [handlerPc EXCEPT ![m] = "done"]
    /\ UNCHANGED <<streamVars, started, calls, sendVars, linkVars, localVars>>

Handler(m) ==
    \/ HandlerStart(m) \/ HandlerRelease(m) \/ HandlerCall(m) \/ HandlerCallFails(m)
    \/ HandlerReturn(m) \/ HandlerSend(m) \/ HandlerEnd(m)

-----------------------------------------------------------------------------
(* DispatchLocalRequest, in the goroutine of the caller *)

LocalCall(m) ==
    /\ m \in LocalCalls
    /\ callPc[m] = "idle"
    /\ callPc' = [callPc EXCEPT ![m] = "dispatch"]
    /\ UNCHANGED <<streamVars, locked, released, handlerVars, sendVars, linkVars, cancelled,
                   replies>>

Cancel(m) ==
    /\ m \in Cancellable \ cancelled
    /\ cancelled' = cancelled \cup {m}
    /\ UNCHANGED <<streamVars, locked, released, handlerVars, sendVars, linkVars, callPc,
                   replies>>

\* Up to the lock: a done context is reported, a one-way call confirmed.
DispatchLocalRequest(m) ==
    /\ callPc[m] = "dispatch"
    /\ \/ /\ m \in cancelled
          /\ replies' = [replies EXCEPT ![m] = Append(@, "ctx")]
          /\ callPc' = [callPc EXCEPT ![m] = "returned"]
       \/ /\ m \notin cancelled
          /\ replies' = IF m \in LocalOneWay THEN [replies EXCEPT ![m] = Append(@, "sent")]
                        ELSE replies
          /\ callPc' = [callPc EXCEPT ![m] = "lock"]
    /\ UNCHANGED <<streamVars, locked, released, handlerVars, sendVars, linkVars,
                   cancelled>>

LocalLock(m) ==
    /\ callPc[m] = "lock"
    /\ ~locked["local"]
    /\ locked' = [locked EXCEPT !["local"] = TRUE]
    /\ handlerPc' = [handlerPc EXCEPT ![m] = "spawned"]
    /\ callPc' = [callPc EXCEPT ![m] = "returned"]
    /\ UNCHANGED <<streamVars, released, started, calls, sendVars, linkVars, cancelled,
                   replies>>

-----------------------------------------------------------------------------
\* NodeStream locks the mutex before its first Recv.
Init ==
    /\ inbox = <<>> /\ arrived = {} /\ received = <<>> /\ loopPc = "recv"
    /\ locked = [d \in {"stream", "local"} |-> d = "stream"]
    /\ released = {}
    /\ handlerPc = [m \in Requests |-> "none"]
    /\ started = <<>> /\ calls = {}
    /\ finished = <<>> /\ sndMsg = NoMsg /\ sndPc = "select" /\ sent = {}
    /\ broken = FALSE /\ detached = FALSE
    /\ callPc = [m \in LocalCalls |-> "idle"]
    /\ cancelled = {}
    /\ replies = [m \in LocalCalls |-> <<>>]

Next ==
    \/ Loop \/ Sending \/ Break \/ Detach
    \/ \E m \in Requests : Arrive(m) \/ Handler(m)
    \/ \E m \in LocalCalls :
          LocalCall(m) \/ Cancel(m) \/ DispatchLocalRequest(m) \/ LocalLock(m)

Spec == Init /\ [][Next]_vars

(***************************************************************************)
(* Goroutines keep running, handlers come to an end, and a peer answers    *)
(* the calls it gets on a stream that works.  A goroutine that waits for a *)
(* mutex or for room in a channel competes with finitely many others, so   *)
(* weak fairness is enough.                                                *)
(***************************************************************************)
Fairness ==
    /\ WF_vars(Loop) /\ WF_vars(Sending)
    /\ \A m \in Requests : WF_vars(Handler(m)) /\ WF_vars(m \in calls /\ Arrive(m))
    /\ \A m \in LocalCalls : WF_vars(DispatchLocalRequest(m)) /\ WF_vars(LocalLock(m))

FairSpec == Spec /\ Fairness

-----------------------------------------------------------------------------
(* Properties *)

(* The finished channel holds no more than its buffer and the one response that
   is being handed over, and every table has its type.                       *)
TypeOK ==
    /\ inbox \in Seq([kind : {"request", "answer"}, req : Remote])
    /\ arrived \subseteq Remote /\ received \in Seq(Remote)
    /\ loopPc \in {"recv", "lock", "returned"}
    /\ locked \in [{"stream", "local"} -> BOOLEAN]
    /\ released \subseteq Requests
    /\ handlerPc \in [Requests -> {"none", "spawned", "run", "call", "reply", "send", "end",
                                   "done"}]
    /\ started \in Seq(Remote) /\ calls \subseteq Nested
    /\ finished \in Seq(Remote) /\ Len(finished) <= FinishedCap + 1
    /\ sndMsg \in Remote \cup {NoMsg} /\ sndPc \in {"select", "enqueue", "exited"}
    /\ sent \subseteq Remote
    /\ broken \in BOOLEAN /\ detached \in BOOLEAN
    /\ callPc \in [LocalCalls -> {"idle", "dispatch", "lock", "returned"}]
    /\ cancelled \subseteq Cancellable
    /\ replies \in [LocalCalls -> Seq({"value", "sent", "ctx"})]

\* The handler of m has not given back its lock.
HasTurn(m) == handlerPc[m] # "none" /\ m \notin released

(* The two locks hand over turns: at most one handler per lock has not
   released it, the lock is held as long as it has not, and the Recv loop
   holds it itself only when no handler does.  So no handler runs beside an
   unreleased one, and Unlock is never called on an unlocked mutex.          *)
OneTurnAtATime ==
    /\ \A m, n \in Requests : HasTurn(m) /\ HasTurn(n) /\ LockOf(m) = LockOf(n) => m = n
    /\ \A m \in Requests : HasTurn(m) => locked[LockOf(m)]
    /\ loopPc = "recv" => locked["stream"] /\ \A m \in Remote : ~HasTurn(m)

(* Handlers of one stream begin in the order in which their requests were
   received, whatever they do about Release.                                 *)
HandlersInOrder ==
    /\ Len(started) <= Len(received)
    /\ \A i \in DOMAIN started : started[i] = received[i]

Contract == INSTANCE CallContract WITH
    TwoWay <- LocalTwoWay, Streaming <- {}, OneWay <- LocalOneWay, Silent <- {},
    started <- {m \in LocalCalls : callPc[m] # "idle"}, closed <- FALSE

(* In-process calls obey the contract that calls over a channel obey.        *)
LocalContract == Contract!ContractSpec

\* A handler waits for an answer that only the loop can receive, and keeps the
\* lock that the loop waits for.
WaitsWithLock == \E m \in calls : m \notin released

(* A request the peer sends is handled to its end and its response put on the
   stream.  When the stream breaks, requests not yet received and responses
   may be lost, but a handler that was started still ends.  Responses, and
   only those, are also lost when the peer's channel lost the stream that is
   still read.  One thing stops a stream for good: a handler that calls the
   peer without Release.  A two-way call on the self node is answered.       *)
RequestsServed ==
    /\ \/ <>[]WaitsWithLock
       \/ \A m \in Remote : m \in arrived ~>
             \/ /\ handlerPc[m] = "done"
                /\ Responds(m) => broken \/ detached \/ m \in sent
             \/ handlerPc[m] = "none" /\ broken
    /\ \A m \in LocalTwoWay : callPc[m] = "dispatch" /\ Responds(m) ~> replies[m] # <<>>

(* When the stream breaks the loop and the sending goroutine end.            *)
StreamEnds == broken ~> loopPc = "returned" /\ sndPc = "exited"
=============================================================================
