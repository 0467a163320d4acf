-------------------------- MODULE OutboundChannel --------------------------
(***************************************************************************)
(* The outbound channel of a node (internal/stream/channel.go) with the    *)
(* pending-call half of its router (internal/stream/router.go): callers    *)
(* and requeue goroutines that Enqueue, the sender goroutine, the receiver *)
(* goroutine, the context.AfterFunc callbacks that watch a request while   *)
(* it is being sent, and Close.  gRPC and the server are the environment.  *)
(***************************************************************************)
EXTENDS Naturals, Sequences

CONSTANTS
    TwoWay,        \* ResponseChan set, neither Oneway nor Streaming
    Streaming,     \* ResponseChan set, Streaming
    OneWay,        \* ResponseChan set, Oneway
    Forget,        \* Oneway without ResponseChan
    BackReply,     \* answers to server-initiated calls: only Ctx and Msg set
    NoReq,         \* the absence of a request
    Cancellable,   \* requests whose context the environment may cancel
    SendBuffer,    \* capacity of sendQ
    ReplyCap,      \* capacity of a streaming call's ResponseChan
    MaxReplies,    \* bound: server responses per streaming call
    MaxStreams,    \* bound: NodeStreams gRPC creates
    MaxConnDrops   \* bound: times the connection leaves the Ready state

Silent == Forget \cup BackReply
Requests == TwoWay \cup Streaming \cup OneWay \cup Silent
Streams == 1..MaxStreams
Nil == 0
\* The goroutines that may fail or requeue pending requests; the AfterFunc
\* callback of a request is named by the request.
Goroutines == {"sender", "receiver", "closer"} \cup Requests

ASSUME KindAssumption ==
    /\ TwoWay \cap (Streaming \cup OneWay \cup Silent) = {}
    /\ Streaming \cap (OneWay \cup Silent) = {}
    /\ OneWay \cap Silent = {}
    /\ Forget \cap BackReply = {}
    /\ Cancellable \subseteq Requests \ BackReply
ASSUME NameAssumption ==
    /\ NoReq \notin Requests
    /\ \A r \in Requests : r \notin {"sender", "receiver", "closer"}
ASSUME BoundAssumption ==
    /\ SendBuffer \in Nat
    /\ ReplyCap \in Nat \ {0}
    /\ MaxReplies \in Nat
    /\ MaxStreams \in Nat
    /\ MaxConnDrops \in Nat

VARIABLES
    started,      \* requests handed to Enqueue by a caller or handler
    cancelled,    \* requests whose Ctx the caller cancelled
    closed,       \* connCtx is done
    closePc,      \* closeOnceFunc
    enqPc,        \* where the Enqueue call that holds a request is
    rest,         \* what the goroutine in that call enqueues afterwards
    sendQ,        \* buffered requests
    sndPc, sndReq, sndStream, sndErr,   \* sender and its locals
    rcvPc, rcvReq, rcvStream,           \* receiver and its locals
    watchPc, watchStream,               \* AfterFunc callbacks
    stream,       \* c.stream
    ready,        \* a signal is buffered in streamReady
    pending,      \* router.pending
    failing,      \* cancel lists being answered, per goroutine
    requeue,      \* requeue lists not yet given to a goroutine
    replies,      \* everything put on each ResponseChan
    unread,       \* how much of it a streaming caller has not read
    connReady,    \* conn.GetState() = Ready
    drops,        \* how often the connection was lost
    created,      \* streams created so far
    up,           \* streams that still carry messages
    doomed,       \* streams whose context was cancelled
    wire          \* what was sent on each stream

callVars == <<started, cancelled>>
closeVars == <<closed, closePc>>
enqVars == <<enqPc, rest>>
sndVars == <<sndPc, sndReq, sndStream, sndErr>>
rcvVars == <<rcvPc, rcvReq, rcvStream>>
watchVars == <<watchPc, watchStream>>
listVars == <<failing, requeue>>
replyVars == <<replies, unread>>
netVars == <<connReady, drops, created, up, wire>>
vars == <<callVars, closeVars, enqVars, sendQ, sndVars, rcvVars, watchVars,
          stream, ready, pending, listVars, replyVars, netVars, doomed>>

-----------------------------------------------------------------------------
(* Requests and their response channels *)

HasResponseChan(r) == r \notin Silent

wantServerResponse(r) == r \in TwoWay \cup Streaming
wantSendConfirmation(r) == r \in OneWay

\* A BackReply carries connCtx as its context (RouteMessage).
CtxDone(r) == r \in cancelled \/ (r \in BackReply /\ closed)

\* The response channel of a quorum call has one slot per node, and a node
\* fills one (AtMostOneReply), so only a streaming call's channel fills up.
ChanFull(r) == r \in Streaming /\ unread[r] >= ReplyCap

deliver(r, v) ==
    \/ /\ ~ChanFull(r)
       /\ replies' = [replies EXCEPT ![r] = Append(@, v)]
       /\ unread' = [unread EXCEPT ![r] = IF r \in Streaming THEN @ + 1 ELSE @]
    \/ /\ ChanFull(r)
       /\ CtxDone(r)
       /\ UNCHANGED replyVars

replyError(r, e) ==
    IF HasResponseChan(r) THEN deliver(r, e) ELSE UNCHANGED replyVars

-----------------------------------------------------------------------------
(* Enqueue *)

\* A goroutine starts to enqueue the requests of S one after the other; the
\* order is that of a map iteration.  g holds the Enqueue calls in progress.
EnqueueBatch(g, t, S) ==
    IF S = {}
    THEN enqPc' = g /\ rest' = t
    ELSE \E q \in S : /\ enqPc' = [g EXCEPT ![q] = "check"]
                      /\ rest' = [t EXCEPT ![q] = S \ {q}]

\* The Enqueue call for r returns and its goroutine goes on with the next.
EnqueueReturn(r) ==
    EnqueueBatch([enqPc EXCEPT ![r] = "none"], [rest EXCEPT ![r] = {}], rest[r])

Call(r) ==
    /\ r \in Requests \ BackReply
    /\ r \notin started
    /\ started' = started \cup {r}
    /\ EnqueueBatch(enqPc, rest, {r})
    /\ UNCHANGED <<cancelled, closeVars, sendQ, sndVars, rcvVars, watchVars, stream,
                   ready, pending, listVars, replyVars, netVars, doomed>>

\* The outer, non-blocking select.
EnqueueCheck(r) ==
    /\ enqPc[r] = "check"
    /\ \/ /\ closed
          /\ replyError(r, "closed")
          /\ EnqueueReturn(r)
       \/ /\ ~closed
          /\ enqPc' = [enqPc EXCEPT ![r] = "select"]
          /\ UNCHANGED <<rest, replyVars>>
    /\ UNCHANGED <<callVars, closeVars, sendQ, sndVars, rcvVars, watchVars, stream,
                   ready, pending, listVars, netVars, doomed>>

\* The inner select, first case.
EnqueueClosed(r) ==
    /\ enqPc[r] = "select"
    /\ closed
    /\ replyError(r, "closed")
    /\ EnqueueReturn(r)
    /\ UNCHANGED <<callVars, closeVars, sendQ, sndVars, rcvVars, watchVars, stream,
                   ready, pending, listVars, netVars, doomed>>

SendQHasRoom == Len(sendQ) < SendBuffer

\* Slip: the newest request first.
PutInSendQ_Front(r) == sendQ' = <<r>> \o sendQ
PutInSendQ(r) == sendQ' = Append(sendQ, r)

\* The inner select, second case: the request goes into the buffer of sendQ or,
\* when sendQ has none, straight to the sender that is receiving from it.
EnqueueSend(r) ==
    /\ enqPc[r] = "select"
    /\ EnqueueReturn(r)
    /\ \/ /\ SendQHasRoom
          /\ PutInSendQ(r)
          /\ UNCHANGED <<sndVars, replyVars>>
       \/ /\ SendBuffer = 0
          /\ sndPc = "select"
          /\ sndPc' = "ensure"
          /\ sndReq' = r
          /\ UNCHANGED <<sendQ, sndStream, sndErr, replyVars>>
       \/ /\ SendBuffer = 0
          /\ sndPc = "drain"
          /\ replyError(r, "closed")
          /\ UNCHANGED <<sendQ, sndVars>>
    /\ UNCHANGED <<callVars, closeVars, rcvVars, watchVars, stream, ready, pending,
                   listVars, netVars, doomed>>

-----------------------------------------------------------------------------
(* Streams *)

\* Slip: whatever is the current stream is cancelled and cleared.
clearStream_Stale(s) ==
    IF stream # Nil
    THEN stream' = Nil /\ doomed' = doomed \cup {stream}
    ELSE UNCHANGED <<stream, doomed>>

\* clearStream(s): only the current stream is cancelled and cleared.
clearStream(s) ==
    IF stream = s
    THEN stream' = Nil /\ doomed' = doomed \cup {s}
    ELSE UNCHANGED <<stream, doomed>>

\* requeuePendingMsgs, one goroutine's step at a time: empty the router into
\* the two lists, fail the streaming requests, hand the others to a goroutine.
Retryable_All(S) == S   \* Slip: streaming requests are retried too.
Retryable(S) == S \ Streaming

RequeuePending(g) ==
    /\ failing' = [failing EXCEPT ![g] = pending \ Retryable(pending)]
    /\ requeue' = [requeue EXCEPT ![g] = Retryable(pending)]
    /\ pending' = {}

\* Slip: the two-way requests are left to a requeue that does not come.
CancelPending_Streams(g) ==
    /\ failing' = [failing EXCEPT ![g] = pending \ Retryable(pending)]
    /\ pending' = {}
    /\ UNCHANGED requeue
CancelPending(g) ==
    /\ failing' = [failing EXCEPT ![g] = pending]
    /\ pending' = {}
    /\ UNCHANGED requeue

PendingError_Closed(g) == "closed"   \* Slip: one error for all.
PendingError(g) == IF g = "closer" THEN "closed" ELSE "down"

FailOne(g) ==
    /\ \E r \in failing[g] :
          /\ replyError(r, PendingError(g))
          /\ failing' = [failing EXCEPT ![g] = @ \ {r}]
    /\ UNCHANGED <<callVars, closeVars, enqVars, sendQ, sndVars, rcvVars, watchVars,
                   stream, ready, pending, requeue, netVars, doomed>>

SpawnRequeue(g) ==
    /\ failing[g] = {}
    /\ EnqueueBatch(enqPc, rest, requeue[g])
    /\ requeue' = [requeue EXCEPT ![g] = {}]
    /\ UNCHANGED failing

-----------------------------------------------------------------------------
(* The sender goroutine *)

\* The sender is done with its request and goes back to its select.
SenderLoop ==
    /\ sndPc' = "select"
    /\ sndReq' = NoReq
    /\ sndStream' = Nil
    /\ sndErr' = "none"

\* What the sender leaves alone in every step.
SenderFrame == UNCHANGED <<callVars, closeVars, rcvVars, watchVars>>

\* ensureConnectedNodeStream: keep a stream on a Ready connection, else ask
\* gRPC for a new one, which replaces c.stream whatever it was.  gRPC refuses
\* a stream for a context that is done.
SenderEnsureStream ==
    /\ sndPc = "ensure"
    /\ \/ /\ connReady /\ stream # Nil
          /\ sndPc' = "signal"
          /\ UNCHANGED <<sndErr, stream, connReady, created, up>>
       \/ /\ ~(connReady /\ stream # Nil)
          /\ created < MaxStreams
          /\ ~closed
          /\ stream' = created + 1
          /\ created' = created + 1
          /\ up' = up \cup {created + 1}
          /\ connReady' = TRUE
          /\ sndPc' = "signal"
          /\ UNCHANGED sndErr
       \/ /\ ~(connReady /\ stream # Nil)
          /\ stream' = Nil
          /\ IF sndReq = NoReq
             THEN sndPc' = "select" /\ UNCHANGED sndErr
             ELSE sndPc' = "reply" /\ sndErr' = "conn"
          /\ UNCHANGED <<connReady, created, up>>
    /\ UNCHANGED <<enqVars, sendQ, sndReq, sndStream, ready, pending, listVars,
                   replyVars, drops, wire, doomed>>
    /\ SenderFrame

SignalReady_Missing == UNCHANGED ready   \* Slip: the receiver is not told.
SignalReady == ready' = TRUE

\* The tail of ensureStream: a non-blocking send on streamReady.
SenderSignal ==
    /\ sndPc = "signal"
    /\ SignalReady
    /\ sndPc' = IF sndReq = NoReq THEN "select" ELSE "check"
    /\ UNCHANGED <<enqVars, sendQ, sndReq, sndStream, sndErr, stream, pending,
                   listVars, replyVars, netVars, doomed>>
    /\ SenderFrame

SenderTake ==
    /\ sndPc = "select"
    /\ sendQ # <<>>
    /\ sndReq' = Head(sendQ)
    /\ sendQ' = Tail(sendQ)
    /\ sndPc' = "ensure"
    /\ UNCHANGED <<enqVars, sndStream, sndErr, stream, ready, pending, listVars,
                   replyVars, netVars, doomed>>
    /\ SenderFrame

\* The request's context and the stream are examined before registration.
SenderCheck ==
    /\ sndPc = "check"
    /\ \/ /\ CtxDone(sndReq)
          /\ sndErr' = "ctx"
          /\ sndPc' = "reply"
          /\ UNCHANGED sndStream
       \/ /\ ~CtxDone(sndReq)
          /\ stream = Nil
          /\ sndErr' = "down"
          /\ sndPc' = "reply"
          /\ UNCHANGED sndStream
       \/ /\ ~CtxDone(sndReq)
          /\ stream # Nil
          /\ sndStream' = stream
          /\ sndPc' = "register"
          /\ UNCHANGED sndErr
    /\ UNCHANGED <<enqVars, sendQ, sndReq, stream, ready, pending, listVars,
                   replyVars, netVars, doomed>>
    /\ SenderFrame

\* Register, and from here on the AfterFunc callback is armed.
SenderRegister ==
    /\ sndPc = "register"
    /\ pending' = IF wantServerResponse(sndReq) THEN pending \cup {sndReq} ELSE pending
    /\ sndPc' = "send"
    /\ UNCHANGED <<enqVars, sendQ, sndReq, sndStream, sndErr, stream, ready, listVars,
                   replyVars, netVars, doomed>>
    /\ SenderFrame

SenderSend ==
    /\ sndPc = "send"
    /\ sndStream \in up
    /\ wire' = [wire EXCEPT ![sndStream] = Append(@, sndReq)]
    /\ IF wantSendConfirmation(sndReq)
       THEN sndPc' = "confirm" /\ UNCHANGED <<sndReq, sndStream, sndErr>>
       ELSE SenderLoop
    /\ UNCHANGED <<enqVars, sendQ, stream, ready, pending, listVars,
                   replyVars, connReady, drops, created, up, doomed>>
    /\ SenderFrame

\* Send failed.  The result of clearStream is not used.
SenderSendFail ==
    /\ sndPc = "send"
    /\ sndStream \notin up
    /\ clearStream(sndStream)
    /\ sndPc' = "requeue"
    /\ UNCHANGED <<enqVars, sendQ, sndReq, sndStream, sndErr, ready, pending, listVars,
                   replyVars, netVars>>
    /\ SenderFrame

SenderRequeue ==
    /\ sndPc = "requeue"
    /\ RequeuePending("sender")
    /\ sndPc' = "fail"
    /\ UNCHANGED <<enqVars, sendQ, sndReq, sndStream, sndErr, stream, ready, replyVars,
                   netVars, doomed>>
    /\ SenderFrame

SenderAnswersFailedSend(r) == ~wantServerResponse(r)

SenderSpawn ==
    /\ sndPc = "fail"
    /\ SpawnRequeue("sender")
    /\ IF SenderAnswersFailedSend(sndReq)
       THEN /\ sndPc' = "reply"
            /\ sndErr' = IF CtxDone(sndReq) THEN "ctx" ELSE "send"
            /\ UNCHANGED <<sndReq, sndStream>>
       ELSE SenderLoop
    /\ UNCHANGED <<sendQ, stream, ready, pending, replyVars, netVars, doomed>>
    /\ SenderFrame

SenderReply ==
    /\ \/ sndPc = "reply" /\ replyError(sndReq, sndErr)
       \/ sndPc = "confirm" /\ deliver(sndReq, "sent")
    /\ SenderLoop
    /\ UNCHANGED <<enqVars, sendQ, stream, ready, pending, listVars, netVars, doomed>>
    /\ SenderFrame

\* The sender sees connCtx done and runs the deferred drainSendQ.
SenderExit ==
    /\ \/ sndPc = "select" /\ closed /\ sndPc' = "drain"
       \/ sndPc = "drain" /\ sendQ = <<>> /\ sndPc' = "exited"
    /\ UNCHANGED <<enqVars, sendQ, sndReq, sndStream, sndErr, stream, ready, pending,
                   listVars, replyVars, netVars, doomed>>
    /\ SenderFrame

SenderDrain ==
    /\ sndPc = "drain"
    /\ sendQ # <<>>
    /\ replyError(Head(sendQ), "closed")
    /\ sendQ' = Tail(sendQ)
    /\ UNCHANGED <<enqVars, sndVars, stream, ready, pending, listVars, netVars, doomed>>
    /\ SenderFrame

Sender ==
    \/ SenderEnsureStream \/ SenderSignal \/ SenderTake \/ SenderCheck
    \/ SenderRegister \/ SenderSend \/ SenderSendFail \/ SenderRequeue
    \/ SenderSpawn \/ SenderReply \/ SenderExit \/ SenderDrain
    \/ FailOne("sender")

-----------------------------------------------------------------------------
(* The receiver goroutine *)

ReceiverFrame == UNCHANGED <<cancelled, closeVars, sendQ, sndVars, watchVars, netVars>>

ReceiverGetStream ==
    /\ rcvPc = "get"
    /\ IF stream = Nil
       THEN rcvPc' = "wait" /\ UNCHANGED rcvStream
       ELSE rcvPc' = "recv" /\ rcvStream' = stream
    /\ UNCHANGED <<started, enqVars, rcvReq, stream, ready, pending, listVars, replyVars,
                   doomed>>
    /\ ReceiverFrame

ReceiverStops_Never == FALSE   \* Slip: the wait has no case for connCtx.
ReceiverStops == closed

ReceiverWake ==
    /\ rcvPc = "wait"
    /\ \/ ready /\ ready' = FALSE /\ rcvPc' = "get"
       \/ ReceiverStops /\ rcvPc' = "exited" /\ UNCHANGED ready
    /\ UNCHANGED <<started, enqVars, rcvReq, rcvStream, stream, pending, listVars,
                   replyVars, doomed>>
    /\ ReceiverFrame

\* Slip: the entry of an answered call stays.
RemovePending_Never(r) == pending' = pending
RemovePending(r) == pending' = IF r \in Streaming THEN pending ELSE pending \ {r}

\* RouteMessage and deliverPending: a response for a pending call.  The server
\* may answer what it was sent any number of times, also before the stream's
\* error is read; a response without a pending entry is dropped.
ReceiverResponse(r) ==
    /\ rcvPc = "recv"
    /\ \E i \in DOMAIN wire[rcvStream] : wire[rcvStream][i] = r
    /\ r \in pending
    /\ r \in Streaming => Len(replies[r]) < MaxReplies
    /\ RemovePending(r)
    /\ rcvReq' = r
    /\ rcvPc' = "deliver"
    /\ UNCHANGED <<started, enqVars, rcvStream, stream, ready, listVars, replyVars,
                   doomed>>
    /\ ReceiverFrame

ReceiverDeliver ==
    /\ rcvPc = "deliver"
    /\ deliver(rcvReq, "value")
    /\ rcvReq' = NoReq
    /\ rcvStream' = Nil
    /\ rcvPc' = "get"
    /\ UNCHANGED <<started, enqVars, stream, ready, pending, listVars, doomed>>
    /\ ReceiverFrame

\* RouteMessage: a server-initiated call; its handler runs in a goroutine of
\* its own and enqueues r, the answer.
ReceiverBackCall(r) ==
    /\ rcvPc = "recv"
    /\ rcvStream \in up
    /\ r \in BackReply \ started
    /\ started' = started \cup {r}
    /\ EnqueueBatch(enqPc, rest, {r})
    /\ rcvStream' = Nil
    /\ rcvPc' = "get"
    /\ UNCHANGED <<rcvReq, stream, ready, pending, listVars, replyVars, doomed>>
    /\ ReceiverFrame

\* Recv failed; whoever clears the stream requeues the pending requests.
ReceiverError ==
    /\ rcvPc = "recv"
    /\ rcvStream \notin up
    /\ clearStream(rcvStream)
    /\ rcvPc' = IF stream = rcvStream THEN "requeue" ELSE "closing"
    /\ rcvStream' = Nil
    /\ UNCHANGED <<started, enqVars, rcvReq, ready, pending, listVars,
                   replyVars>>
    /\ ReceiverFrame

ReceiverRequeue ==
    /\ rcvPc = "requeue"
    /\ RequeuePending("receiver")
    /\ rcvPc' = "fail"
    /\ UNCHANGED <<started, enqVars, rcvReq, rcvStream, stream, ready, replyVars, doomed>>
    /\ ReceiverFrame

ReceiverSpawn ==
    /\ rcvPc = "fail"
    /\ SpawnRequeue("receiver")
    /\ rcvPc' = "closing"
    /\ UNCHANGED <<started, rcvReq, rcvStream, stream, ready, pending, replyVars, doomed>>
    /\ ReceiverFrame

ReceiverCheckClosed ==
    /\ rcvPc = "closing"
    /\ rcvPc' = IF closed THEN "exited" ELSE "get"
    /\ UNCHANGED <<started, enqVars, rcvReq, rcvStream, stream, ready, pending, listVars,
                   replyVars, doomed>>
    /\ ReceiverFrame

Receiver ==
    \/ ReceiverGetStream \/ ReceiverWake \/ ReceiverDeliver \/ ReceiverError
    \/ ReceiverRequeue \/ ReceiverSpawn \/ ReceiverCheckClosed
    \/ FailOne("receiver")

-----------------------------------------------------------------------------
(* The AfterFunc callback of a request in Send *)

WatchFrame ==
    UNCHANGED <<callVars, closeVars, sendQ, sndVars, rcvVars, ready, replyVars, netVars>>

\* The context is done before stop(): the callback starts.
WatchFire(r) ==
    /\ sndPc = "send"
    /\ sndReq = r
    /\ CtxDone(r)
    /\ watchPc[r] = "off"
    /\ watchPc' = [watchPc EXCEPT ![r] = "clear"]
    /\ watchStream' = [watchStream EXCEPT ![r] = sndStream]
    /\ UNCHANGED <<enqVars, stream, pending, listVars, doomed>>
    /\ WatchFrame

WatchClear(r) ==
    /\ watchPc[r] = "clear"
    /\ clearStream(watchStream[r])
    /\ watchPc' = [watchPc EXCEPT
                     ![r] = IF stream = watchStream[r] THEN "requeue" ELSE "done"]
    /\ watchStream' = [watchStream EXCEPT ![r] = Nil]
    /\ UNCHANGED <<enqVars, pending, listVars>>
    /\ WatchFrame

WatchRequeue(r) ==
    /\ watchPc[r] = "requeue"
    /\ RequeuePending(r)
    /\ watchPc' = [watchPc EXCEPT ![r] = "fail"]
    /\ UNCHANGED <<watchStream, enqVars, stream, doomed>>
    /\ WatchFrame

WatchSpawn(r) ==
    /\ watchPc[r] = "fail"
    /\ SpawnRequeue(r)
    /\ watchPc' = [watchPc EXCEPT ![r] = "done"]
    /\ UNCHANGED <<watchStream, stream, pending, doomed>>
    /\ WatchFrame

Watch(r) ==
    WatchFire(r) \/ WatchClear(r) \/ WatchRequeue(r) \/ WatchSpawn(r) \/ FailOne(r)

-----------------------------------------------------------------------------
(* Close *)

CloseFrame ==
    UNCHANGED <<callVars, enqVars, sendQ, sndVars, rcvVars, watchVars, stream, ready,
                replyVars, drops, created, wire, doomed>>

Close ==
    /\ closePc = "open"
    /\ closed' = TRUE
    /\ closePc' = "cancel"
    /\ UNCHANGED <<pending, listVars, connReady, up>>
    /\ CloseFrame

CloseCancelPending ==
    /\ closePc = "cancel"
    /\ CancelPending("closer")
    /\ closePc' = "fail"
    /\ UNCHANGED <<closed, connReady, up>>
    /\ CloseFrame

CloseConn ==
    /\ closePc = "fail"
    /\ failing["closer"] = {}
    /\ closePc' = "done"
    /\ connReady' = FALSE
    /\ up' = {}
    /\ UNCHANGED <<closed, pending, listVars>>
    /\ CloseFrame

Closer == CloseCancelPending \/ CloseConn \/ FailOne("closer")

-----------------------------------------------------------------------------
(* The environment: callers' contexts, gRPC, readers of streaming responses *)

EnvFrame ==
    UNCHANGED <<started, closeVars, enqVars, sendQ, sndVars, rcvVars, watchVars, stream,
                ready, pending, listVars, replies, created, wire, doomed>>

Cancel(r) ==
    /\ r \in Cancellable \ cancelled
    /\ cancelled' = cancelled \cup {r}
    /\ UNCHANGED <<unread, connReady, drops, up>>
    /\ EnvFrame

Consume(r) ==
    /\ unread[r] > 0
    /\ unread' = [unread EXCEPT ![r] = @ - 1]
    /\ UNCHANGED <<cancelled, connReady, drops, up>>
    /\ EnvFrame

StreamBreak(s) ==
    /\ s \in up
    /\ up' = up \ {s}
    /\ UNCHANGED <<cancelled, unread, connReady, drops>>
    /\ EnvFrame

\* The transport is lost: gRPC leaves Ready and every stream on it fails.
ConnDrop ==
    /\ connReady
    /\ drops < MaxConnDrops
    /\ drops' = drops + 1
    /\ connReady' = FALSE
    /\ up' = {}
    /\ UNCHANGED <<cancelled, unread>>
    /\ EnvFrame

\* gRPC reconnects on its own.
ConnRecover ==
    /\ ~connReady
    /\ created > 0
    /\ closePc # "done"
    /\ connReady' = TRUE
    /\ UNCHANGED <<cancelled, unread, drops, up>>
    /\ EnvFrame

\* A stream whose context is done fails sooner or later.
StreamCancelled(s) == s \in doomed \/ closed

-----------------------------------------------------------------------------
Init ==
    /\ started = {} /\ cancelled = {}
    /\ closed = FALSE /\ closePc = "open"
    /\ enqPc = [r \in Requests |-> "none"]
    /\ rest = [r \in Requests |-> {}]
    /\ sendQ = <<>>
    /\ sndPc = "ensure" /\ sndReq = NoReq /\ sndStream = Nil /\ sndErr = "none"
    /\ rcvPc = "get" /\ rcvReq = NoReq /\ rcvStream = Nil
    /\ watchPc = [r \in Requests |-> "off"]
    /\ watchStream = [r \in Requests |-> Nil]
    /\ stream = Nil /\ ready = FALSE
    /\ pending = {}
    /\ failing = [g \in Goroutines |-> {}]
    /\ requeue = [g \in Goroutines |-> {}]
    /\ replies = [r \in Requests |-> <<>>]
    /\ unread = [r \in Requests |-> 0]
    /\ connReady = FALSE /\ drops = 0 /\ created = 0
    /\ up = {} /\ doomed = {}
    /\ wire = [s \in Streams |-> <<>>]

Next ==
    \/ Sender
    \/ Receiver
    \/ Close
    \/ Closer
    \/ ConnDrop
    \/ ConnRecover
    \/ \E r \in Requests :
          \/ Call(r) \/ Cancel(r) \/ Consume(r)
          \/ EnqueueCheck(r) \/ EnqueueClosed(r) \/ EnqueueSend(r)
          \/ ReceiverResponse(r) \/ ReceiverBackCall(r)
          \/ Watch(r)
    \/ \E s \in Streams : StreamBreak(s)

Spec == Init /\ [][Next]_vars

(***************************************************************************)
(* Every goroutine keeps running.  Goroutines blocked on a channel send    *)
(* are served first come, first served, hence strong fairness of           *)
(* EnqueueSend; the server answers what it keeps being able to answer.     *)
(* Callers, contexts, Close and the network owe nothing.                   *)
(***************************************************************************)
Fairness ==
    /\ WF_vars(Sender) /\ WF_vars(Receiver) /\ WF_vars(Closer)
    /\ \A r \in Requests :
          /\ WF_vars(EnqueueCheck(r) \/ EnqueueClosed(r))
          /\ SF_vars(EnqueueSend(r))
    /\ \A r \in Cancellable \cup BackReply : WF_vars(Watch(r))
    /\ \A r \in TwoWay \cup Streaming : SF_vars(ReceiverResponse(r))
    /\ \A s \in Streams : WF_vars(StreamCancelled(s) /\ StreamBreak(s))

FairSpec == Spec /\ Fairness

-----------------------------------------------------------------------------
(* Properties *)

Contract == INSTANCE CallContract

Errors == Contract!Errors
ReplyValues == {"value", "sent"} \cup Errors

CallTypes ==
    /\ started \subseteq Requests
    /\ cancelled \subseteq Cancellable
    /\ closed \in BOOLEAN
    /\ closePc \in {"open", "cancel", "fail", "done"}

QueueTypes ==
    /\ enqPc \in [Requests -> {"none", "check", "select"}]
    /\ rest \in [Requests -> SUBSET Requests]
    /\ sendQ \in Seq(Requests) /\ Len(sendQ) <= SendBuffer
    /\ pending \subseteq Requests
    /\ failing \in [Goroutines -> SUBSET Requests]
    /\ requeue \in [Goroutines -> SUBSET Requests]

GoroutineTypes ==
    /\ sndPc \in {"ensure", "signal", "select", "check", "register", "send", "confirm",
                  "requeue", "fail", "reply", "drain", "exited"}
    /\ sndReq \in Requests \cup {NoReq}
    /\ sndStream \in Streams \cup {Nil}
    /\ sndErr \in {"none", "conn", "ctx", "down", "send"}
    /\ rcvPc \in {"get", "wait", "recv", "deliver", "requeue", "fail", "closing", "exited"}
    /\ rcvReq \in Requests \cup {NoReq}
    /\ rcvStream \in Streams \cup {Nil}
    /\ watchPc \in [Requests -> {"off", "clear", "requeue", "fail", "done"}]
    /\ watchStream \in [Requests -> Streams \cup {Nil}]

ReplyTypes ==
    /\ replies \in [Requests -> Seq(ReplyValues)]
    /\ unread \in [Requests -> Nat]

StreamTypes ==
    /\ stream \in Streams \cup {Nil}
    /\ ready \in BOOLEAN
    /\ connReady \in BOOLEAN
    /\ drops \in 0..MaxConnDrops
    /\ created \in 0..MaxStreams
    /\ up \subseteq Streams
    /\ doomed \subseteq Streams
    /\ wire \in [Streams -> Seq(Requests)]

(* sendQ never holds more than its buffer, a stream number is never above the
   last stream, and every list holds requests only.                          *)
TypeOK == CallTypes /\ QueueTypes /\ GoroutineTypes /\ ReplyTypes /\ StreamTypes

\* The sender's own copy of its request is the one that will be answered: it
\* was not given to the router.
SenderHolds(r) ==
    /\ sndReq = r
    /\ \/ sndPc \in {"ensure", "signal", "check", "register", "confirm", "reply"}
       \/ sndPc \in {"send", "requeue", "fail"} /\ ~wantServerResponse(r)

InEnqueue(r) == enqPc[r] # "none"
InRest(r) == \E q \in Requests : r \in rest[q]
InSendQ(r) == \E i \in DOMAIN sendQ : sendQ[i] = r
InFailing(r) == \E g \in Goroutines : r \in failing[g]
InRequeue(r) == \E g \in Goroutines : r \in requeue[g]
ReceiverHolds(r) == rcvReq = r /\ rcvPc = "deliver" /\ r \notin Streaming

\* The request is in the hands of some goroutine, queue or table.
Held(r) ==
    \/ InEnqueue(r) \/ InRest(r) \/ InSendQ(r) \/ SenderHolds(r) \/ r \in pending
    \/ InFailing(r) \/ InRequeue(r) \/ ReceiverHolds(r)

Answered(r) ==
    IF r \in Streaming THEN Contract!HasError(replies[r]) ELSE replies[r] # <<>>

OwnedOnce(r) ==
    /\ r \notin started => ~Held(r) /\ ~Answered(r)
    /\ InEnqueue(r) =>
          ~(\/ InRest(r) \/ InSendQ(r) \/ SenderHolds(r) \/ r \in pending
            \/ InFailing(r) \/ InRequeue(r) \/ ReceiverHolds(r) \/ Answered(r))
    /\ InRest(r) =>
          ~(\/ InSendQ(r) \/ SenderHolds(r) \/ r \in pending \/ InFailing(r)
            \/ InRequeue(r) \/ ReceiverHolds(r) \/ Answered(r))
    /\ InSendQ(r) =>
          ~(\/ SenderHolds(r) \/ r \in pending \/ InFailing(r) \/ InRequeue(r)
            \/ ReceiverHolds(r) \/ Answered(r))
    /\ SenderHolds(r) =>
          ~(\/ r \in pending \/ InFailing(r) \/ InRequeue(r) \/ ReceiverHolds(r)
            \/ Answered(r))
    /\ r \in pending =>
          ~(InFailing(r) \/ InRequeue(r) \/ ReceiverHolds(r) \/ Answered(r))
    /\ InFailing(r) => ~(InRequeue(r) \/ ReceiverHolds(r) \/ Answered(r))
    /\ InRequeue(r) => ~(ReceiverHolds(r) \/ Answered(r))
    /\ ReceiverHolds(r) => ~Answered(r)

\* No request is twice in sendQ, or on the lists of two goroutines.
ListsDistinct ==
    /\ \A i, j \in DOMAIN sendQ : sendQ[i] = sendQ[j] => i = j
    /\ \A q, t \in Requests : q # t => rest[q] \cap rest[t] = {}
    /\ \A g, h \in Goroutines :
          g # h => failing[g] \cap failing[h] = {} /\ requeue[g] \cap requeue[h] = {}

(* A request is in at most one place: not yet issued, in an Enqueue call, in
   the list of a requeue goroutine, in sendQ, with the sender, in the router,
   on one goroutine's cancel list, on one goroutine's requeue list, with the
   receiver, or answered.  Whoever takes it out of the router owns its reply. *)
OneOwner == ListsDistinct /\ \A r \in Requests : OwnedOnce(r)

SenderLocals ==
    /\ sndPc \in {"select", "drain", "exited"} => sndReq = NoReq
    /\ sndReq = NoReq => sndPc \in {"ensure", "signal", "select", "drain", "exited"}
    /\ sndPc \in {"register", "send"} => sndStream # Nil
    /\ sndPc = "confirm" => sndReq \in OneWay
    /\ sndPc = "reply" => sndErr # "none" /\ (sndErr = "ctx" => CtxDone(sndReq))
    /\ sndPc \in {"drain", "exited"} => closed

ReceiverLocals ==
    /\ rcvPc = "recv" => rcvStream # Nil
    /\ rcvPc = "deliver" => rcvReq \in (TwoWay \cup Streaming) \cap started

ListLocals ==
    /\ pending \subseteq TwoWay \cup Streaming
    /\ \A g \in Goroutines : failing[g] \subseteq TwoWay \cup Streaming
    /\ \A g \in Goroutines : requeue[g] \subseteq TwoWay
    /\ closePc # "open" => closed
    /\ failing["closer"] # {} => closePc = "fail"
    /\ requeue["closer"] = {}
    /\ failing["sender"] # {} \/ requeue["sender"] # {} => sndPc = "fail"
    /\ failing["receiver"] # {} \/ requeue["receiver"] # {} => rcvPc = "fail"
    /\ \A r \in Requests :
          /\ failing[r] # {} \/ requeue[r] # {} => watchPc[r] = "fail"
          /\ watchPc[r] = "clear" => watchStream[r] # Nil

(* What the program counters say about the locals and lists they go with: a
   list is not empty only while its goroutine works on it, so requeuing never
   overwrites requests, and the sender's error is the one it will report.    *)
LocalsMatchPc == SenderLocals /\ ReceiverLocals /\ ListLocals

(* The reply that ends a call comes at most once, whatever the order in which
   a response, a Send error, a Recv error, a cancellation and Close meet: a
   second one would take the slot of another node in the quorum call's
   response channel, or block the goroutine that delivers it.               *)
AtMostOneReply ==
    /\ \A r \in Requests \ Streaming : Len(replies[r]) <= 1
    /\ \A r \in Streaming : \A i, j \in DOMAIN replies[r] :
          replies[r][i] \in Errors /\ replies[r][j] \in Errors => i = j

\* Someone who is still there holds the request.  What is in sendQ is no longer
\* looked at when the sender has left, what is in the router not when Close
\* has emptied it.  (Before that the router holds a call also when the stream
\* that carried it is gone; how long is LostStreamRequeues.)
Tended(r) ==
    \/ InEnqueue(r) \/ InRest(r) \/ SenderHolds(r) \/ InFailing(r) \/ InRequeue(r)
    \/ ReceiverHolds(r)
    \/ InSendQ(r) /\ sndPc # "exited"
    \/ r \in pending /\ closePc \in {"open", "cancel"}

(* No request with a response channel is dropped: whoever holds it answers it
   or hands it on to someone who will.  Three exceptions: a streaming call with
   a full channel and a done context loses its error; the inner select of an
   Enqueue that overlaps Close may choose sendQ when drainSendQ has returned,
   which a comment of Enqueue rules out; and the sender may Register a request
   that it had taken before Close when CancelPending has emptied the router.
   While the channel is open there is only the first.                         *)
NoRequestDropped ==
    [][\A r \in Requests \ Silent :
          Tended(r) \/ r \in started' \ started =>
              \/ Tended(r)' \/ Answered(r)'
              \/ r \in Streaming /\ CtxDone(r)'
              \/ closed /\ sndPc = "exited" /\ enqPc[r] = "select"
              \/ /\ closed /\ closePc \in {"fail", "done"}
                 /\ sndPc = "register" /\ sndReq = r]_vars

(* A receiver that waits for a stream is woken when there is one: the signal
   is in streamReady or the sender is about to put it there.                 *)
WakeupNotLost ==
    rcvPc = "wait" /\ stream # Nil => ready \/ sndPc = "signal"

(* The channel cancels a stream only when it is down already or on account of
   a request whose context was done while it was in Send on that very stream: a
   goroutine left over from an older stream never cancels the stream that
   replaced it.  The stream may be a working one that carries other requests:
   stop() is advisory, and a callback that started during Send may run after
   Send has returned.                                                         *)
OnlyOwnStreamCancelled ==
    [][\A s \in doomed' \ doomed :
          s \notin up \/ \E r \in Requests : watchStream[r] = s /\ CtxDone(r)]_vars

(* Only a two-way request is ever put on the wire again: a one-way request
   or a streaming call is sent at most once, on all streams together.        *)
ResendOnlyTwoWay ==
    \A r \in Requests \ TwoWay : \A s, t \in Streams :
        \A i \in DOMAIN wire[s], j \in DOMAIN wire[t] :
            wire[s][i] = r /\ wire[t][j] = r => s = t /\ i = j

(* The channel implements the contract of CallContract.                      *)
ImplementsContract == Contract!ContractSpec

SentOn(r, s) == \E i \in DOMAIN wire[s] : wire[s][i] = r

\* The connection was lost, the streams that carried r with it, and the sender
\* has replaced them: no clearStream of theirs succeeds any more.
Stranded(r) ==
    /\ drops > 0
    /\ r \in pending
    /\ \E s \in Streams : SentOn(r, s)
    /\ \A s \in Streams : SentOn(r, s) => s \notin up /\ s # stream


(* After Close the sender and the receiver end and Close returns, and every
   call that is in the router when Close starts to empty it is answered,
   whoever takes it out: Close, a requeue or a response.  (A call that the
   sender registers after CancelPending is not among them: Send may still
   succeed and nobody looks at the router again.)                            *)
CloseCompletes ==
    /\ []<>(closed => sndPc = "exited" /\ rcvPc = "exited" /\ closePc = "done")
    /\ \A r \in TwoWay : r \in pending /\ closePc = "cancel" ~> replies[r] # <<>>

-----------------------------------------------------------------------------
(* What the comments of the code say and the code does not do *)

(* channel.go: if the stream goes down, the receiver requeues the pending
   requests; so none stays pending with every stream that carried it down.   *)
LostStreamRequeues ==
    \A r \in TwoWay :
        /\ r \in pending
        /\ \A s \in Streams : SentOn(r, s) => s \notin up
        ~> r \notin pending \/ closed
=============================================================================
