---------------------- MODULE OutboundChannelDelivery ----------------------
(***************************************************************************)
(* Proof that OutboundChannel hands every request on until it is answered, *)
(* loses no wake-up, sends again only what may be sent again, keeps the    *)
(* order of a caller's requests on the first stream, cancels no stream on  *)
(* account of another one, and implements CallContract.  OneOwner says     *)
(* that a request is in at most one place; here it is shown to be in at    *)
(* least one until it is answered, for any number of requests, streams and *)
(* goroutines.                                                             *)
(***************************************************************************)
EXTENDS OutboundChannelProofs, CallerOrder

\* The prover of every leaf that names no other.
USE Zenon

\* A goroutine that enqueues a list of requests is in an Enqueue call.
RestServed == \A r \in Requests : enqPc[r] = "none" => rest[r] = {}

\* A request has its answer, or somebody will give it one, or nobody reads it.
Settled(r) == Answered(r) \/ Held(r) \/ (r \in Streaming /\ CtxDone(r))

Kept(r) == r \in started /\ HasResponseChan(r) => Settled(r)

-----------------------------------------------------------------------------
(* Where the requests of a step go *)

\* A context that is done stays done.
LEMMA CtxStays ==
    ASSUME Next PROVE cancelled \subseteq cancelled' /\ (closed => closed')
<1>1. ASSUME Sender PROVE UNCHANGED <<cancelled, closed>>
  BY <1>1 DEF Sender, SenderFrame, SenderEnsureStream, SenderSignal, SenderTake, SenderCheck,
     SenderRegister, SenderSend, SenderSendFail, SenderRequeue, SenderSpawn, SenderReply,
     SenderExit, SenderDrain, FailOne, callVars, closeVars
<1>2. ASSUME Receiver PROVE UNCHANGED <<cancelled, closed>>
  BY <1>2 DEF Receiver, ReceiverFrame, ReceiverGetStream, ReceiverWake, ReceiverDeliver,
     ReceiverError, ReceiverRequeue, ReceiverSpawn, ReceiverCheckClosed, FailOne, callVars,
     closeVars
<1>3. ASSUME Close \/ Closer PROVE UNCHANGED cancelled /\ (closed => closed')
  BY <1>3, SMT DEF Close, Closer, CloseFrame, CloseCancelPending, CloseConn, FailOne, callVars,
     closeVars
<1>4. ASSUME NEW r \in Requests,
             \/ Call(r) \/ EnqueueCheck(r) \/ EnqueueClosed(r) \/ EnqueueSend(r)
             \/ ReceiverResponse(r) \/ ReceiverBackCall(r) \/ Watch(r)
      PROVE  UNCHANGED <<cancelled, closed>>
  BY <1>4 DEF Call, EnqueueCheck, EnqueueClosed, EnqueueSend, ReceiverResponse,
     ReceiverBackCall, ReceiverFrame, Watch, WatchFire, WatchClear, WatchRequeue, WatchSpawn,
     WatchFrame, FailOne, callVars, closeVars
<1>5. ASSUME \/ ConnDrop \/ ConnRecover \/ \E s \in Streams : StreamBreak(s)
             \/ \E r \in Requests : Cancel(r) \/ Consume(r)
      PROVE  cancelled \subseteq cancelled' /\ closed' = closed
  BY <1>5 DEF ConnDrop, ConnRecover, StreamBreak, Cancel, Consume, EnvFrame, closeVars
<1> QED BY <1>1, <1>2, <1>3, <1>4, <1>5, SMT DEF Next

\* A request that was issued stays issued.
LEMMA StartedGrows == ASSUME Next PROVE started \subseteq started'
<1>1. ASSUME Sender PROVE started' = started
  BY <1>1 DEF Sender, SenderFrame, SenderEnsureStream, SenderSignal, SenderTake, SenderCheck,
     SenderRegister, SenderSend, SenderSendFail, SenderRequeue, SenderSpawn, SenderReply,
     SenderExit, SenderDrain, FailOne, callVars
<1>2. ASSUME Receiver PROVE started' = started
  BY <1>2 DEF Receiver, ReceiverGetStream, ReceiverWake, ReceiverDeliver, ReceiverError,
     ReceiverRequeue, ReceiverSpawn, ReceiverCheckClosed, FailOne, callVars
<1>3. ASSUME \/ Close \/ Closer \/ ConnDrop \/ ConnRecover \/ \E s \in Streams : StreamBreak(s)
             \/ \E r \in Requests : Cancel(r) \/ Consume(r)
      PROVE  started' = started
  BY <1>3 DEF Close, Closer, CloseFrame, CloseCancelPending, CloseConn, FailOne, callVars,
     ConnDrop, ConnRecover, StreamBreak, Cancel, Consume, EnvFrame
<1>4. ASSUME NEW r \in Requests,
             \/ Call(r) \/ EnqueueCheck(r) \/ EnqueueClosed(r) \/ EnqueueSend(r)
             \/ ReceiverResponse(r) \/ ReceiverBackCall(r) \/ Watch(r)
      PROVE  started \subseteq started'
  BY <1>4 DEF Call, EnqueueCheck, EnqueueClosed, EnqueueSend, ReceiverResponse,
     ReceiverBackCall, Watch, WatchFire, WatchClear, WatchRequeue, WatchSpawn, WatchFrame,
     FailOne, callVars
<1> QED BY <1>1, <1>2, <1>3, <1>4 DEF Next

\* What was put on a response channel stays there, and an error or the only
\* response is an answer unless a streaming caller has stopped reading.
LEMMA DeliverAnswersCall ==
    ASSUME ReplyTypes, NEW r \in Requests, NEW v \in ReplyValues,
           deliver(r, v) \/ replyError(r, v)
    PROVE  /\ \A q \in Requests : Answered(q) => Answered(q)'
           /\ HasResponseChan(r) /\ (r \in Streaming => v \in Errors) =>
                 Answered(r)' \/ (r \in Streaming /\ CtxDone(r))
<1>1. CASE UNCHANGED replyVars
  <2>1. \A q \in Requests : Answered(q) => Answered(q)'
    BY <1>1 DEF replyVars, Answered
  <2>2. replies' = replies
    BY <1>1 DEF replyVars
  <2>3. HasResponseChan(r) => deliver(r, v)
    BY DEF replyError
  <2>4. replies[r] \in Seq(ReplyValues) /\ replies \in [Requests -> Seq(ReplyValues)]
    BY DEF ReplyTypes
  <2>5. Len(Append(replies[r], v)) = Len(replies[r]) + 1
    BY <2>4, SMT
  <2>6. replies' # [replies EXCEPT ![r] = Append(@, v)]
    <3>1. Len(replies[r]) \in Nat
      BY <2>4, SMT
    <3>2. Append(replies[r], v) # replies[r]
      BY <2>5, <3>1, SMT
    <3> QED BY <2>2, <2>4, <3>2
  <2>7. HasResponseChan(r) => r \in Streaming /\ CtxDone(r)
    BY <2>3, <2>6 DEF deliver, ChanFull
  <2> QED BY <2>1, <2>7
<1>2. CASE replies' = [replies EXCEPT ![r] = Append(@, v)]
  <2>1. /\ replies[r] \in Seq(ReplyValues)
        /\ replies'[r] = Append(replies[r], v)
        /\ \A q \in Requests \ {r} : replies'[q] = replies[q]
    BY <1>2 DEF ReplyTypes
  <2>2. /\ replies'[r] # <<>>
        /\ \A i \in DOMAIN replies[r] : i \in DOMAIN replies'[r] /\ replies'[r][i] = replies[r][i]
        /\ \E i \in DOMAIN replies'[r] : replies'[r][i] = v
    <3>1. \A i \in DOMAIN replies[r] : i \in DOMAIN replies'[r] /\ replies'[r][i] = replies[r][i]
      BY <2>1, SMT
    <3>2. Len(replies[r]) + 1 \in DOMAIN replies'[r] /\ replies'[r][Len(replies[r]) + 1] = v
      BY <2>1, SMT
    <3>3. replies'[r] # <<>>
      BY <3>2, SMT
    <3> QED BY <3>1, <3>2, <3>3
  <2>3. /\ Contract!HasError(replies[r]) => Contract!HasError(replies'[r])
        /\ v \in Errors => Contract!HasError(replies'[r])
    BY <2>2 DEF Contract!HasError, Errors
  <2>4. \A q \in Requests \ {r} : Answered(q) => Answered(q)'
    BY <2>1 DEF Answered
  <2>5. Answered(r) => Answered(r)'
    BY <2>2, <2>3 DEF Answered
  <2>6. (r \in Streaming => v \in Errors) => Answered(r)'
    BY <2>2, <2>3 DEF Answered
  <2> QED BY <2>4, <2>5, <2>6
<1> QED BY <1>1, <1>2 DEF deliver, replyError

\* Every request of a batch is in its Enqueue call or in its list.
LEMMA BatchKeeps ==
    ASSUME NEW g \in [Requests -> {"none", "check", "select"}],
           NEW t \in [Requests -> SUBSET Requests],
           NEW S \in SUBSET Requests,
           EnqueueBatch(g, t, S),
           \A q \in S : t[q] = {},
           \A q \in Requests : g[q] = "none" => t[q] = {}
    PROVE  /\ RestServed'
           /\ \A q \in Requests :
                 /\ g[q] # "none" => InEnqueue(q)'
                 /\ q \in S => InEnqueue(q)' \/ InRest(q)'
                 /\ \A p \in Requests : q \in t[p] => InRest(q)'
<1>1. CASE S = {}
  BY <1>1 DEF EnqueueBatch, InEnqueue, InRest, RestServed
<1>2. ASSUME NEW p \in S, enqPc' = [g EXCEPT ![p] = "check"],
             rest' = [t EXCEPT ![p] = S \ {p}]
      PROVE  /\ RestServed'
             /\ \A q \in Requests :
                   /\ g[q] # "none" => InEnqueue(q)'
                   /\ q \in S => InEnqueue(q)' \/ InRest(q)'
                   /\ \A x \in Requests : q \in t[x] => InRest(q)'
  <2>1. /\ p \in Requests
        /\ \A x \in Requests : rest'[x] = IF x = p THEN S \ {p} ELSE t[x]
        /\ \A x \in Requests : enqPc'[x] = IF x = p THEN "check" ELSE g[x]
    BY <1>2
  <2>2. RestServed'
    BY <2>1 DEF RestServed
  <2>3. ASSUME NEW q \in Requests
        PROVE  /\ g[q] # "none" => InEnqueue(q)'
               /\ q \in S => InEnqueue(q)' \/ InRest(q)'
    BY <2>1 DEF InEnqueue, InRest
  <2>4. ASSUME NEW q \in Requests, NEW x \in Requests, q \in t[x] PROVE InRest(q)'
    BY <1>2, <2>1, <2>4 DEF InRest
  <2> QED BY <2>2, <2>3, <2>4
<1> QED BY <1>1, <1>2 DEF EnqueueBatch

\* When an Enqueue call returns, the others and the rest of its list go on.
LEMMA ReturnKeeps ==
    ASSUME QueueTypes, OneOwner, RestServed, NEW r \in Requests, EnqueueReturn(r)
    PROVE  /\ RestServed'
           /\ \A q \in Requests : /\ InEnqueue(q) /\ q # r => InEnqueue(q)'
                                  /\ InRest(q) => InEnqueue(q)' \/ InRest(q)'
<1> DEFINE g == [enqPc EXCEPT ![r] = "none"]
           t == [rest EXCEPT ![r] = {}]
<1>1. /\ g \in [Requests -> {"none", "check", "select"}]
      /\ t \in [Requests -> SUBSET Requests]
      /\ rest[r] \in SUBSET Requests
      /\ \A q \in Requests : g[q] = IF q = r THEN "none" ELSE enqPc[q]
      /\ \A q \in Requests : t[q] = IF q = r THEN {} ELSE rest[q]
  BY DEF QueueTypes
<1>2. \A q \in rest[r] : t[q] = {}
  <2> TAKE q \in rest[r]
  <2>1. q \in Requests /\ InRest(q)
    BY <1>1 DEF InRest
  <2>2. enqPc[q] = "none"
    BY <2>1 DEF OneOwner, OwnedOnce, InEnqueue
  <2> QED BY <1>1, <2>1, <2>2 DEF RestServed
<1>3. EnqueueBatch(g, t, rest[r])
  BY DEF EnqueueReturn
<1>4. \A q \in Requests : g[q] = "none" => t[q] = {}
  BY <1>1 DEF RestServed
<1> HIDE DEF g, t
<1>5. /\ RestServed'
      /\ \A q \in Requests :
            /\ g[q] # "none" => InEnqueue(q)'
            /\ q \in rest[r] => InEnqueue(q)' \/ InRest(q)'
            /\ \A p \in Requests : q \in t[p] => InRest(q)'
  BY <1>1, <1>2, <1>3, <1>4, BatchKeeps
<1>6. ASSUME NEW q \in Requests, InEnqueue(q), q # r PROVE InEnqueue(q)'
  <2>1. g[q] # "none"
    BY <1>1, <1>6 DEF InEnqueue
  <2> QED BY <1>5, <2>1
<1>7. ASSUME NEW q \in Requests, NEW p \in Requests, q \in rest[p]
      PROVE  InEnqueue(q)' \/ InRest(q)'
  BY <1>1, <1>5, <1>7
<1>8. ASSUME NEW q \in Requests, InRest(q) PROVE InEnqueue(q)' \/ InRest(q)'
  BY <1>7, <1>8 DEF InRest
<1> QED BY <1>5, <1>6, <1>8

\* The batch of a requeue goroutine is what the router held.
LEMMA SpawnKeeps ==
    ASSUME QueueTypes, OneOwner, RestServed, NEW g \in Goroutines, SpawnRequeue(g)
    PROVE  /\ RestServed'
           /\ \A q \in Requests :
                 /\ InEnqueue(q) => InEnqueue(q)'
                 /\ InRest(q) => InRest(q)'
                 /\ InFailing(q) => InFailing(q)'
                 /\ InRequeue(q) => InRequeue(q)' \/ InEnqueue(q)' \/ InRest(q)'
<1>1. /\ enqPc \in [Requests -> {"none", "check", "select"}]
      /\ rest \in [Requests -> SUBSET Requests]
      /\ requeue[g] \in SUBSET Requests
      /\ EnqueueBatch(enqPc, rest, requeue[g])
  BY DEF QueueTypes, SpawnRequeue
<1>2. \A q \in requeue[g] : rest[q] = {}
  <2> TAKE q \in requeue[g]
  <2>1. q \in Requests /\ InRequeue(q)
    BY <1>1 DEF InRequeue
  <2>2. enqPc[q] = "none"
    BY <2>1 DEF OneOwner, OwnedOnce, InEnqueue
  <2> QED BY <2>1, <2>2 DEF RestServed
<1>3. /\ RestServed'
      /\ \A q \in Requests :
            /\ enqPc[q] # "none" => InEnqueue(q)'
            /\ q \in requeue[g] => InEnqueue(q)' \/ InRest(q)'
            /\ \A p \in Requests : q \in rest[p] => InRest(q)'
  BY <1>1, <1>2, BatchKeeps DEF RestServed
<1>4. /\ failing' = failing
      /\ \A h \in Goroutines : requeue'[h] = IF h = g THEN {} ELSE requeue[h]
  BY DEF SpawnRequeue, QueueTypes
<1>5. ASSUME NEW q \in Requests
      PROVE  (InEnqueue(q) => InEnqueue(q)') /\ (InRest(q) => InRest(q)')
  BY <1>3 DEF InEnqueue, InRest
<1>6. ASSUME NEW q \in Requests
      PROVE  /\ InFailing(q) => InFailing(q)'
             /\ InRequeue(q) => InRequeue(q)' \/ InEnqueue(q)' \/ InRest(q)'
  BY <1>3, <1>4 DEF InFailing, InRequeue
<1> QED BY <1>3, <1>5, <1>6

\* A goroutine that empties the router has both lists empty before.
LEMMA RequeueKeeps ==
    ASSUME QueueTypes, NEW g \in Goroutines, failing[g] = {}, requeue[g] = {},
           RequeuePending(g) \/ CancelPending(g)
    PROVE  \A q \in Requests :
              /\ q \in pending => InFailing(q)' \/ InRequeue(q)'
              /\ InFailing(q) => InFailing(q)'
              /\ InRequeue(q) => InRequeue(q)'
<1> TAKE q \in Requests
<1>1. /\ \A h \in Goroutines \ {g} : failing'[h] = failing[h] /\ requeue'[h] = requeue[h]
      /\ q \in pending => q \in failing'[g] \/ q \in requeue'[g]
  <2>1. CASE RequeuePending(g)
    BY <2>1 DEF RequeuePending, QueueTypes
  <2>2. CASE CancelPending(g)
    BY <2>2 DEF CancelPending, QueueTypes
  <2> QED BY <2>1, <2>2
<1> QED BY <1>1 DEF InFailing, InRequeue

\* Only the head leaves sendQ.
LEMMA SendQKeeps ==
    ASSUME QueueTypes
    PROVE  /\ sendQ # <<>> /\ sendQ' = Tail(sendQ) =>
                 \A q \in Requests : InSendQ(q) => InSendQ(q)' \/ q = Head(sendQ)
           /\ \A r \in Requests : sendQ' = Append(sendQ, r) =>
                 /\ InSendQ(r)'
                 /\ \A q \in Requests : InSendQ(q) => InSendQ(q)'
<1>0. sendQ \in Seq(Requests)
  BY DEF QueueTypes
<1>1. ASSUME sendQ # <<>>, sendQ' = Tail(sendQ), NEW q \in Requests, NEW i \in DOMAIN sendQ,
             sendQ[i] = q
      PROVE  InSendQ(q)' \/ q = Head(sendQ)
  <2>1. CASE i = 1
    BY <1>0, <1>1, <2>1, SMT
  <2>2. CASE i # 1
    <3>1. i - 1 \in DOMAIN sendQ' /\ sendQ'[i - 1] = q
      BY <1>0, <1>1, <2>2, SMT
    <3> QED BY <3>1 DEF InSendQ
  <2> QED BY <2>1, <2>2
<1>2. ASSUME NEW r \in Requests, sendQ' = Append(sendQ, r)
      PROVE  /\ InSendQ(r)'
             /\ \A q \in Requests : InSendQ(q) => InSendQ(q)'
  <2>1. Len(sendQ) + 1 \in DOMAIN sendQ' /\ sendQ'[Len(sendQ) + 1] = r
    BY <1>0, <1>2, SMT
  <2>2. \A i \in DOMAIN sendQ : i \in DOMAIN sendQ' /\ sendQ'[i] = sendQ[i]
    BY <1>0, <1>2, SMT
  <2> QED BY <2>1, <2>2 DEF InSendQ
<1> QED BY <1>1, <1>2 DEF InSendQ

-----------------------------------------------------------------------------
(* One lemma per group of steps *)

\* A step that moves no request.
LEMMA KeptFrame ==
    ASSUME NEW r \in Requests, Kept(r),
           UNCHANGED <<started, enqVars, sendQ, pending, listVars, replies>>,
           cancelled \subseteq cancelled', closed => closed',
           HasResponseChan(r) /\ SenderHolds(r) => SenderHolds(r)',
           ReceiverHolds(r) => ReceiverHolds(r)'
    PROVE  Kept(r)'
<1>1. CtxDone(r) => CtxDone(r)'
  BY DEF CtxDone
<1>2. /\ InEnqueue(r) => InEnqueue(r)'
      /\ InRest(r) => InRest(r)'
      /\ InSendQ(r) => InSendQ(r)'
      /\ InFailing(r) => InFailing(r)'
      /\ InRequeue(r) => InRequeue(r)'
      /\ Answered(r) => Answered(r)'
  BY PlaceFrame
<1> QED BY <1>1, <1>2 DEF Kept, Settled, Held, HasResponseChan

\* The steps that leave every request where it is.
LEMMA KeepStill ==
    ASSUME TypeOK, LocalsMatchPc, RestServed, Next,
           \/ SenderEnsureStream \/ SenderSignal \/ SenderCheck \/ SenderSend
           \/ SenderSendFail \/ SenderExit
           \/ ReceiverGetStream \/ ReceiverWake \/ ReceiverError \/ ReceiverCheckClosed
           \/ Close \/ CloseConn \/ ConnDrop \/ ConnRecover
           \/ \E s \in Streams : StreamBreak(s)
           \/ \E r \in Requests : Cancel(r) \/ Consume(r) \/ WatchFire(r) \/ WatchClear(r),
           NEW q \in Requests, Kept(q)
    PROVE  RestServed' /\ Kept(q)'
<1> USE NameAssumption
<1> DEFINE Still == UNCHANGED <<started, enqVars, sendQ, pending, listVars, replies>>
           HoldsOn == /\ HasResponseChan(q) /\ SenderHolds(q) => SenderHolds(q)'
                      /\ ReceiverHolds(q) => ReceiverHolds(q)'
<1>1. ASSUME SenderEnsureStream PROVE Still /\ HoldsOn
  <2>1. HasResponseChan(q) /\ SenderHolds(q) => SenderHolds(q)'
    BY <1>1 DEF LocalsMatchPc, SenderHolds, wantServerResponse, SenderEnsureStream, SenderFrame, SenderLocals
  <2>2. Still /\ UNCHANGED rcvVars
    BY <1>1 DEF SenderEnsureStream, SenderFrame, SenderLoop, callVars, enqVars, listVars, replyVars
  <2> QED BY <2>1, <2>2, PlaceFrame
<1>2. ASSUME SenderSignal PROVE Still /\ HoldsOn
  <2>1. HasResponseChan(q) /\ SenderHolds(q) => SenderHolds(q)'
    BY <1>2 DEF LocalsMatchPc, SenderHolds, wantServerResponse, SenderSignal, SenderFrame, SenderLocals
  <2>2. Still /\ UNCHANGED rcvVars
    BY <1>2 DEF SenderSignal, SenderFrame, SenderLoop, callVars, enqVars, listVars, replyVars
  <2> QED BY <2>1, <2>2, PlaceFrame
<1>3. ASSUME SenderCheck PROVE Still /\ HoldsOn
  <2>1. HasResponseChan(q) /\ SenderHolds(q) => SenderHolds(q)'
    BY <1>3 DEF LocalsMatchPc, SenderHolds, wantServerResponse, SenderCheck, SenderFrame, SenderLocals
  <2>2. Still /\ UNCHANGED rcvVars
    BY <1>3 DEF SenderCheck, SenderFrame, SenderLoop, callVars, enqVars, listVars, replyVars
  <2> QED BY <2>1, <2>2, PlaceFrame
<1>4. ASSUME SenderSend PROVE Still /\ HoldsOn
  <2>1. HasResponseChan(q) /\ SenderHolds(q) => SenderHolds(q)'
    BY <1>4, KindAssumption DEF LocalsMatchPc, SenderHolds, wantServerResponse, SenderSend, SenderFrame, SenderLoop, wantSendConfirmation, HasResponseChan, Requests
  <2>2. Still /\ UNCHANGED rcvVars
    BY <1>4 DEF SenderSend, SenderFrame, SenderLoop, callVars, enqVars, listVars, replyVars
  <2> QED BY <2>1, <2>2, PlaceFrame
<1>5. ASSUME SenderSendFail PROVE Still /\ HoldsOn
  <2>1. HasResponseChan(q) /\ SenderHolds(q) => SenderHolds(q)'
    BY <1>5 DEF LocalsMatchPc, SenderHolds, wantServerResponse, SenderSendFail, SenderFrame
  <2>2. Still /\ UNCHANGED rcvVars
    BY <1>5 DEF SenderSendFail, SenderFrame, SenderLoop, callVars, enqVars, listVars, replyVars
  <2> QED BY <2>1, <2>2, PlaceFrame
<1>6. ASSUME SenderExit PROVE Still /\ HoldsOn
  <2>1. HasResponseChan(q) /\ SenderHolds(q) => SenderHolds(q)'
    BY <1>6 DEF LocalsMatchPc, SenderHolds, wantServerResponse, SenderExit, SenderFrame, SenderLocals
  <2>2. Still /\ UNCHANGED rcvVars
    BY <1>6 DEF SenderExit, SenderFrame, SenderLoop, callVars, enqVars, listVars, replyVars
  <2> QED BY <2>1, <2>2, PlaceFrame
<1>7. ASSUME ReceiverGetStream PROVE Still /\ HoldsOn
  <2>1. ReceiverHolds(q) => ReceiverHolds(q)'
    BY <1>7 DEF ReceiverGetStream, ReceiverHolds
  <2>2. Still /\ UNCHANGED sndVars
    BY <1>7 DEF ReceiverGetStream, ReceiverFrame, enqVars, listVars, replyVars
  <2> QED BY <2>1, <2>2, PlaceFrame
<1>8. ASSUME ReceiverWake PROVE Still /\ HoldsOn
  <2>1. ReceiverHolds(q) => ReceiverHolds(q)'
    BY <1>8 DEF ReceiverWake, ReceiverHolds
  <2>2. Still /\ UNCHANGED sndVars
    BY <1>8 DEF ReceiverWake, ReceiverFrame, enqVars, listVars, replyVars
  <2> QED BY <2>1, <2>2, PlaceFrame
<1>9. ASSUME ReceiverError PROVE Still /\ HoldsOn
  <2>1. ReceiverHolds(q) => ReceiverHolds(q)'
    BY <1>9 DEF ReceiverError, ReceiverHolds
  <2>2. Still /\ UNCHANGED sndVars
    BY <1>9 DEF ReceiverError, ReceiverFrame, enqVars, listVars, replyVars
  <2> QED BY <2>1, <2>2, PlaceFrame
<1>10. ASSUME ReceiverCheckClosed PROVE Still /\ HoldsOn
  <2>1. ReceiverHolds(q) => ReceiverHolds(q)'
    BY <1>10 DEF ReceiverCheckClosed, ReceiverHolds
  <2>2. Still /\ UNCHANGED sndVars
    BY <1>10 DEF ReceiverCheckClosed, ReceiverFrame, enqVars, listVars, replyVars
  <2> QED BY <2>1, <2>2, PlaceFrame
<1>11. ASSUME Close PROVE Still /\ HoldsOn
  BY <1>11, PlaceFrame DEF Close, CloseFrame, callVars, enqVars, listVars, replyVars
<1>12. ASSUME CloseConn PROVE Still /\ HoldsOn
  BY <1>12, PlaceFrame DEF CloseConn, CloseFrame, callVars, enqVars, listVars, replyVars
<1>13. ASSUME ConnDrop PROVE Still /\ HoldsOn
  BY <1>13, PlaceFrame DEF ConnDrop, EnvFrame, callVars, enqVars, listVars, replyVars
<1>14. ASSUME ConnRecover PROVE Still /\ HoldsOn
  BY <1>14, PlaceFrame DEF ConnRecover, EnvFrame, callVars, enqVars, listVars, replyVars
<1>15. ASSUME NEW s \in Streams, StreamBreak(s) PROVE Still /\ HoldsOn
  BY <1>15, PlaceFrame DEF StreamBreak, EnvFrame, enqVars, listVars
<1>16. ASSUME NEW r \in Requests, Cancel(r) \/ Consume(r) PROVE Still /\ HoldsOn
  BY <1>16, PlaceFrame DEF Cancel, Consume, EnvFrame, enqVars, listVars
<1>17. ASSUME NEW r \in Requests, WatchFire(r) \/ WatchClear(r) PROVE Still /\ HoldsOn
  BY <1>17, PlaceFrame DEF WatchFire, WatchClear, WatchFrame, callVars, enqVars, listVars,
     replyVars
<1>18. Still /\ HoldsOn
  BY <1>1, <1>2, <1>3, <1>4, <1>5, <1>6, <1>7, <1>8, <1>9, <1>10, <1>11, <1>12, <1>13, <1>14, <1>15, <1>16, <1>17
<1>19. RestServed'
  BY <1>18 DEF RestServed, enqVars
<1> QED BY <1>18, <1>19, CtxStays, KeptFrame

\* The steps of the sender that move a request.
LEMMA KeepSender ==
    ASSUME TypeOK, LocalsMatchPc, OneOwner, RestServed, Next,
           \/ SenderTake \/ SenderRegister \/ SenderRequeue \/ SenderSpawn
           \/ SenderReply \/ SenderDrain,
           NEW q \in Requests, Kept(q)
    PROVE  RestServed' /\ Kept(q)'
<1> USE NameAssumption
<1>0. QueueTypes /\ ReplyTypes /\ GoroutineTypes /\ SenderLocals /\ ListLocals
  BY DEF TypeOK, LocalsMatchPc
<1>c. CtxDone(q) => CtxDone(q)'
  BY CtxStays DEF CtxDone
<1>p. /\ UNCHANGED enqVars => RestServed'
      /\ UNCHANGED <<replies>> => (Answered(q) => Answered(q)')
  BY PlaceFrame DEF RestServed, enqVars
<1> SUFFICES /\ RestServed' /\ started' = started
             /\ Answered(q) => Answered(q)'
             /\ HasResponseChan(q) /\ Held(q) => Settled(q)'
  BY <1>c DEF Kept, Settled, HasResponseChan
<1>1. CASE SenderTake
  <2>1. /\ UNCHANGED <<started, enqVars, rcvVars, listVars, pending, replies>>
        /\ sendQ # <<>> /\ sendQ' = Tail(sendQ)
        /\ sndPc = "select" /\ sndPc' = "ensure" /\ sndReq' = Head(sendQ)
    BY <1>1 DEF SenderTake, SenderFrame, callVars, replyVars
  <2>2. q = Head(sendQ) => SenderHolds(q)'
    BY <2>1 DEF SenderHolds
  <2>3. ~SenderHolds(q)
    BY <2>1 DEF SenderHolds
  <2>4. InSendQ(q) => InSendQ(q)' \/ q = Head(sendQ)
    BY <1>0, <2>1, SendQKeeps
  <2> QED BY <1>p, <2>1, <2>2, <2>3, <2>4, PlaceFrame DEF Held, Settled
<1>2. CASE SenderRegister
  <2>1. /\ UNCHANGED <<started, enqVars, rcvVars, listVars, sendQ, replies>>
        /\ pending' = IF wantServerResponse(sndReq) THEN pending \cup {sndReq} ELSE pending
        /\ sndPc = "register" /\ sndPc' = "send" /\ sndReq' = sndReq
    BY <1>2 DEF SenderRegister, SenderFrame, callVars, replyVars
  <2>2. SenderHolds(q) => q \in pending' \/ SenderHolds(q)'
    BY <2>1 DEF SenderHolds, wantServerResponse
  <2>3. q \in pending => q \in pending'
    BY <2>1
  <2> QED BY <1>p, <2>1, <2>2, <2>3, PlaceFrame DEF Held, Settled
<1>3. CASE SenderRequeue
  <2>1. /\ UNCHANGED <<started, enqVars, rcvVars, sendQ, replies>>
        /\ sndPc = "requeue" /\ sndPc' = "fail" /\ sndReq' = sndReq
        /\ RequeuePending("sender")
    BY <1>3 DEF SenderRequeue, SenderFrame, callVars, replyVars
  <2>2. SenderHolds(q) => SenderHolds(q)'
    BY <2>1 DEF SenderHolds, wantServerResponse
  <2>3. failing["sender"] = {} /\ requeue["sender"] = {}
    BY <1>0, <2>1 DEF ListLocals
  <2>4. /\ q \in pending => InFailing(q)' \/ InRequeue(q)'
        /\ InFailing(q) => InFailing(q)'
        /\ InRequeue(q) => InRequeue(q)'
    BY <1>0, <2>1, <2>3, RequeueKeeps, GoroutineNames
  <2> QED BY <1>p, <2>1, <2>2, <2>4, PlaceFrame DEF Held, Settled
<1>4. CASE SenderSpawn
  <2>1. /\ UNCHANGED <<started, rcvVars, sendQ, pending, replies>>
        /\ sndPc = "fail" /\ SpawnRequeue("sender")
        /\ ~wantServerResponse(sndReq) => sndPc' = "reply" /\ sndReq' = sndReq
    BY <1>4 DEF SenderSpawn, SenderFrame, SenderAnswersFailedSend, callVars, replyVars
  <2>2. SenderHolds(q) => SenderHolds(q)'
    BY <2>1 DEF SenderHolds, wantServerResponse
  <2>3. /\ RestServed'
        /\ InEnqueue(q) => InEnqueue(q)'
        /\ InRest(q) => InRest(q)'
        /\ InFailing(q) => InFailing(q)'
        /\ InRequeue(q) => InRequeue(q)' \/ InEnqueue(q)' \/ InRest(q)'
    BY <1>0, <2>1, SpawnKeeps, GoroutineNames
  <2> QED BY <1>p, <2>1, <2>2, <2>3, PlaceFrame DEF Held, Settled
<1>5. CASE SenderReply
  <2>1. /\ UNCHANGED <<started, enqVars, rcvVars, sendQ, pending, listVars>>
        /\ sndPc \in {"reply", "confirm"}
        /\ \/ sndPc = "reply" /\ replyError(sndReq, sndErr)
           \/ sndPc = "confirm" /\ deliver(sndReq, "sent")
    BY <1>5 DEF SenderReply, SenderFrame, callVars
  <2>2. sndReq \in Requests
    BY <1>0, <2>1 DEF SenderLocals, GoroutineTypes
  <2>3. PICK v \in ReplyValues : /\ deliver(sndReq, v) \/ replyError(sndReq, v)
                                 /\ sndReq \in Streaming => v \in Errors
    <3>1. CASE sndPc = "reply"
      <4>1. sndErr \in Errors /\ sndErr \in ReplyValues
        BY <1>0, <3>1, ReplyNames DEF SenderLocals, GoroutineTypes
      <4> QED BY <2>1, <3>1, <4>1
    <3>2. CASE sndPc = "confirm"
      <4>1. sndReq \notin Streaming /\ "sent" \in ReplyValues
        BY <1>0, <3>2, KindAssumption, ReplyNames DEF SenderLocals
      <4> QED BY <2>1, <3>2, <4>1
    <3> QED BY <2>1, <3>1, <3>2
  <2>4. /\ Answered(q) => Answered(q)'
        /\ HasResponseChan(q) /\ SenderHolds(q) => Answered(q)' \/ (q \in Streaming /\ CtxDone(q))
    BY <1>0, <2>2, <2>3, DeliverAnswersCall DEF SenderHolds
  <2> QED BY <1>c, <1>p, <2>1, <2>4, PlaceFrame DEF Held, Settled
<1>6. CASE SenderDrain
  <2>1. /\ UNCHANGED <<started, enqVars, sndVars, rcvVars, pending, listVars>>
        /\ sendQ # <<>> /\ sendQ' = Tail(sendQ) /\ replyError(Head(sendQ), "closed")
    BY <1>6 DEF SenderDrain, SenderFrame, callVars
  <2>2. InSendQ(q) => InSendQ(q)' \/ q = Head(sendQ)
    BY <1>0, <2>1, SendQKeeps
  <2>3. Head(sendQ) \in Requests
    BY <1>0, <2>1, SendQTypes
  <2>4. "closed" \in ReplyValues /\ "closed" \in Errors
    BY ReplyNames
  <2>5. /\ Answered(q) => Answered(q)'
        /\ HasResponseChan(q) /\ q = Head(sendQ) => Answered(q)' \/ (q \in Streaming /\ CtxDone(q))
    BY <1>0, <2>1, <2>3, <2>4, DeliverAnswersCall
  <2> QED BY <1>c, <1>p, <2>1, <2>2, <2>5, PlaceFrame DEF Held, Settled
<1> QED BY <1>1, <1>2, <1>3, <1>4, <1>5, <1>6

\* The steps of the receiver, the AfterFunc callbacks and Close that move one.
LEMMA KeepOthers ==
    ASSUME TypeOK, LocalsMatchPc, OneOwner, RestServed, Next,
           \/ ReceiverDeliver \/ ReceiverRequeue \/ ReceiverSpawn \/ CloseCancelPending
           \/ \E g \in Goroutines : FailOne(g)
           \/ \E r \in Requests : ReceiverResponse(r) \/ WatchRequeue(r) \/ WatchSpawn(r),
           NEW q \in Requests, Kept(q)
    PROVE  RestServed' /\ Kept(q)'
<1>0. QueueTypes /\ ReplyTypes /\ ReceiverLocals /\ ListLocals
  BY DEF TypeOK, LocalsMatchPc
<1>c. CtxDone(q) => CtxDone(q)'
  BY CtxStays DEF CtxDone
<1>p. /\ UNCHANGED enqVars => RestServed'
      /\ UNCHANGED <<replies>> => (Answered(q) => Answered(q)')
  BY PlaceFrame DEF RestServed, enqVars
<1> SUFFICES /\ RestServed' /\ started' = started
             /\ Answered(q) => Answered(q)'
             /\ HasResponseChan(q) /\ Held(q) => Settled(q)'
  BY <1>c DEF Kept, Settled, HasResponseChan
<1>1. CASE ReceiverDeliver
  <2>1. /\ UNCHANGED <<started, enqVars, sndVars, sendQ, pending, listVars>>
        /\ rcvPc = "deliver" /\ deliver(rcvReq, "value")
    BY <1>1 DEF ReceiverDeliver, ReceiverFrame
  <2>2. rcvReq \in Requests /\ "value" \in ReplyValues
    BY <1>0, <2>1, RequestKinds, ReplyNames DEF ReceiverLocals
  <2>3. /\ Answered(q) => Answered(q)'
        /\ HasResponseChan(q) /\ ReceiverHolds(q) => Answered(q)' \/ (q \in Streaming /\ CtxDone(q))
    BY <1>0, <2>1, <2>2, DeliverAnswersCall DEF ReceiverHolds
  <2> QED BY <1>c, <1>p, <2>1, <2>3, PlaceFrame DEF Held, Settled
<1>2. ASSUME NEW g \in Goroutines, RequeuePending(g) \/ CancelPending(g),
             failing[g] = {}, requeue[g] = {},
             UNCHANGED <<started, enqVars, sndVars, sendQ, replies>>,
             ReceiverHolds(q) => ReceiverHolds(q)'
      PROVE  Held(q) => Settled(q)'
  <2>1. /\ q \in pending => InFailing(q)' \/ InRequeue(q)'
        /\ InFailing(q) => InFailing(q)'
        /\ InRequeue(q) => InRequeue(q)'
    BY <1>0, <1>2, RequeueKeeps
  <2> QED BY <1>2, <2>1, PlaceFrame DEF Held, Settled
<1>3. CASE ReceiverRequeue
  <2>1. /\ UNCHANGED <<started, enqVars, sndVars, sendQ, replies>>
        /\ rcvPc = "requeue" /\ RequeuePending("receiver")
    BY <1>3 DEF ReceiverRequeue, ReceiverFrame, replyVars
  <2>2. /\ failing["receiver"] = {} /\ requeue["receiver"] = {}
        /\ ~ReceiverHolds(q)
    BY <1>0, <2>1 DEF ListLocals, ReceiverHolds
  <2> QED BY <1>2, <1>p, <2>1, <2>2, GoroutineNames
<1>4. CASE CloseCancelPending
  <2>1. /\ UNCHANGED <<started, enqVars, sndVars, rcvVars, sendQ, replies>>
        /\ closePc = "cancel" /\ CancelPending("closer")
    BY <1>4 DEF CloseCancelPending, CloseFrame, callVars, replyVars
  <2>2. failing["closer"] = {} /\ requeue["closer"] = {}
    BY <1>0, <2>1 DEF ListLocals
  <2> QED BY <1>2, <1>p, <2>1, <2>2, GoroutineNames, PlaceFrame
<1>5. ASSUME NEW r \in Requests, WatchRequeue(r)
      PROVE  /\ RestServed' /\ started' = started
             /\ Answered(q) => Answered(q)'
             /\ HasResponseChan(q) /\ Held(q) => Settled(q)'
  <2>1. /\ UNCHANGED <<started, enqVars, sndVars, rcvVars, sendQ, replies>>
        /\ watchPc[r] = "requeue" /\ RequeuePending(r)
    BY <1>5 DEF WatchRequeue, WatchFrame, callVars, replyVars
  <2>2. failing[r] = {} /\ requeue[r] = {}
    BY <1>0, <2>1 DEF ListLocals
  <2> QED BY <1>2, <1>p, <2>1, <2>2, GoroutineNames, PlaceFrame
<1>6. ASSUME NEW g \in Goroutines, SpawnRequeue(g),
             UNCHANGED <<started, sndVars, sendQ, pending, replies>>,
             ReceiverHolds(q) => ReceiverHolds(q)'
      PROVE  RestServed' /\ (Held(q) => Settled(q)')
  <2>1. /\ RestServed'
        /\ InEnqueue(q) => InEnqueue(q)'
        /\ InRest(q) => InRest(q)'
        /\ InFailing(q) => InFailing(q)'
        /\ InRequeue(q) => InRequeue(q)' \/ InEnqueue(q)' \/ InRest(q)'
    BY <1>0, <1>6, SpawnKeeps
  <2> QED BY <1>6, <2>1, PlaceFrame DEF Held, Settled
<1>7. CASE ReceiverSpawn
  <2>1. /\ UNCHANGED <<started, sndVars, sendQ, pending, replies>>
        /\ rcvPc = "fail" /\ SpawnRequeue("receiver")
    BY <1>7 DEF ReceiverSpawn, ReceiverFrame, replyVars
  <2>2. ~ReceiverHolds(q)
    BY <2>1 DEF ReceiverHolds
  <2> QED BY <1>6, <1>p, <2>1, <2>2, GoroutineNames
<1>8. ASSUME NEW r \in Requests, WatchSpawn(r)
      PROVE  /\ RestServed' /\ started' = started
             /\ Answered(q) => Answered(q)'
             /\ HasResponseChan(q) /\ Held(q) => Settled(q)'
  <2>1. /\ UNCHANGED <<started, sndVars, rcvVars, sendQ, pending, replies>>
        /\ SpawnRequeue(r)
    BY <1>8 DEF WatchSpawn, WatchFrame, callVars, replyVars
  <2> QED BY <1>6, <1>p, <2>1, GoroutineNames, PlaceFrame
<1>9. ASSUME NEW r \in Requests, ReceiverResponse(r)
      PROVE  /\ RestServed' /\ started' = started
             /\ Answered(q) => Answered(q)'
             /\ HasResponseChan(q) /\ Held(q) => Settled(q)'
  <2>1. /\ UNCHANGED <<started, enqVars, sndVars, sendQ, listVars, replies>>
        /\ pending' = IF r \in Streaming THEN pending ELSE pending \ {r}
        /\ rcvPc = "recv" /\ rcvPc' = "deliver" /\ rcvReq' = r
    BY <1>9 DEF ReceiverResponse, RemovePending, ReceiverFrame, replyVars
  <2>2. ~ReceiverHolds(q) /\ (q \in pending => q \in pending' \/ ReceiverHolds(q)')
    BY <2>1 DEF ReceiverHolds
  <2> QED BY <1>p, <2>1, <2>2, PlaceFrame DEF Held, Settled
<1>10. ASSUME NEW g \in Goroutines, FailOne(g)
       PROVE  /\ RestServed' /\ started' = started
              /\ Answered(q) => Answered(q)'
              /\ HasResponseChan(q) /\ Held(q) => Settled(q)'
  <2>1. PICK r \in failing[g] : /\ replyError(r, PendingError(g))
                                /\ failing' = [failing EXCEPT ![g] = @ \ {r}]
    BY <1>10 DEF FailOne
  <2>2. UNCHANGED <<started, enqVars, sndVars, rcvVars, sendQ, pending, requeue>>
    BY <1>10 DEF FailOne, callVars
  <2>3. r \in Requests /\ PendingError(g) \in ReplyValues /\ PendingError(g) \in Errors
    BY <1>0, ReplyNames DEF QueueTypes, PendingError
  <2>4. /\ Answered(q) => Answered(q)'
        /\ HasResponseChan(q) /\ q = r => Answered(q)' \/ (q \in Streaming /\ CtxDone(q))
    BY <1>0, <2>1, <2>3, DeliverAnswersCall
  <2>5. \A h \in Goroutines : failing'[h] = IF h = g THEN failing[g] \ {r} ELSE failing[h]
    BY <1>0, <2>1 DEF QueueTypes
  <2>6. (InFailing(q) => InFailing(q)' \/ q = r) /\ (InRequeue(q) => InRequeue(q)')
    BY <2>2, <2>5 DEF InFailing, InRequeue
  <2> QED BY <1>c, <1>p, <2>2, <2>4, <2>6, PlaceFrame DEF Held, Settled
<1> QED BY <1>1, <1>3, <1>4, <1>5, <1>7, <1>8, <1>9, <1>10

\* The steps of callers, handlers and requeue goroutines.
LEMMA KeepEnqueue ==
    ASSUME TypeOK, LocalsMatchPc, OneOwner, RestServed, Next, NEW r \in Requests,
           \/ Call(r) \/ ReceiverBackCall(r)
           \/ EnqueueCheck(r) \/ EnqueueClosed(r) \/ EnqueueSend(r),
           NEW q \in Requests, Kept(q)
    PROVE  RestServed' /\ Kept(q)'
<1> USE NameAssumption
<1>0. QueueTypes /\ ReplyTypes /\ SenderLocals
  BY DEF TypeOK, LocalsMatchPc
<1>c. CtxDone(q) => CtxDone(q)'
  BY CtxStays DEF CtxDone
<1>1. CASE Call(r) \/ ReceiverBackCall(r)
  <2>1. /\ UNCHANGED <<sendQ, sndVars, pending, listVars, replies>>
        /\ started' = started \cup {r} /\ r \notin started
        /\ EnqueueBatch(enqPc, rest, {r})
    BY <1>1 DEF Call, ReceiverBackCall, ReceiverFrame, replyVars
  <2>2. ReceiverHolds(q) => ReceiverHolds(q)'
    BY <1>1 DEF Call, ReceiverBackCall, ReceiverHolds, rcvVars
  <2>3. rest[r] = {}
    <3>1. ~InEnqueue(r)
      BY <2>1 DEF OneOwner, OwnedOnce, Held
    <3> QED BY <3>1 DEF InEnqueue, RestServed
  <2>4. /\ RestServed'
        /\ InEnqueue(q) => InEnqueue(q)'
        /\ InRest(q) => InRest(q)'
        /\ q = r => InEnqueue(q)' \/ InRest(q)'
    <3>1. /\ enqPc \in [Requests -> {"none", "check", "select"}]
          /\ rest \in [Requests -> SUBSET Requests]
          /\ {r} \in SUBSET Requests
          /\ \A x \in {r} : rest[x] = {}
          /\ \A x \in Requests : enqPc[x] = "none" => rest[x] = {}
      BY <1>0, <2>3 DEF QueueTypes, RestServed
    <3>2. /\ RestServed'
          /\ enqPc[q] # "none" => InEnqueue(q)'
          /\ q \in {r} => InEnqueue(q)' \/ InRest(q)'
          /\ \A p \in Requests : q \in rest[p] => InRest(q)'
      BY <2>1, <3>1, BatchKeeps, SMT
    <3> QED BY <3>2 DEF InEnqueue, InRest
  <2>5. q \in started' => q \in started \/ q = r
    BY <2>1
  <2> QED BY <1>c, <2>1, <2>2, <2>4, <2>5, PlaceFrame DEF Kept, Settled, Held, HasResponseChan
<1>2. ASSUME EnqueueReturn(r), started' = started, UNCHANGED <<pending, listVars, rcvVars>>,
             Answered(q) => Answered(q)', InSendQ(q) => InSendQ(q)',
             HasResponseChan(q) /\ SenderHolds(q) => SenderHolds(q)',
             HasResponseChan(q) /\ q = r => Settled(q)'
      PROVE  RestServed' /\ Kept(q)'
  <2>1. /\ RestServed'
        /\ InEnqueue(q) => InEnqueue(q)' \/ q = r
        /\ InRest(q) => InEnqueue(q)' \/ InRest(q)'
    BY <1>0, <1>2, ReturnKeeps
  <2> QED BY <1>c, <1>2, <2>1, PlaceFrame DEF Kept, Settled, Held, HasResponseChan
<1>3. ASSUME replyError(r, "closed")
      PROVE  /\ Answered(q) => Answered(q)'
             /\ HasResponseChan(q) /\ q = r => Settled(q)'
  <2>1. "closed" \in ReplyValues /\ "closed" \in Errors
    BY ReplyNames
  <2>2. /\ Answered(q) => Answered(q)'
        /\ HasResponseChan(q) /\ q = r => Answered(q)' \/ (q \in Streaming /\ CtxDone(q))
    BY <1>0, <1>3, <2>1, DeliverAnswersCall
  <2> QED BY <1>c, <2>2 DEF Settled
<1>4. CASE EnqueueClosed(r) \/ (EnqueueCheck(r) /\ closed)
  <2>1. /\ EnqueueReturn(r) /\ replyError(r, "closed") /\ started' = started
        /\ UNCHANGED <<pending, listVars, rcvVars, sendQ, sndVars>>
    BY <1>4 DEF EnqueueClosed, EnqueueCheck, callVars
  <2> QED BY <1>2, <1>3, <2>1, PlaceFrame
<1>5. CASE EnqueueCheck(r) /\ ~closed
  <2>1. /\ UNCHANGED <<started, rest, sendQ, sndVars, rcvVars, pending, listVars, replies>>
        /\ enqPc[r] = "check" /\ enqPc' = [enqPc EXCEPT ![r] = "select"]
    BY <1>5 DEF EnqueueCheck, callVars, replyVars
  <2>2. \A x \in Requests : enqPc'[x] = "none" <=> enqPc[x] = "none"
    BY <1>0, <2>1 DEF QueueTypes
  <2>3. RestServed'
    BY <2>1, <2>2 DEF RestServed
  <2>4. (InEnqueue(q) => InEnqueue(q)') /\ (InRest(q) => InRest(q)')
    BY <2>1, <2>2 DEF InEnqueue, InRest
  <2> QED BY <1>c, <2>1, <2>3, <2>4, PlaceFrame DEF Kept, Settled, Held, HasResponseChan
<1>6. CASE EnqueueSend(r)
  <2>0. /\ EnqueueReturn(r) /\ started' = started
        /\ UNCHANGED <<pending, listVars, rcvVars>>
    BY <1>6 DEF EnqueueSend, callVars
  <2>1. CASE PutInSendQ(r) /\ UNCHANGED <<sndVars, replyVars>>
    <3>1. /\ InSendQ(q) => InSendQ(q)'
          /\ q = r => InSendQ(q)'
      BY <1>0, <2>1, SendQKeeps DEF PutInSendQ
    <3>2. replies' = replies
      BY <2>1 DEF replyVars
    <3> QED BY <1>2, <2>0, <2>1, <3>1, <3>2, PlaceFrame DEF Settled, Held
  <2>2. CASE sndPc = "select" /\ sndPc' = "ensure" /\ sndReq' = r /\ UNCHANGED <<sendQ, replyVars>>
    <3>1. ~SenderHolds(q) /\ (q = r => SenderHolds(q)')
      BY <2>2 DEF SenderHolds
    <3>2. replies' = replies /\ sendQ' = sendQ
      BY <2>2 DEF replyVars
    <3> QED BY <1>2, <2>0, <3>1, <3>2, PlaceFrame DEF Settled, Held
  <2>3. CASE replyError(r, "closed") /\ UNCHANGED <<sendQ, sndVars>>
    BY <1>2, <1>3, <2>0, <2>3, PlaceFrame
  <2> QED BY <1>6, <2>1, <2>2, <2>3 DEF EnqueueSend
<1> QED BY <1>1, <1>4, <1>5, <1>6

-----------------------------------------------------------------------------
(* Theorems *)

NoLoss == RestServed /\ \A r \in Requests : Kept(r)

\* Every step keeps each request in some place.
LEMMA NoLossNext == Inv /\ NoLoss /\ [Next]_vars => NoLoss'
<1> SUFFICES ASSUME Inv, NoLoss, [Next]_vars PROVE NoLoss'
  OBVIOUS
<1>1. CASE UNCHANGED vars
  <2>1. UNCHANGED <<callVars, closeVars, enqVars, sendQ, sndVars, rcvVars, listVars, pending,
                    replyVars>>
    BY <1>1 DEF vars
  <2>2. /\ UNCHANGED <<started, enqVars, sendQ, pending, listVars, replies>>
        /\ cancelled \subseteq cancelled' /\ (closed => closed')
    BY <2>1 DEF callVars, closeVars, replyVars
  <2>3. ASSUME NEW r \in Requests PROVE Kept(r)'
    BY <2>1, <2>2, <2>3, PlaceFrame, KeptFrame DEF NoLoss
  <2>4. RestServed'
    BY <2>1 DEF NoLoss, RestServed, enqVars
  <2> QED BY <2>3, <2>4 DEF NoLoss
<1>2. CASE Next
  <2>0. TypeOK /\ LocalsMatchPc /\ OneOwner /\ RestServed
    BY DEF Inv, NoLoss
  <2>1. ASSUME NEW q \in Requests PROVE RestServed' /\ Kept(q)'
    <3>0. Kept(q)
      BY DEF NoLoss
    <3> QED
      BY <1>2, <2>0, <3>0, KeepStill, KeepSender, KeepOthers, KeepEnqueue, GoroutineNames
      DEF Next, Sender, Receiver, Closer, Watch
  <2>2. CASE Requests = {}
    BY <2>2 DEF NoLoss, RestServed
  <2> QED BY <2>1, <2>2 DEF NoLoss
<1> QED BY <1>1, <1>2

\* How a request gets where nobody may look again, and who leaves it alone.
LEMMA PlacesFill ==
    ASSUME Inv, Next, NEW r \in Requests
    PROVE  /\ InSendQ(r)' => InSendQ(r) \/ enqPc[r] = "select"
           /\ r \in pending' => r \in pending \/ (sndPc = "register" /\ sndReq = r)
           /\ sndPc' = "exited" => sndPc = "exited" \/ sendQ' = <<>>
           /\ closePc' \in {"fail", "done"} => closePc \in {"fail", "done"} \/ pending' = {}
<1> DEFINE Queue == sendQ' = sendQ
           Router == pending' \subseteq pending
           Stays == sndPc' = "exited" => sndPc = "exited"
           Closing == closePc' = closePc
<1>1. CASE Sender
  <2>1. Closing
    BY <1>1 DEF Sender, SenderEnsureStream, SenderSignal, SenderTake, SenderCheck, SenderRegister,
       SenderSend, SenderSendFail, SenderRequeue, SenderSpawn, SenderReply, SenderExit,
       SenderDrain, SenderFrame, FailOne, closeVars
  <2>2. CASE SenderTake \/ SenderDrain
    <3>1. sendQ # <<>> /\ sendQ' = Tail(sendQ) /\ Router /\ Stays
      BY <2>2 DEF SenderTake, SenderDrain, sndVars
    <3>2. InSendQ(r)' => InSendQ(r)
      BY <3>1, SendQTail DEF Inv, TypeOK, OneOwner
    <3> QED BY <2>1, <3>1, <3>2
  <2>3. CASE SenderRegister
    BY <2>1, <2>3 DEF SenderRegister, InSendQ
  <2>4. CASE SenderExit
    BY <2>1, <2>4 DEF SenderExit, InSendQ
  <2>5. CASE \/ SenderEnsureStream \/ SenderSignal \/ SenderCheck \/ SenderSend \/ SenderSendFail
             \/ SenderRequeue \/ SenderSpawn \/ SenderReply \/ FailOne("sender")
    <3>1. Queue /\ Router /\ Stays
      BY <2>5 DEF SenderEnsureStream, SenderSignal, SenderCheck, SenderSend, SenderSendFail,
         SenderRequeue, RequeuePending, SenderSpawn, SenderReply, SenderLoop, FailOne, sndVars
    <3> QED BY <2>1, <3>1 DEF InSendQ
  <2> QED BY <1>1, <2>2, <2>3, <2>4, <2>5 DEF Sender
<1>2. CASE Receiver
  <2>1. Queue /\ Router /\ Stays /\ Closing
    BY <1>2 DEF Receiver, ReceiverGetStream, ReceiverWake, ReceiverDeliver, ReceiverError,
       ReceiverRequeue, RequeuePending, ReceiverSpawn, ReceiverCheckClosed, FailOne,
       ReceiverFrame, sndVars, closeVars
  <2> QED BY <2>1 DEF InSendQ
<1>3. CASE Close \/ Closer
  <2>1. Queue /\ Router /\ Stays
    BY <1>3 DEF Close, Closer, CloseCancelPending, CancelPending, CloseConn, FailOne, CloseFrame,
       sndVars
  <2>2. closePc' \in {"fail", "done"} => closePc \in {"fail", "done"} \/ pending' = {}
    BY <1>3 DEF Close, Closer, CloseCancelPending, CancelPending, CloseConn, FailOne, closeVars
  <2> QED BY <2>1, <2>2 DEF InSendQ
<1>4. CASE \/ ConnDrop \/ ConnRecover \/ \E s \in Streams : StreamBreak(s)
           \/ \E q \in Requests : Cancel(q) \/ Consume(q)
  <2>1. Queue /\ Router /\ Stays /\ Closing
    BY <1>4 DEF ConnDrop, ConnRecover, StreamBreak, Cancel, Consume, EnvFrame, sndVars, closeVars
  <2> QED BY <2>1 DEF InSendQ
<1>5. ASSUME NEW q \in Requests,
             \/ Call(q) \/ EnqueueCheck(q) \/ EnqueueClosed(q) \/ ReceiverResponse(q)
             \/ ReceiverBackCall(q) \/ Watch(q)
      PROVE  Queue /\ Router /\ Stays /\ Closing
  BY <1>5 DEF Call, EnqueueCheck, EnqueueClosed, ReceiverResponse, RemovePending,
     ReceiverBackCall, ReceiverFrame, Watch, WatchFire, WatchClear, WatchRequeue, RequeuePending,
     WatchSpawn, WatchFrame, FailOne, sndVars, closeVars
<1>6. ASSUME NEW q \in Requests, EnqueueSend(q)
      PROVE  /\ Router /\ Stays /\ Closing
             /\ InSendQ(r)' => InSendQ(r) \/ enqPc[r] = "select"
  <2>1. Router /\ Stays /\ Closing /\ enqPc[q] = "select"
    BY <1>6 DEF EnqueueSend, sndVars, closeVars
  <2>2. CASE Queue
    BY <2>1, <2>2 DEF InSendQ
  <2>3. CASE PutInSendQ(q)
    <3>1. ~InSendQ(q)
      BY <2>1 DEF Inv, OneOwner, OwnedOnce, InEnqueue
    <3>2. InSendQ(r)' => InSendQ(r) \/ r = q
      BY <2>3, <3>1, SendQAppend DEF PutInSendQ, Inv, TypeOK, OneOwner
    <3> QED BY <2>1, <3>2
  <2> QED BY <1>6, <2>1, <2>2, <2>3 DEF EnqueueSend
<1> HIDE DEF Queue
<1>7. Queue => (InSendQ(r)' => InSendQ(r))
  BY DEF Queue, InSendQ
<1> QED BY <1>1, <1>2, <1>3, <1>4, <1>5, <1>6, <1>7 DEF Next

(* A request with a response channel goes from hand to hand until it is
   answered; nothing is lost between Enqueue, sender, router, requeue and
   Close but what the two windows after Close let through.                   *)
THEOREM NothingDropped == Spec => NoRequestDropped
<1> DEFINE Dropless ==
        \A r \in Requests \ Silent :
            Tended(r) \/ r \in started' \ started =>
                \/ Tended(r)' \/ Answered(r)'
                \/ r \in Streaming /\ CtxDone(r)'
                \/ closed /\ sndPc = "exited" /\ enqPc[r] = "select"
                \/ /\ closed /\ closePc \in {"fail", "done"}
                   /\ sndPc = "register" /\ sndReq = r
<1>1. Init => NoLoss
  BY DEF Init, NoLoss, RestServed, Kept
<1>2. ASSUME Inv, NoLoss, Next PROVE Dropless
  <2> TAKE r \in Requests \ Silent
  <2> HAVE Tended(r) \/ r \in started' \ started
  <2>0. r \in Requests /\ HasResponseChan(r) /\ OwnedOnce(r)
    BY <1>2 DEF HasResponseChan, Inv, OneOwner
  <2>1. r \in started'
    <3>1. Tended(r) => r \in started
      BY <2>0 DEF Tended, OwnedOnce, Held
    <3> QED BY <1>2, <3>1, StartedGrows
  <2>2. Answered(r)' \/ Held(r)' \/ (r \in Streaming /\ CtxDone(r)')
    <3>1. Kept(r)'
      BY <1>2, <2>0, NoLossNext DEF NoLoss
    <3> QED BY <2>0, <2>1, <3>1 DEF Kept, Settled, HasResponseChan
  <2>3. /\ InSendQ(r) => sndPc # "exited"
        /\ r \in pending => closePc \in {"open", "cancel"}
    BY <2>0 DEF Tended, OwnedOnce, Held
  <2>4. ASSUME InSendQ(r)', sndPc' = "exited"
        PROVE  closed /\ sndPc = "exited" /\ enqPc[r] = "select"
    <3>1. sendQ' # <<>>
      BY <2>4, SMT DEF InSendQ
    <3>2. sndPc = "exited" /\ enqPc[r] = "select"
      BY <1>2, <2>0, <2>3, <2>4, <3>1, PlacesFill
    <3> QED BY <1>2, <3>2 DEF Inv, LocalsMatchPc, SenderLocals
  <2>5. ASSUME r \in pending', closePc' \in {"fail", "done"}
        PROVE  closed /\ closePc \in {"fail", "done"} /\ sndPc = "register" /\ sndReq = r
    <3>1. closePc \in {"fail", "done"}
      BY <1>2, <2>0, <2>5, PlacesFill
    <3>2. sndPc = "register" /\ sndReq = r
      BY <1>2, <2>0, <2>3, <2>5, <3>1, PlacesFill
    <3> QED BY <1>2, <3>1, <3>2 DEF Inv, LocalsMatchPc, ListLocals
  <2>6. closePc' \in {"open", "cancel"} \/ closePc' \in {"fail", "done"}
    BY <1>2, TypeStep DEF Inv, TypeOK, CallTypes
  <2> QED BY <2>2, <2>4, <2>5, <2>6 DEF Tended, Held
<1>3. Inv /\ NoLoss /\ [Next]_vars => [Dropless]_vars
  BY <1>2
<1> QED BY <1>1, <1>3, NoLossNext, Invariance, PTL DEF Spec, NoRequestDropped

(* The receiver never sleeps through a new stream.                           *)
THEOREM WakeupKept == Spec => []WakeupNotLost
<1>1. Init => WakeupNotLost
  BY DEF Init, WakeupNotLost
<1>2. WakeupNotLost /\ [Next]_vars => WakeupNotLost'
  <2> SUFFICES ASSUME WakeupNotLost, [Next]_vars PROVE WakeupNotLost'
    OBVIOUS
  <2> USE DEF WakeupNotLost
  <2>1. ASSUME UNCHANGED <<rcvPc, stream, ready, sndPc>> PROVE WakeupNotLost'
    BY <2>1
  <2>2. CASE Sender
    <3>1. CASE SenderEnsureStream
      BY <3>1 DEF SenderEnsureStream, SenderFrame, rcvVars
    <3>2. CASE SenderSignal
      BY <3>2 DEF SenderSignal, SignalReady
    <3>3. CASE SenderSendFail
      BY <3>3 DEF SenderSendFail, clearStream, SenderFrame, rcvVars
    <3>4. CASE \/ SenderTake \/ SenderCheck \/ SenderRegister \/ SenderSend \/ SenderRequeue
               \/ SenderSpawn \/ SenderReply \/ SenderExit \/ SenderDrain
      <4>1. sndPc # "signal" /\ UNCHANGED <<rcvPc, stream, ready>>
        BY <3>4 DEF SenderTake, SenderCheck, SenderRegister, SenderSend, SenderRequeue,
           SenderSpawn, SenderReply, SenderExit, SenderDrain, SenderFrame, rcvVars
      <4> QED BY <4>1
    <3>5. CASE FailOne("sender")
      BY <2>1, <3>5 DEF FailOne, sndVars, rcvVars
    <3> QED BY <2>2, <3>1, <3>2, <3>3, <3>4, <3>5 DEF Sender
  <2>3. CASE Receiver
    <3>1. CASE ReceiverGetStream
      BY <3>1 DEF ReceiverGetStream
    <3>2. CASE \/ ReceiverWake \/ ReceiverDeliver \/ ReceiverError \/ ReceiverRequeue
               \/ ReceiverSpawn \/ ReceiverCheckClosed
      <4>1. rcvPc' # "wait"
        BY <3>2 DEF ReceiverWake, ReceiverDeliver, ReceiverError, ReceiverRequeue, ReceiverSpawn,
           ReceiverCheckClosed
      <4> QED BY <4>1
    <3>3. CASE FailOne("receiver")
      BY <2>1, <3>3 DEF FailOne, sndVars, rcvVars
    <3> QED BY <2>3, <3>1, <3>2, <3>3 DEF Receiver
  <2>4. CASE Close \/ Closer
    BY <2>1, <2>4 DEF Close, Closer, CloseFrame, CloseCancelPending, CloseConn, FailOne, sndVars,
       rcvVars
  <2>5. CASE \/ ConnDrop \/ ConnRecover \/ \E s \in Streams : StreamBreak(s)
             \/ \E r \in Requests : Cancel(r) \/ Consume(r)
    BY <2>1, <2>5 DEF ConnDrop, ConnRecover, StreamBreak, Cancel, Consume, EnvFrame, sndVars,
       rcvVars
  <2>6. ASSUME NEW r \in Requests, Call(r) \/ EnqueueCheck(r) \/ EnqueueClosed(r)
        PROVE  WakeupNotLost'
    BY <2>1, <2>6 DEF Call, EnqueueCheck, EnqueueClosed, sndVars, rcvVars
  <2>7. ASSUME NEW r \in Requests, EnqueueSend(r) PROVE WakeupNotLost'
    BY <2>7 DEF EnqueueSend, sndVars, rcvVars
  <2>8. ASSUME NEW r \in Requests, ReceiverResponse(r) \/ ReceiverBackCall(r)
        PROVE  WakeupNotLost'
    BY <2>8 DEF ReceiverResponse, ReceiverBackCall
  <2>9. ASSUME NEW r \in Requests, Watch(r) PROVE WakeupNotLost'
    BY <2>9 DEF Watch, WatchFire, WatchClear, WatchRequeue, WatchSpawn, WatchFrame, clearStream,
       FailOne, sndVars, rcvVars
  <2>10. CASE UNCHANGED vars
    BY <2>1, <2>10 DEF vars, sndVars, rcvVars
  <2> QED BY <2>2, <2>3, <2>4, <2>5, <2>6, <2>7, <2>8, <2>9, <2>10 DEF Next
<1> QED BY <1>1, <1>2, PTL DEF Spec

-----------------------------------------------------------------------------
(* Which streams are cancelled *)

\* A callback that is about to clear a stream has seen its context done.
WatchersHaveCause == \A r \in Requests : watchPc[r] = "clear" => CtxDone(r)

\* A step that leaves the callbacks and the streams alone cancels no stream.
LEMMA QuietStreams ==
    ASSUME Next
    PROVE  \/ UNCHANGED <<watchPc, doomed>>
           \/ SenderSendFail \/ ReceiverError
           \/ \E r \in Requests : Watch(r)
<1>1. ASSUME Sender, ~SenderSendFail PROVE UNCHANGED <<watchPc, doomed>>
  BY <1>1 DEF Sender, SenderFrame, SenderEnsureStream, SenderSignal, SenderTake, SenderCheck,
     SenderRegister, SenderSend, SenderRequeue, SenderSpawn, SenderReply,
     SenderExit, SenderDrain, FailOne, watchVars
<1>2. ASSUME Receiver, ~ReceiverError PROVE UNCHANGED <<watchPc, doomed>>
  BY <1>2 DEF Receiver, ReceiverFrame, ReceiverGetStream, ReceiverWake, ReceiverDeliver,
     ReceiverRequeue, ReceiverSpawn, ReceiverCheckClosed, FailOne, watchVars
<1>3. ASSUME Close \/ Closer PROVE UNCHANGED <<watchPc, doomed>>
  BY <1>3 DEF Close, Closer, CloseFrame, CloseCancelPending, CloseConn, FailOne, watchVars
<1>4. ASSUME NEW r \in Requests,
             \/ Call(r) \/ EnqueueCheck(r) \/ EnqueueClosed(r) \/ EnqueueSend(r)
             \/ ReceiverResponse(r) \/ ReceiverBackCall(r)
      PROVE  UNCHANGED <<watchPc, doomed>>
  BY <1>4 DEF Call, EnqueueCheck, EnqueueClosed, EnqueueSend, ReceiverResponse,
     ReceiverBackCall, ReceiverFrame, watchVars
<1>5. ASSUME \/ ConnDrop \/ ConnRecover \/ \E s \in Streams : StreamBreak(s)
             \/ \E r \in Requests : Cancel(r) \/ Consume(r)
      PROVE  UNCHANGED <<watchPc, doomed>>
  BY <1>5 DEF ConnDrop, ConnRecover, StreamBreak, Cancel, Consume, EnvFrame, watchVars
<1> QED BY <1>1, <1>2, <1>3, <1>4, <1>5 DEF Next

(* clearStream cancels a stream that failed, or on behalf of a request whose
   context was done while it was in Send on that stream, and never the stream
   that replaced it.                                                         *)
THEOREM OwnStreamsOnly == Spec => OnlyOwnStreamCancelled
<1> DEFINE Caused == \A s \in doomed' \ doomed :
                        s \notin up \/ \E r \in Requests : watchStream[r] = s /\ CtxDone(r)
<1>1. Init => WatchersHaveCause
  BY DEF Init, WatchersHaveCause
<1>2. ASSUME Inv, WatchersHaveCause, [Next]_vars PROVE WatchersHaveCause' /\ Caused
  <2>0. watchPc \in [Requests -> {"off", "clear", "requeue", "fail", "done"}]
    BY <1>2 DEF Inv, TypeOK, GoroutineTypes
  <2>1. \A r \in Requests : CtxDone(r) => CtxDone(r)'
    <3>1. CASE Next
      BY <3>1, CtxStays DEF CtxDone
    <3>2. CASE UNCHANGED vars
      BY <3>2 DEF vars, callVars, closeVars, CtxDone
    <3> QED BY <1>2, <3>1, <3>2
  <2>2. CASE UNCHANGED <<watchPc, doomed>>
    BY <1>2, <2>1, <2>2 DEF WatchersHaveCause
  <2>3. CASE SenderSendFail
    <3>1. UNCHANGED watchPc
      BY <2>3 DEF SenderSendFail, SenderFrame, watchVars
    <3>2. doomed' \subseteq doomed \cup {sndStream} /\ sndStream \notin up
      BY <2>3 DEF SenderSendFail, clearStream
    <3> QED BY <1>2, <2>1, <3>1, <3>2 DEF WatchersHaveCause
  <2>4. CASE ReceiverError
    <3>1. UNCHANGED watchPc
      BY <2>4 DEF ReceiverError, ReceiverFrame, watchVars
    <3>2. doomed' \subseteq doomed \cup {rcvStream} /\ rcvStream \notin up
      BY <2>4 DEF ReceiverError, clearStream
    <3> QED BY <1>2, <2>1, <3>1, <3>2 DEF WatchersHaveCause
  <2>5. ASSUME NEW r \in Requests, Watch(r) PROVE WatchersHaveCause' /\ Caused
    <3>1. CASE WatchFire(r)
      <4>1. /\ CtxDone(r) /\ UNCHANGED doomed
            /\ \A q \in Requests : q # r => watchPc'[q] = watchPc[q]
        BY <2>0, <3>1 DEF WatchFire
      <4> QED BY <1>2, <2>1, <4>1 DEF WatchersHaveCause
    <3>2. CASE WatchClear(r)
      <4>1. /\ doomed' \subseteq doomed \cup {watchStream[r]} /\ CtxDone(r)
            /\ watchPc'[r] # "clear"
            /\ \A q \in Requests : q # r => watchPc'[q] = watchPc[q]
        BY <1>2, <2>0, <3>2 DEF WatchClear, clearStream, WatchersHaveCause
      <4> QED BY <1>2, <2>1, <4>1 DEF WatchersHaveCause
    <3>3. CASE WatchRequeue(r) \/ WatchSpawn(r)
      <4>1. /\ UNCHANGED doomed /\ watchPc'[r] # "clear"
            /\ \A q \in Requests : q # r => watchPc'[q] = watchPc[q]
        BY <2>0, <3>3 DEF WatchRequeue, WatchSpawn
      <4> QED BY <1>2, <2>1, <4>1 DEF WatchersHaveCause
    <3>4. CASE FailOne(r)
      BY <2>2, <3>4 DEF FailOne, watchVars
    <3> QED BY <2>5, <3>1, <3>2, <3>3, <3>4 DEF Watch
  <2>6. CASE UNCHANGED vars
    BY <2>2, <2>6 DEF vars, watchVars
  <2> QED BY <1>2, <2>2, <2>3, <2>4, <2>5, <2>6, QuietStreams
<1>3. Inv /\ WatchersHaveCause /\ [Next]_vars => WatchersHaveCause'
  BY <1>2
<1>4. Inv /\ WatchersHaveCause /\ [Next]_vars => [Caused]_vars
  BY <1>2
<1> QED BY <1>1, <1>3, <1>4, Invariance, PTL DEF Spec, OnlyOwnStreamCancelled

-----------------------------------------------------------------------------
(* What is sent once *)

Queued(r) == InEnqueue(r) \/ InRest(r) \/ InSendQ(r)

InHand(r) == sndReq = r /\ sndPc \in {"ensure", "signal", "check", "register", "send"}

\* The request may still be put on the wire.
ToSend(r) == r \notin started \/ Queued(r) \/ InHand(r)

OnWire(r) == \E s \in Streams : SentOn(r, s)

\* What is in Send and is never sent again is not waiting to be sent, too.
SendAlone ==
    \A r \in Requests \ TwoWay : sndPc = "send" /\ sndReq = r => r \in started /\ ~Queued(r)

WireInv ==
    /\ SendAlone
    /\ \A r \in Requests \ TwoWay : OnWire(r) => ~ToSend(r)
    /\ ResendOnlyTwoWay

\* A request that is not waiting to be sent does not come back.
Onward(q) ==
    q \in started =>
        /\ q \in started'
        /\ ~Queued(q) => ~Queued(q)'
        /\ ~Queued(q) /\ ~InHand(q) => ~InHand(q)'

\* The request in Send came there from Register.
IntoSend == sndPc' = "send" => sndPc \in {"register", "send"} /\ sndReq' = sndReq

\* A request that may not be sent again only moves on.
LEMMA OnwardStep ==
    ASSUME TypeOK, LocalsMatchPc, OneOwner, Next, NEW q \in Requests \ TwoWay
    PROVE  Onward(q) /\ IntoSend
<1> USE NameAssumption
<1>0. QueueTypes /\ ListLocals
  BY DEF TypeOK, LocalsMatchPc
<1>1. ASSUME UNCHANGED <<started, enqVars, sendQ, sndVars>> PROVE Onward(q) /\ IntoSend
  BY <1>1, PlaceFrame DEF Onward, Queued, InHand, IntoSend, sndVars
<1>2. ASSUME UNCHANGED <<started, enqVars, sendQ>>,
             InHand(q)' => InHand(q)
      PROVE  Onward(q)
  BY <1>2, PlaceFrame DEF Onward, Queued
<1>3. ASSUME NEW g \in Goroutines, SpawnRequeue(g), UNCHANGED <<started, sendQ>>,
             InHand(q)' => InHand(q)
      PROVE  Onward(q)
  <2>1. q \notin requeue[g]
    BY <1>0 DEF ListLocals
  <2>2. (InEnqueue(q)' => InEnqueue(q)) /\ (InRest(q)' => InRest(q))
    BY <1>0, <1>3, <2>1, SpawnPlaces
  <2> QED BY <1>3, <2>2, PlaceFrame DEF Onward, Queued
<1>4. CASE Sender
  <2>1. CASE SenderEnsureStream
    BY <1>2, <2>1 DEF SenderEnsureStream, SenderFrame, callVars, InHand, IntoSend
  <2>2. CASE SenderSignal
    BY <1>2, <2>2 DEF SenderSignal, SenderFrame, callVars, InHand, IntoSend
  <2>3. CASE SenderCheck
    BY <1>2, <2>3 DEF SenderCheck, SenderFrame, callVars, InHand, IntoSend
  <2>4. CASE SenderRegister
    BY <1>2, <2>4 DEF SenderRegister, SenderFrame, callVars, InHand, IntoSend
  <2>5. CASE SenderSend \/ SenderSendFail
    BY <1>2, <2>5 DEF SenderSend, SenderSendFail, SenderFrame, SenderLoop, callVars, InHand,
       IntoSend
  <2>6. CASE SenderRequeue \/ SenderReply \/ SenderExit
    BY <1>2, <2>6 DEF SenderRequeue, SenderReply, SenderExit, SenderLoop, SenderFrame, callVars,
       InHand, IntoSend
  <2>7. CASE SenderSpawn
    <3>1. /\ SpawnRequeue("sender") /\ UNCHANGED <<started, sendQ>>
          /\ sndPc' \in {"reply", "select"}
      BY <2>7 DEF SenderSpawn, SenderFrame, SenderLoop, callVars
    <3>2. ~InHand(q)' /\ IntoSend
      BY <3>1 DEF InHand, IntoSend
    <3> QED BY <1>3, <3>1, <3>2, GoroutineNames
  <2>8. CASE SenderTake
    <3>1. /\ sendQ # <<>> /\ sendQ' = Tail(sendQ) /\ UNCHANGED <<started, enqVars>>
          /\ sndReq' = Head(sendQ) /\ sndPc' = "ensure"
      BY <2>8 DEF SenderTake, SenderFrame, callVars
    <3>2. /\ InSendQ(Head(sendQ))
          /\ InSendQ(q)' => InSendQ(q)
      BY <1>0, <3>1, SendQTail DEF OneOwner
    <3>3. IntoSend /\ (InHand(q)' => InSendQ(q))
      BY <3>1, <3>2 DEF IntoSend, InHand
    <3> QED BY <3>1, <3>2, <3>3, PlaceFrame DEF Onward, Queued
  <2>9. CASE SenderDrain
    <3>1. sendQ # <<>> /\ sendQ' = Tail(sendQ) /\ UNCHANGED <<started, enqVars, sndVars>>
      BY <2>9 DEF SenderDrain, SenderFrame, callVars
    <3>2. InSendQ(q)' => InSendQ(q)
      BY <1>0, <3>1, SendQTail DEF OneOwner
    <3>3. IntoSend /\ (InHand(q)' => InHand(q))
      BY <3>1 DEF IntoSend, InHand, sndVars
    <3> QED BY <3>1, <3>2, <3>3, PlaceFrame DEF Onward, Queued
  <2>10. CASE FailOne("sender")
    BY <1>1, <2>10 DEF FailOne, callVars
  <2> QED BY <1>4, <2>1, <2>2, <2>3, <2>4, <2>5, <2>6, <2>7, <2>8, <2>9, <2>10 DEF Sender
<1>5. CASE Receiver
  <2>1. CASE ReceiverSpawn
    <3>1. SpawnRequeue("receiver") /\ UNCHANGED <<started, sendQ, sndVars>>
      BY <2>1 DEF ReceiverSpawn, ReceiverFrame
    <3>2. IntoSend /\ (InHand(q)' => InHand(q))
      BY <3>1 DEF IntoSend, InHand, sndVars
    <3> QED BY <1>3, <3>1, <3>2, GoroutineNames
  <2>2. CASE \/ ReceiverGetStream \/ ReceiverWake \/ ReceiverDeliver \/ ReceiverError
             \/ ReceiverRequeue \/ ReceiverCheckClosed \/ FailOne("receiver")
    BY <1>1, <2>2 DEF ReceiverGetStream, ReceiverWake, ReceiverDeliver, ReceiverError,
       ReceiverRequeue, ReceiverCheckClosed, FailOne, ReceiverFrame, callVars
  <2> QED BY <1>5, <2>1, <2>2 DEF Receiver
<1>6. CASE Close \/ Closer
  BY <1>1, <1>6 DEF Close, Closer, CloseFrame, CloseCancelPending, CloseConn, FailOne, callVars
<1>7. CASE \/ ConnDrop \/ ConnRecover \/ \E s \in Streams : StreamBreak(s)
           \/ \E r \in Requests : Cancel(r) \/ Consume(r)
  BY <1>1, <1>7 DEF ConnDrop, ConnRecover, StreamBreak, Cancel, Consume, EnvFrame
<1>8. ASSUME NEW r \in Requests, Watch(r) PROVE Onward(q) /\ IntoSend
  <2>1. CASE WatchSpawn(r)
    <3>1. SpawnRequeue(r) /\ UNCHANGED <<started, sendQ, sndVars>>
      BY <2>1 DEF WatchSpawn, WatchFrame, callVars
    <3>2. IntoSend /\ (InHand(q)' => InHand(q))
      BY <3>1 DEF IntoSend, InHand, sndVars
    <3> QED BY <1>3, <3>1, <3>2, GoroutineNames
  <2>2. CASE WatchFire(r) \/ WatchClear(r) \/ WatchRequeue(r) \/ FailOne(r)
    BY <1>1, <2>2 DEF WatchFire, WatchClear, WatchRequeue, FailOne, WatchFrame, callVars
  <2> QED BY <1>8, <2>1, <2>2 DEF Watch
<1>9. ASSUME NEW r \in Requests, ReceiverResponse(r) PROVE Onward(q) /\ IntoSend
  BY <1>1, <1>9 DEF ReceiverResponse, ReceiverFrame
<1>10. ASSUME NEW r \in Requests, Call(r) \/ ReceiverBackCall(r) PROVE Onward(q) /\ IntoSend
  <2>1. /\ UNCHANGED <<sendQ, sndVars>> /\ started' = started \cup {r} /\ r \notin started
        /\ EnqueueBatch(enqPc, rest, {r})
    BY <1>10 DEF Call, ReceiverBackCall, ReceiverFrame
  <2>2. \A x \in Requests : /\ enqPc'[x] # "none" => enqPc[x] # "none" \/ x = r
                            /\ rest'[x] \subseteq rest[x] \cup {r}
    BY <1>0, <2>1, SMT DEF EnqueueBatch, QueueTypes
  <2>3. q # r => (InEnqueue(q)' => InEnqueue(q)) /\ (InRest(q)' => InRest(q))
    BY <2>2 DEF InEnqueue, InRest
  <2>4. IntoSend /\ (InHand(q)' => InHand(q))
    BY <2>1 DEF IntoSend, InHand, sndVars
  <2> QED BY <2>1, <2>3, <2>4, PlaceFrame DEF Onward, Queued
<1>11. ASSUME NEW r \in Requests, EnqueueCheck(r) /\ ~closed PROVE Onward(q) /\ IntoSend
  <2>1. /\ UNCHANGED <<started, rest, sendQ, sndVars>>
        /\ enqPc[r] = "check" /\ enqPc' = [enqPc EXCEPT ![r] = "select"]
    BY <1>11 DEF EnqueueCheck, callVars
  <2>2. (InEnqueue(q)' => InEnqueue(q)) /\ (InRest(q)' => InRest(q))
    BY <1>0, <2>1 DEF QueueTypes, InEnqueue, InRest
  <2>3. IntoSend /\ (InHand(q)' => InHand(q))
    BY <2>1 DEF IntoSend, InHand, sndVars
  <2> QED BY <2>1, <2>2, <2>3, PlaceFrame DEF Onward, Queued
<1>12. ASSUME NEW r \in Requests,
              EnqueueClosed(r) \/ (EnqueueCheck(r) /\ closed) \/ EnqueueSend(r)
       PROVE  Onward(q) /\ IntoSend
  <2>1. EnqueueReturn(r) /\ InEnqueue(r) /\ UNCHANGED started
    BY <1>12 DEF EnqueueClosed, EnqueueCheck, EnqueueSend, InEnqueue, callVars
  <2>2. InEnqueue(q)' \/ InRest(q)' => Queued(q)
    BY <1>0, <2>1, ReturnPlaces DEF Queued
  <2>3. CASE UNCHANGED <<sendQ, sndVars>>
    <3>1. IntoSend /\ (InHand(q)' => InHand(q))
      BY <2>3 DEF IntoSend, InHand, sndVars
    <3> QED BY <2>1, <2>2, <2>3, <3>1, PlaceFrame DEF Onward, Queued
  <2>4. CASE PutInSendQ(r) /\ UNCHANGED sndVars
    <3>1. IntoSend /\ (InHand(q)' => InHand(q))
      BY <2>4 DEF IntoSend, InHand, sndVars
    <3>2. ~InSendQ(r)
      BY <2>1 DEF OneOwner, OwnedOnce
    <3>3. InSendQ(q)' => InSendQ(q) \/ q = r
      BY <1>0, <2>4, <3>2, SendQAppend DEF OneOwner, PutInSendQ
    <3> QED BY <2>1, <2>2, <3>1, <3>3 DEF Onward, Queued
  <2>5. CASE sndPc' = "ensure" /\ sndReq' = r /\ UNCHANGED sendQ
    <3>1. IntoSend /\ (InHand(q)' => q = r)
      BY <2>5 DEF IntoSend, InHand
    <3> QED BY <2>1, <2>2, <2>5, <3>1, PlaceFrame DEF Onward, Queued
  <2> QED BY <1>12, <2>3, <2>4, <2>5 DEF EnqueueClosed, EnqueueCheck, EnqueueSend
<1> QED BY <1>4, <1>5, <1>6, <1>7, <1>8, <1>9, <1>10, <1>11, <1>12 DEF Next

\* Only the sender writes on a stream.
LEMMA WireStays == ASSUME Next PROVE SenderSend \/ wire' = wire
<1>1. ASSUME Sender, ~SenderSend PROVE wire' = wire
  BY <1>1 DEF Sender, SenderEnsureStream, SenderSignal, SenderTake, SenderCheck, SenderRegister,
     SenderSendFail, SenderRequeue, SenderSpawn, SenderReply, SenderExit, SenderDrain, FailOne,
     netVars
<1>2. ASSUME Receiver PROVE wire' = wire
  BY <1>2 DEF Receiver, ReceiverFrame, ReceiverGetStream, ReceiverWake, ReceiverDeliver,
     ReceiverError, ReceiverRequeue, ReceiverSpawn, ReceiverCheckClosed, FailOne, netVars
<1>3. ASSUME Close \/ Closer PROVE wire' = wire
  BY <1>3 DEF Close, Closer, CloseFrame, CloseCancelPending, CloseConn, FailOne, netVars
<1>4. ASSUME NEW r \in Requests,
             \/ Call(r) \/ EnqueueCheck(r) \/ EnqueueClosed(r) \/ EnqueueSend(r)
             \/ ReceiverResponse(r) \/ ReceiverBackCall(r) \/ Watch(r)
      PROVE  wire' = wire
  BY <1>4 DEF Call, EnqueueCheck, EnqueueClosed, EnqueueSend, ReceiverResponse,
     ReceiverBackCall, ReceiverFrame, Watch, WatchFire, WatchClear, WatchRequeue, WatchSpawn,
     WatchFrame, FailOne, netVars
<1>5. ASSUME \/ ConnDrop \/ ConnRecover \/ \E s \in Streams : StreamBreak(s)
             \/ \E r \in Requests : Cancel(r) \/ Consume(r)
      PROVE  wire' = wire
  BY <1>5 DEF ConnDrop, ConnRecover, StreamBreak, Cancel, Consume, EnvFrame
<1> QED BY <1>1, <1>2, <1>3, <1>4, <1>5 DEF Next

\* Every step keeps what is known of the streams.
LEMMA WireNext == Inv /\ WireInv /\ [Next]_vars => WireInv'
<1> SUFFICES ASSUME Inv, WireInv, [Next]_vars PROVE WireInv'
  OBVIOUS
<1> USE NameAssumption
<1>0. /\ TypeOK /\ LocalsMatchPc /\ OneOwner /\ SendAlone /\ ResendOnlyTwoWay
      /\ \A r \in Requests \ TwoWay : OnWire(r) => ~ToSend(r)
  BY DEF Inv, WireInv
<1>1. ASSUME NEW q \in Requests \ TwoWay PROVE Onward(q) /\ IntoSend
  <2>1. CASE UNCHANGED vars
    <3>1. UNCHANGED <<started, enqVars, sendQ, sndVars>>
      BY <2>1 DEF vars, callVars
    <3> QED BY <3>1, PlaceFrame DEF Onward, Queued, InHand, IntoSend, sndVars
  <2>2. CASE Next
    BY <1>0, <2>2, OnwardStep
  <2> QED BY <2>1, <2>2
<1>2. SendAlone'
  <2> SUFFICES ASSUME NEW r \in Requests \ TwoWay, sndPc' = "send", sndReq' = r
               PROVE  r \in started' /\ ~Queued(r)'
    BY DEF SendAlone
  <2>1. sndReq = r /\ sndPc \in {"register", "send"}
    BY <1>1 DEF IntoSend
  <2>2. r \in started /\ ~Queued(r)
    <3>1. CASE sndPc = "send"
      BY <1>0, <2>1, <3>1 DEF SendAlone
    <3>2. CASE sndPc = "register"
      <4>1. SenderHolds(r)
        BY <2>1, <3>2 DEF SenderHolds
      <4>2. OwnedOnce(r)
        BY <1>0 DEF OneOwner
      <4> QED BY <4>1, <4>2 DEF OwnedOnce, Held, Queued
    <3> QED BY <2>1, <3>1, <3>2
  <2> QED BY <1>1, <2>2 DEF Onward
<1>a. ASSUME NEW r \in Requests \ TwoWay, NEW s \in Streams, NEW t \in Streams,
             NEW i \in DOMAIN wire[s], NEW j \in DOMAIN wire[t],
             wire[s][i] = r, wire[t][j] = r
      PROVE  s = t /\ i = j
  BY <1>0, <1>a DEF ResendOnlyTwoWay
<1>3. CASE wire' = wire
  <2>1. ResendOnlyTwoWay'
    <3> SUFFICES ASSUME NEW r \in Requests \ TwoWay, NEW s \in Streams, NEW t \in Streams,
                        NEW i \in DOMAIN wire'[s], NEW j \in DOMAIN wire'[t],
                        wire'[s][i] = r, wire'[t][j] = r
                 PROVE  s = t /\ i = j
      BY DEF ResendOnlyTwoWay
    <3> QED BY <1>3, <1>a
  <2>2. ASSUME NEW r \in Requests \ TwoWay, OnWire(r)' PROVE ~ToSend(r)'
    <3>1. OnWire(r)
      BY <1>3, <2>2 DEF OnWire, SentOn
    <3> QED BY <1>0, <1>1, <3>1 DEF ToSend, Onward
  <2> QED BY <1>2, <2>1, <2>2 DEF WireInv
<1>4. CASE SenderSend
  <2>1. /\ sndPc = "send" /\ sndReq \in Requests /\ sndStream \in Streams
        /\ sndPc' \in {"confirm", "select"}
        /\ wire \in [Streams -> Seq(Requests)]
        /\ wire' = [wire EXCEPT ![sndStream] = Append(@, sndReq)]
    BY <1>0, <1>4 DEF SenderSend, SenderLoop, TypeOK, GoroutineTypes, StreamTypes, LocalsMatchPc,
       SenderLocals, Nil
  <2>2. /\ \A t \in Streams \ {sndStream} : wire'[t] = wire[t]
        /\ wire'[sndStream] = Append(wire[sndStream], sndReq)
        /\ wire[sndStream] \in Seq(Requests)
    BY <2>1
  <2>3. \A i \in DOMAIN wire'[sndStream] :
           \/ i \in DOMAIN wire[sndStream] /\ wire'[sndStream][i] = wire[sndStream][i]
           \/ i = Len(wire[sndStream]) + 1 /\ wire'[sndStream][i] = sndReq
    BY <2>1, <2>2, SMT
  <2>4. ASSUME NEW r \in Requests \ TwoWay, OnWire(r)', r # sndReq PROVE OnWire(r)
    BY <2>2, <2>3, <2>4 DEF OnWire, SentOn
  <2>5. sndReq \notin TwoWay => ~OnWire(sndReq) /\ sndReq \in started /\ ~Queued(sndReq)
    BY <1>0, <2>1 DEF ToSend, InHand, SendAlone
  <2>6. ASSUME NEW r \in Requests \ TwoWay, OnWire(r)' PROVE ~ToSend(r)'
    <3>1. ~InHand(r)'
      BY <2>1 DEF InHand
    <3>2. r \in started /\ ~Queued(r)
      BY <1>0, <2>4, <2>5, <2>6 DEF ToSend
    <3> QED BY <1>1, <3>1, <3>2 DEF ToSend, Onward
  <2>7. ASSUME NEW r \in Requests \ TwoWay, NEW s \in Streams, NEW i \in DOMAIN wire'[s],
               wire'[s][i] = r
        PROVE  \/ r # sndReq /\ i \in DOMAIN wire[s] /\ wire[s][i] = r
               \/ r = sndReq /\ s = sndStream /\ i = Len(wire[sndStream]) + 1
    <3>1. i \in DOMAIN wire[s] /\ wire[s][i] = r => OnWire(r)
      BY DEF OnWire, SentOn
    <3>2. CASE s = sndStream
      BY <2>3, <2>5, <2>7, <3>1, <3>2
    <3>3. CASE s # sndStream
      BY <2>2, <2>5, <2>7, <3>1, <3>3
    <3> QED BY <3>2, <3>3
  <2>8. ResendOnlyTwoWay'
    <3> SUFFICES ASSUME NEW r \in Requests \ TwoWay, NEW s \in Streams, NEW t \in Streams,
                        NEW i \in DOMAIN wire'[s], NEW j \in DOMAIN wire'[t],
                        wire'[s][i] = r, wire'[t][j] = r
                 PROVE  s = t /\ i = j
      BY DEF ResendOnlyTwoWay
    <3>1. CASE r = sndReq
      BY <2>7, <3>1, SMT
    <3>2. CASE r # sndReq
      <4>1. i \in DOMAIN wire[s] /\ wire[s][i] = r
        BY <2>7, <3>2
      <4>2. j \in DOMAIN wire[t] /\ wire[t][j] = r
        BY <2>7, <3>2
      <4> QED BY <4>1, <4>2, <1>a
    <3> QED BY <3>1, <3>2
  <2> QED BY <1>2, <2>6, <2>8 DEF WireInv
<1>5. SenderSend \/ wire' = wire
  BY WireStays DEF vars, netVars
<1> QED BY <1>3, <1>4, <1>5

(* A one-way request or a streaming call is on all streams together at most
   once: neither the requeue of pending requests nor a failed Send repeats
   it.                                                                       *)
THEOREM SentOnce == Spec => []ResendOnlyTwoWay
<1>1. Init => WireInv
  <2> SUFFICES ASSUME Init PROVE WireInv
    OBVIOUS
  <2>1. \A s \in Streams : wire[s] = <<>>
    BY DEF Init
  <2>2. \A r \in Requests : ~OnWire(r)
    BY <2>1, SMT DEF OnWire, SentOn
  <2>3. \A s \in Streams : DOMAIN wire[s] = {}
    BY <2>1, SMT
  <2>4. ResendOnlyTwoWay
    BY <2>3 DEF ResendOnlyTwoWay
  <2> QED BY <2>2, <2>4 DEF WireInv, SendAlone, Init
<1>2. WireInv => ResendOnlyTwoWay
  BY DEF WireInv
<1> QED BY <1>1, <1>2, WireNext, Invariance, PTL DEF Spec

-----------------------------------------------------------------------------
(* The order of one caller's requests *)

\* The first stream was cleared or replaced, and is never read again.
Past == created >= 1 /\ stream # 1

StreamOrder ==
    /\ stream \in {Nil, created}
    /\ sndStream <= created /\ rcvStream <= created
    /\ \A r \in Requests : watchStream[r] <= created

\* Requests are enqueued again only after that.
Retired ==
    /\ sndPc = "requeue" \/ rcvPc = "requeue" => Past
    /\ \A r \in Requests : watchPc[r] = "requeue" => Past
    /\ \A g \in Goroutines : requeue[g] # {} => Past
    /\ \A r \in Requests : rest[r] # {} => Past

InFront == \A i, j \in DOMAIN sendQ : sendQ[i] = First /\ sendQ[j] = Second => i < j

\* A call that was not made is nowhere.
Fresh == Second \notin started => ~InHand(Second) /\ ~SentOn(Second, 1)

\* Until then the second request is behind the first, or the first was sent.
Ahead ==
    ~Past /\ Second \in started =>
        /\ First \in started /\ enqPc[First] = "none"
        /\ InFront
        /\ InHand(Second) \/ SentOn(Second, 1) => ~InSendQ(First) /\ ~InHand(First)

\* The sender does not hold the first for a stream that has the second.
NotBehind ==
    SentOn(Second, 1) /\ sndReq = First /\ sndPc \in {"register", "send"} => sndStream # 1

OrderInv == StreamOrder /\ Retired /\ Fresh /\ Ahead /\ NotBehind /\ FifoOnFirstStream

\* Streams are numbered in the order of their creation, the first does not come
\* back, and whoever requeues has cleared the stream that failed.
LEMMA StreamsInOrder ==
    ASSUME Inv, StreamOrder, Retired, Next
    PROVE  StreamOrder' /\ Retired' /\ (Past => Past')
<1> USE NameAssumption
<1> DEFINE Str == /\ stream' \in {Nil, created'} /\ created' \in Nat /\ created <= created'
                  /\ Past => Past'
           Snd == sndStream' <= created' /\ (sndPc' = "requeue" => Past')
           Rcv == rcvStream' <= created' /\ (rcvPc' = "requeue" => Past')
           Wch == \A r \in Requests : /\ watchStream'[r] <= created'
                                      /\ watchPc'[r] = "requeue" => Past'
           Lst == /\ \A g \in Goroutines : requeue'[g] # {} => Past'
                  /\ \A r \in Requests : rest'[r] # {} => Past'
           Done == Str /\ Snd /\ Rcv /\ Wch /\ Lst
<1> SUFFICES Done
  BY DEF StreamOrder, Retired
<1>0. /\ Streams \subseteq Nat /\ 0 \notin Streams /\ created \in Nat
      /\ stream \in Streams \cup {Nil} /\ sndStream \in Streams \cup {Nil}
      /\ rcvStream \in Streams \cup {Nil} /\ watchStream \in [Requests -> Streams \cup {Nil}]
      /\ watchPc \in [Requests -> {"off", "clear", "requeue", "fail", "done"}]
      /\ QueueTypes /\ LocalsMatchPc
  BY BoundAssumption, SMT DEF Inv, TypeOK, GoroutineTypes, StreamTypes, Streams
<1>a. Nil = 0 /\ Nil \in Nat
  BY DEF Nil
<1>1. ASSUME UNCHANGED <<stream, created>> PROVE Str
  BY <1>0, <1>1, SMT DEF StreamOrder, Past
<1>2. ASSUME Str, UNCHANGED <<sndPc, sndStream>> PROVE Snd
  BY <1>0, <1>a, <1>2, SMT DEF StreamOrder, Retired
<1>3. ASSUME Str, UNCHANGED rcvVars PROVE Rcv
  BY <1>0, <1>a, <1>3, SMT DEF StreamOrder, Retired, rcvVars
<1>4. ASSUME Str, UNCHANGED watchVars PROVE Wch
  <2>1. \A r \in Requests : watchStream[r] \in Nat
    BY <1>0, <1>a
  <2> QED BY <1>0, <1>4, <2>1, SMT DEF StreamOrder, Retired, watchVars
<1>5. ASSUME Str, UNCHANGED <<requeue, rest>> PROVE Lst
  BY <1>5 DEF Retired
<1>6. ASSUME NEW s \in Streams, s <= created, clearStream(s), UNCHANGED created
      PROVE  Str /\ Past'
  BY <1>0, <1>6, <1>a, SMT DEF clearStream, StreamOrder, Past
<1>7. ASSUME Str, NEW g \in Goroutines, SpawnRequeue(g) PROVE Lst
  <2>1. \A h \in Goroutines : requeue'[h] = {} \/ requeue'[h] = requeue[h]
    BY <1>0, <1>7 DEF SpawnRequeue, QueueTypes
  <2>2. CASE requeue[g] = {}
    <3>1. rest' = rest
      BY <1>7, <2>2 DEF SpawnRequeue, EnqueueBatch
    <3> QED BY <1>7, <2>1, <3>1 DEF Retired
  <2>3. CASE requeue[g] # {}
    BY <1>7, <2>1, <2>3 DEF Retired
  <2> QED BY <2>2, <2>3
<1>8. ASSUME Str, Past, NEW g \in Goroutines, RequeuePending(g), UNCHANGED rest PROVE Lst
  BY <1>8
<1>9. ASSUME Str, NEW r \in Requests, EnqueueReturn(r), UNCHANGED requeue PROVE Lst
  <2>1. CASE rest[r] = {}
    <3>1. rest' = [rest EXCEPT ![r] = {}]
      BY <1>9, <2>1 DEF EnqueueReturn, EnqueueBatch
    <3>2. \A q \in Requests : rest'[q] = {} \/ rest'[q] = rest[q]
      BY <1>0, <3>1 DEF QueueTypes
    <3> QED BY <1>9, <3>2 DEF Retired
  <2>2. CASE rest[r] # {}
    BY <1>9, <2>2 DEF Retired
  <2> QED BY <2>1, <2>2
<1>10. ASSUME Str, NEW r \in Requests, EnqueueBatch(enqPc, rest, {r}), UNCHANGED requeue
       PROVE  Lst
  <2>1. \E q \in {r} : rest' = [rest EXCEPT ![q] = {r} \ {q}]
    BY <1>10 DEF EnqueueBatch
  <2>2. rest' = [rest EXCEPT ![r] = {r} \ {r}]
    BY <2>1
  <2>3. \A q \in Requests : rest'[q] = {} \/ rest'[q] = rest[q]
    BY <1>0, <2>2 DEF QueueTypes
  <2> QED BY <1>10, <2>3 DEF Retired
<1>11. CASE Sender
  <2>0. UNCHANGED <<rcvVars, watchVars>>
    BY <1>11 DEF Sender, SenderFrame, SenderEnsureStream, SenderSignal, SenderTake, SenderCheck,
       SenderRegister, SenderSend, SenderSendFail, SenderRequeue, SenderSpawn, SenderReply,
       SenderExit, SenderDrain, FailOne
  <2>1. CASE SenderEnsureStream
    <3>1. /\ UNCHANGED <<requeue, rest, sndStream>> /\ sndPc' # "requeue"
          /\ \/ UNCHANGED <<stream, created>>
             \/ stream' = created + 1 /\ created' = created + 1
             \/ stream' = Nil /\ UNCHANGED created
      BY <2>1 DEF SenderEnsureStream, listVars, enqVars
    <3>2. Str
      BY <1>0, <1>a, <1>1, <3>1, SMT DEF Past, StreamOrder
    <3>3. Snd
      BY <1>0, <1>a, <3>1, <3>2, SMT DEF StreamOrder
    <3> QED BY <2>0, <3>1, <3>2, <3>3, <1>3, <1>4, <1>5
  <2>2. CASE \/ SenderSignal \/ SenderTake \/ SenderCheck \/ SenderRegister \/ SenderSend
             \/ SenderReply \/ SenderExit \/ SenderDrain \/ FailOne("sender")
    <3>1. UNCHANGED <<stream, created, requeue, rest>>
      BY <2>2 DEF SenderSignal, SenderTake, SenderCheck, SenderRegister, SenderSend, SenderReply,
         SenderExit, SenderDrain, FailOne, listVars, enqVars, netVars
    <3>2. /\ sndStream' \in {sndStream, stream, Nil}
          /\ sndPc' = "requeue" => sndPc = "requeue"
      BY <2>2 DEF SenderSignal, SenderTake, SenderCheck, SenderRegister, SenderSend, SenderReply,
         SenderExit, SenderDrain, SenderLoop, FailOne, sndVars
    <3>3. Str
      BY <1>1, <3>1
    <3>4. Snd
      BY <1>0, <1>a, <3>1, <3>2, <3>3, SMT DEF StreamOrder, Retired
    <3> QED BY <2>0, <3>1, <3>3, <3>4, <1>3, <1>4, <1>5
  <2>3. CASE SenderSendFail
    <3>1. /\ sndStream \in Streams /\ sndStream <= created /\ clearStream(sndStream)
          /\ UNCHANGED <<created, sndStream, requeue, rest>>
      BY <2>3, <1>0 DEF SenderSendFail, LocalsMatchPc, SenderLocals, StreamOrder, netVars,
         listVars, enqVars
    <3>2. Str /\ Past'
      BY <1>6, <3>1
    <3> QED BY <2>0, <3>1, <3>2, <1>3, <1>4, <1>5
  <2>4. CASE SenderRequeue
    <3>1. /\ Past /\ RequeuePending("sender") /\ sndPc' # "requeue"
          /\ UNCHANGED <<stream, created, sndStream, rest>>
      BY <2>4 DEF SenderRequeue, Retired, netVars, enqVars
    <3>2. Str
      BY <1>1, <3>1
    <3>3. Snd
      BY <1>0, <1>a, <3>1, <3>2 DEF StreamOrder
    <3> QED BY <2>0, <3>1, <3>2, <3>3, <1>3, <1>4, <1>8, GoroutineNames
  <2>5. CASE SenderSpawn
    <3>1. /\ SpawnRequeue("sender") /\ sndPc' # "requeue" /\ sndStream' \in {sndStream, Nil}
          /\ UNCHANGED <<stream, created>>
      BY <2>5 DEF SenderSpawn, SenderLoop, netVars
    <3>2. Str
      BY <1>1, <3>1
    <3>3. Snd
      BY <1>0, <1>a, <3>1, <3>2, SMT DEF StreamOrder
    <3> QED BY <2>0, <3>1, <3>2, <3>3, <1>3, <1>4, <1>7, GoroutineNames
  <2> QED BY <1>11, <2>1, <2>2, <2>3, <2>4, <2>5 DEF Sender
<1>12. CASE Receiver
  <2>0. UNCHANGED <<sndPc, sndStream, watchVars, created>>
    BY <1>12 DEF Receiver, ReceiverFrame, ReceiverGetStream, ReceiverWake, ReceiverDeliver,
       ReceiverError, ReceiverRequeue, ReceiverSpawn, ReceiverCheckClosed, FailOne, sndVars,
       netVars
  <2>1. CASE \/ ReceiverGetStream \/ ReceiverWake \/ ReceiverDeliver \/ ReceiverCheckClosed
             \/ FailOne("receiver")
    <3>1. UNCHANGED <<stream, requeue, rest>>
      BY <2>1 DEF ReceiverGetStream, ReceiverWake, ReceiverDeliver, ReceiverCheckClosed, FailOne,
         listVars, enqVars
    <3>2. /\ rcvStream' \in {rcvStream, stream, Nil}
          /\ rcvPc' = "requeue" => rcvPc = "requeue"
      BY <2>1 DEF ReceiverGetStream, ReceiverWake, ReceiverDeliver, ReceiverCheckClosed, FailOne,
         rcvVars
    <3>3. Str
      BY <1>1, <2>0, <3>1
    <3>4. Rcv
      BY <1>0, <1>a, <2>0, <3>1, <3>2, <3>3, SMT DEF StreamOrder, Retired
    <3> QED BY <2>0, <3>1, <3>3, <3>4, <1>2, <1>4, <1>5
  <2>2. CASE ReceiverError
    <3>1. /\ rcvStream \in Streams /\ rcvStream <= created /\ clearStream(rcvStream)
          /\ UNCHANGED <<requeue, rest>> /\ rcvStream' = Nil
      BY <2>2, <1>0 DEF ReceiverError, LocalsMatchPc, ReceiverLocals, StreamOrder, listVars,
         enqVars
    <3>2. Str /\ Past'
      BY <1>6, <2>0, <3>1
    <3>3. Rcv
      BY <1>a, <3>1, <3>2, SMT
    <3> QED BY <2>0, <3>1, <3>2, <3>3, <1>2, <1>4, <1>5
  <2>3. CASE ReceiverRequeue
    <3>1. /\ Past /\ RequeuePending("receiver") /\ rcvPc' # "requeue"
          /\ UNCHANGED <<stream, rcvStream, rest>>
      BY <2>3 DEF ReceiverRequeue, Retired, enqVars
    <3>2. Str
      BY <1>1, <2>0, <3>1
    <3>3. Rcv
      BY <1>0, <1>a, <2>0, <3>1, <3>2 DEF StreamOrder
    <3> QED BY <2>0, <3>1, <3>2, <3>3, <1>2, <1>4, <1>8, GoroutineNames
  <2>4. CASE ReceiverSpawn
    <3>1. /\ SpawnRequeue("receiver") /\ rcvPc' # "requeue" /\ UNCHANGED <<stream, rcvStream>>
      BY <2>4 DEF ReceiverSpawn
    <3>2. Str
      BY <1>1, <2>0, <3>1
    <3>3. Rcv
      BY <1>0, <1>a, <2>0, <3>1, <3>2 DEF StreamOrder
    <3> QED BY <2>0, <3>1, <3>2, <3>3, <1>2, <1>4, <1>7, GoroutineNames
  <2> QED BY <1>12, <2>1, <2>2, <2>3, <2>4 DEF Receiver
<1>13. ASSUME NEW r \in Requests, Watch(r) PROVE Done
  <2>0. UNCHANGED <<sndPc, sndStream, rcvVars, created>>
    BY <1>13 DEF Watch, WatchFire, WatchClear, WatchRequeue, WatchSpawn, WatchFrame, FailOne,
       sndVars, netVars
  <2>1. \A q \in Requests : q # r => UNCHANGED <<watchPc[q], watchStream[q]>>
    BY <1>0, <1>13 DEF Watch, WatchFire, WatchClear, WatchRequeue, WatchSpawn, FailOne, watchVars
  <2>2. ASSUME Str, watchStream'[r] <= created', watchPc'[r] = "requeue" => Past' PROVE Wch
    <3>1. \A q \in Requests : watchStream[q] \in Nat
      BY <1>0, <1>a
    <3> QED BY <1>0, <2>1, <2>2, <3>1, SMT DEF StreamOrder, Retired
  <2>3. CASE WatchFire(r) \/ FailOne(r)
    <3>1. UNCHANGED <<stream, requeue, rest>>
      BY <2>3 DEF WatchFire, FailOne, listVars, enqVars
    <3>2. /\ watchStream'[r] \in {watchStream[r], sndStream}
          /\ watchPc'[r] = "requeue" => watchPc[r] = "requeue"
      BY <1>0, <2>3 DEF WatchFire, FailOne, watchVars
    <3>3. Str
      BY <1>1, <2>0, <3>1
    <3>4. watchStream'[r] <= created' /\ (watchPc'[r] = "requeue" => Past')
      BY <1>0, <1>a, <2>0, <3>2, <3>3 DEF StreamOrder, Retired
    <3> QED BY <2>0, <2>2, <3>1, <3>3, <3>4, <1>2, <1>3, <1>5
  <2>4. CASE WatchClear(r)
    <3>1. /\ watchStream[r] \in Streams /\ watchStream[r] <= created
          /\ clearStream(watchStream[r]) /\ UNCHANGED <<requeue, rest>>
          /\ watchStream'[r] = Nil
      BY <1>0, <2>4 DEF WatchClear, LocalsMatchPc, ListLocals, StreamOrder, listVars, enqVars
    <3>2. Str /\ Past'
      BY <1>6, <2>0, <3>1
    <3>3. watchStream'[r] <= created'
      BY <1>a, <3>1, <3>2, SMT
    <3> QED BY <2>0, <2>2, <3>1, <3>2, <3>3, <1>2, <1>3, <1>5
  <2>5. CASE WatchRequeue(r)
    <3>1. /\ Past /\ RequeuePending(r) /\ watchPc'[r] # "requeue"
          /\ UNCHANGED <<stream, watchStream, rest>>
      BY <1>0, <2>5 DEF WatchRequeue, Retired, enqVars
    <3>2. Str
      BY <1>1, <2>0, <3>1
    <3>3. watchStream'[r] <= created'
      BY <2>0, <3>1 DEF StreamOrder
    <3> QED BY <2>0, <2>2, <3>1, <3>2, <3>3, <1>2, <1>3, <1>8, GoroutineNames
  <2>6. CASE WatchSpawn(r)
    <3>1. /\ SpawnRequeue(r) /\ watchPc'[r] # "requeue" /\ UNCHANGED <<stream, watchStream>>
      BY <1>0, <2>6 DEF WatchSpawn
    <3>2. Str
      BY <1>1, <2>0, <3>1
    <3>3. watchStream'[r] <= created'
      BY <2>0, <3>1 DEF StreamOrder
    <3> QED BY <2>0, <2>2, <3>1, <3>2, <3>3, <1>2, <1>3, <1>7, GoroutineNames
  <2> QED BY <1>13, <2>3, <2>4, <2>5, <2>6 DEF Watch
<1>14. ASSUME UNCHANGED <<stream, created, sndPc, sndStream, rcvVars, watchVars>>, Lst PROVE Done
  BY <1>1, <1>2, <1>3, <1>4, <1>14
<1>15. CASE \/ Close \/ Closer \/ ConnDrop \/ ConnRecover \/ \E s \in Streams : StreamBreak(s)
            \/ \E r \in Requests : Cancel(r) \/ Consume(r)
  <2>1. /\ UNCHANGED <<stream, created, sndPc, sndStream, rcvVars, watchVars>>
        /\ UNCHANGED <<requeue, rest>>
    BY <1>15 DEF Close, Closer, CloseFrame, CloseCancelPending, CancelPending, CloseConn, FailOne,
       ConnDrop, ConnRecover, StreamBreak, Cancel, Consume, EnvFrame, sndVars, listVars, enqVars,
       netVars
  <2> QED BY <1>1, <1>5, <1>14, <2>1
<1>16. ASSUME NEW r \in Requests, Call(r) \/ ReceiverBackCall(r) PROVE Done
  <2>1. /\ UNCHANGED <<stream, created, sndPc, sndStream, watchVars, requeue>>
        /\ EnqueueBatch(enqPc, rest, {r})
        /\ rcvStream' \in {rcvStream, Nil} /\ (rcvPc' = "requeue" => rcvPc = "requeue")
    BY <1>16 DEF Call, ReceiverBackCall, ReceiverFrame, sndVars, rcvVars, listVars, netVars
  <2>2. Str
    BY <1>1, <2>1
  <2>3. Rcv
    BY <1>0, <1>a, <2>1, <2>2, SMT DEF StreamOrder, Retired
  <2> QED BY <1>2, <1>4, <1>10, <2>1, <2>2, <2>3
<1>17. ASSUME NEW r \in Requests, EnqueueCheck(r) \/ EnqueueClosed(r) PROVE Done
  <2>1. /\ UNCHANGED <<stream, created, sndPc, sndStream, rcvVars, watchVars, requeue>>
        /\ EnqueueReturn(r) \/ UNCHANGED rest
    BY <1>17 DEF EnqueueCheck, EnqueueClosed, sndVars, listVars, netVars
  <2> QED BY <1>1, <1>5, <1>9, <1>14, <2>1
<1>18. ASSUME NEW r \in Requests, EnqueueSend(r) PROVE Done
  <2>1. /\ UNCHANGED <<stream, created, sndStream, rcvVars, watchVars, requeue>>
        /\ EnqueueReturn(r) /\ (sndPc' = "requeue" => sndPc = "requeue")
    BY <1>18 DEF EnqueueSend, sndVars, listVars, netVars
  <2>2. Str
    BY <1>1, <2>1
  <2>3. Snd
    BY <1>0, <1>a, <2>1, <2>2 DEF StreamOrder, Retired
  <2> QED BY <1>3, <1>4, <1>9, <2>1, <2>2, <2>3
<1>19. ASSUME NEW r \in Requests, ReceiverResponse(r) PROVE Done
  <2>1. /\ UNCHANGED <<stream, created, sndPc, sndStream, watchVars, requeue, rest, rcvStream>>
        /\ rcvPc' # "requeue"
    BY <1>19 DEF ReceiverResponse, ReceiverFrame, sndVars, listVars, netVars, enqVars
  <2>2. Str
    BY <1>1, <2>1
  <2>3. Rcv
    BY <1>0, <1>a, <2>1, <2>2 DEF StreamOrder
  <2> QED BY <1>2, <1>4, <1>5, <2>1, <2>2, <2>3
<1> QED BY <1>11, <1>12, <1>13, <1>15, <1>16, <1>17, <1>18, <1>19 DEF Next
\* The sender gets a request out of sendQ or from a caller in Enqueue.
LEMMA HandComes ==
    ASSUME Inv, Next, NEW q \in Requests
    PROVE  /\ InHand(q)' => InHand(q) \/ InSendQ(q) \/ InEnqueue(q)
           /\ started \subseteq started'
<1> USE NameAssumption
<1>1. CASE Sender
  <2>1. CASE SenderTake
    <3>1. Head(sendQ) \in Requests /\ InSendQ(Head(sendQ))
      BY <2>1, SendQTail DEF SenderTake, Inv, TypeOK, OneOwner
    <3> QED BY <2>1, <3>1 DEF SenderTake, SenderFrame, callVars, InHand
  <2>2. CASE SenderEnsureStream \/ SenderSignal \/ SenderCheck \/ SenderRegister
    BY <2>2 DEF SenderEnsureStream, SenderSignal, SenderCheck, SenderRegister, SenderFrame,
       callVars, InHand
  <2>3. CASE \/ SenderSend \/ SenderSendFail \/ SenderRequeue \/ SenderSpawn \/ SenderReply
             \/ SenderExit
    BY <2>3 DEF SenderSend, SenderSendFail, SenderRequeue, SenderSpawn, SenderReply,
       SenderExit, SenderLoop, SenderFrame, callVars, InHand
  <2>4. CASE SenderDrain \/ FailOne("sender")
    BY <2>4 DEF SenderDrain, FailOne, SenderFrame, callVars, sndVars, InHand
  <2> QED BY <1>1, <2>1, <2>2, <2>3, <2>4 DEF Sender
<1>2. CASE Receiver
  BY <1>2 DEF Receiver, ReceiverGetStream, ReceiverWake, ReceiverDeliver, ReceiverError,
     ReceiverRequeue, ReceiverSpawn, ReceiverCheckClosed, FailOne, ReceiverFrame, callVars,
     sndVars, InHand
<1>3. CASE \/ Close \/ Closer \/ ConnDrop \/ ConnRecover \/ \E s \in Streams : StreamBreak(s)
           \/ \E r \in Requests : Cancel(r) \/ Consume(r)
  BY <1>3 DEF Close, Closer, CloseFrame, CloseCancelPending, CloseConn, FailOne, ConnDrop,
     ConnRecover, StreamBreak, Cancel, Consume, EnvFrame, callVars, sndVars, InHand
<1>4. ASSUME NEW r \in Requests,
             \/ Call(r) \/ EnqueueCheck(r) \/ EnqueueClosed(r) \/ ReceiverResponse(r)
             \/ ReceiverBackCall(r) \/ Watch(r)
      PROVE  (InHand(q)' => InHand(q)) /\ started \subseteq started'
  BY <1>4 DEF Call, EnqueueCheck, EnqueueClosed, ReceiverResponse, ReceiverBackCall,
     ReceiverFrame, Watch, WatchFire, WatchClear, WatchRequeue, WatchSpawn, WatchFrame, FailOne,
     callVars, sndVars, InHand
<1>5. ASSUME NEW r \in Requests, EnqueueSend(r)
      PROVE  (InHand(q)' => InHand(q) \/ InEnqueue(q)) /\ started \subseteq started'
  BY <1>5 DEF EnqueueSend, callVars, sndVars, InHand, InEnqueue
<1> QED BY <1>1, <1>2, <1>3, <1>4, <1>5 DEF Next

\* The wire gets what is in Send.
LEMMA WireComes ==
    ASSUME Inv, Next, NEW q \in Requests, NEW s \in Streams, SentOn(q, s)', ~SentOn(q, s)
    PROVE  SenderSend /\ sndReq = q /\ sndStream = s /\ InHand(q)
<1>1. SenderSend
  <2>1. wire' # wire
    BY DEF SentOn
  <2> QED BY <2>1, WireStays
<1>2. /\ wire \in [Streams -> Seq(Requests)] /\ sndReq \in Requests /\ sndPc = "send"
      /\ wire' = [wire EXCEPT ![sndStream] = Append(@, sndReq)]
  BY <1>1 DEF Inv, TypeOK, StreamTypes, GoroutineTypes, LocalsMatchPc, SenderLocals, SenderSend
<1>3. s = sndStream
  <2>1. wire'[s] # wire[s]
    BY DEF SentOn
  <2> QED BY <1>2, <2>1
<1>4. wire'[s] = Append(wire[s], sndReq) /\ wire[s] \in Seq(Requests)
  BY <1>2, <1>3
<1>5. \A i \in DOMAIN wire'[s] : \/ i \in DOMAIN wire[s] /\ wire'[s][i] = wire[s][i]
                                 \/ wire'[s][i] = sndReq
  BY <1>2, <1>4, AppendPlaces, SMT
<1>6. sndReq = q
  BY <1>5 DEF SentOn
<1> QED BY <1>1, <1>2, <1>3, <1>6 DEF InHand

\* A call appears with its caller only.
LEMMA FreshStep ==
    ASSUME Inv, Fresh, Next PROVE Fresh'
<1> SUFFICES ASSUME Second \notin started' PROVE ~InHand(Second)' /\ ~SentOn(Second, 1)'
  BY DEF Fresh
<1>1. Second \in Requests /\ 1 \in Streams
  BY CallerAssumption, BoundAssumption, SMT DEF Streams
<1>2. Second \notin started
  BY <1>1, HandComes
<1>3. ~InHand(Second) /\ ~SentOn(Second, 1)
  BY <1>2 DEF Fresh
<1>4. ~InSendQ(Second) /\ ~InEnqueue(Second)
  BY <1>1, <1>2 DEF Inv, OneOwner, OwnedOnce, Held
<1>5. ~InHand(Second)'
  BY <1>1, <1>3, <1>4, HandComes
<1>6. ~SentOn(Second, 1)'
  BY <1>1, <1>3, WireComes
<1> QED BY <1>5, <1>6

\* While the first stream is the only one, the queue keeps the caller's order.
LEMMA AheadStep ==
    ASSUME Inv, StreamOrder, Retired, Fresh, Ahead, Next, OneCaller PROVE Ahead'
<1> DEFINE After == /\ First \in started' /\ enqPc'[First] = "none" /\ InFront'
                    /\ InHand(Second)' \/ SentOn(Second, 1)' => ~InSendQ(First)' /\ ~InHand(First)'
<1> SUFFICES ASSUME ~Past', Second \in started' PROVE After
  BY DEF Ahead
<1>0. /\ First \in Requests /\ Second \in Requests /\ First # Second /\ 1 \in Streams
      /\ QueueTypes /\ OneOwner
  BY CallerAssumption, BoundAssumption, SMT DEF Streams, Inv, TypeOK
<1>1. /\ ~Past /\ (\A g \in Goroutines : requeue[g] = {}) /\ (\A r \in Requests : rest[r] = {})
      /\ Second \in started =>
            /\ First \in started /\ enqPc[First] = "none" /\ InFront
            /\ InHand(Second) \/ SentOn(Second, 1) => ~InSendQ(First) /\ ~InHand(First)
      /\ Second \notin started =>
            ~InHand(Second) /\ ~SentOn(Second, 1) /\ ~InSendQ(Second) /\ Second \notin started
  BY <1>0, StreamsInOrder DEF Retired, Ahead, Fresh, OneOwner, OwnedOnce, Held
<1>2. ASSUME UNCHANGED <<started, enqPc, sendQ, wire>>,
             InHand(First)' => InHand(First), InHand(Second)' => InHand(Second)
      PROVE  After
  BY <1>1, <1>2 DEF InFront, SentOn, InSendQ
<1>3. ASSUME NEW r \in Requests, EnqueueReturn(r)
      PROVE  \A q \in Requests : enqPc'[q] = IF q = r THEN "none" ELSE enqPc[q]
  <2>1. enqPc' = [enqPc EXCEPT ![r] = "none"]
    BY <1>1, <1>3 DEF EnqueueReturn, EnqueueBatch
  <2> QED BY <1>0, <2>1 DEF QueueTypes
<1>4. ASSUME NEW g \in Goroutines, SpawnRequeue(g) PROVE UNCHANGED enqPc
  BY <1>1, <1>4 DEF SpawnRequeue, EnqueueBatch
<1>5. CASE Sender
  <2>0. UNCHANGED started
    BY <1>5 DEF Sender, SenderFrame, SenderEnsureStream, SenderSignal, SenderTake, SenderCheck,
       SenderRegister, SenderSend, SenderSendFail, SenderRequeue, SenderSpawn, SenderReply,
       SenderExit, SenderDrain, FailOne, callVars
  <2>1. CASE \/ SenderEnsureStream \/ SenderSignal \/ SenderCheck \/ SenderRegister
             \/ SenderSendFail \/ SenderRequeue \/ SenderReply \/ SenderExit \/ FailOne("sender")
    <3>1. UNCHANGED <<enqPc, sendQ, wire>>
      BY <2>1 DEF SenderEnsureStream, SenderSignal, SenderCheck, SenderRegister, SenderSendFail,
         SenderRequeue, SenderReply, SenderExit, FailOne, enqVars, netVars
    <3>2. \A q \in Requests : InHand(q)' => InHand(q)
      BY <2>1, NameAssumption DEF SenderEnsureStream, SenderSignal, SenderCheck, SenderRegister,
         SenderSendFail, SenderRequeue, SenderReply, SenderExit, SenderLoop, FailOne, sndVars,
         InHand
    <3> QED BY <1>0, <1>2, <2>0, <3>1, <3>2
  <2>2. CASE SenderSpawn
    <3>1. UNCHANGED <<enqPc, sendQ, wire>>
      BY <2>2, <1>4, GoroutineNames DEF SenderSpawn, netVars
    <3>2. \A q \in Requests : ~InHand(q)'
      BY <2>2 DEF SenderSpawn, SenderLoop, InHand
    <3> QED BY <1>0, <1>2, <2>0, <3>1, <3>2
  <2>3. CASE SenderSend
    <3>1. /\ UNCHANGED <<enqPc, sendQ>> /\ \A q \in Requests : ~InHand(q)'
      BY <2>3 DEF SenderSend, SenderLoop, enqVars, InHand
    <3>2. SentOn(Second, 1)' => SentOn(Second, 1) \/ InHand(Second)
      BY <1>0, WireComes
    <3> QED BY <1>0, <1>1, <2>0, <3>1, <3>2 DEF InFront, InSendQ
  <2>4. ASSUME sendQ # <<>>, sendQ' = Tail(sendQ)
        PROVE  /\ sendQ[1] = Head(sendQ) /\ 1 \in DOMAIN sendQ
               /\ InFront => InFront'
               /\ InSendQ(First)' => InSendQ(First) /\ Head(sendQ) # First
    <3>1. sendQ \in Seq(Requests)
      BY <1>0 DEF QueueTypes
    <3>2. sendQ[1] = Head(sendQ) /\ 1 \in DOMAIN sendQ
      BY <2>4, <3>1, SMT
    <3>3. /\ \A i \in DOMAIN sendQ' : /\ i \in Nat /\ i + 1 \in DOMAIN sendQ
                                      /\ sendQ'[i] = sendQ[i + 1]
          /\ \A i, j \in DOMAIN sendQ' : i + 1 < j + 1 => i < j
      BY <2>4, <3>1, SMT
    <3>4. InFront => InFront'
      BY <3>3 DEF InFront
    <3>5. InSendQ(First)' => InSendQ(First) /\ Head(sendQ) # First
      BY <1>0, <2>4, SendQTail DEF OneOwner
    <3> QED BY <3>2, <3>4, <3>5
  <2>5. CASE SenderTake
    <3>1. /\ UNCHANGED <<enqPc, wire>> /\ sendQ # <<>> /\ sendQ' = Tail(sendQ)
          /\ sndReq' = Head(sendQ)
      BY <2>5 DEF SenderTake, enqVars, netVars
    <3>2. Head(sendQ) = First => InSendQ(First)
      BY <2>4, <3>1 DEF InSendQ
    <3>3. Head(sendQ) = Second => ~InSendQ(First)
      <4>1. ASSUME NEW i \in DOMAIN sendQ, sendQ[i] = First, Head(sendQ) = Second PROVE FALSE
        <5>1. i < 1
          BY <1>1, <2>0, <2>4, <3>1, <4>1 DEF InFront
        <5>2. i \in Nat /\ i >= 1
          BY <1>0, SMT DEF QueueTypes
        <5> QED BY <5>1, <5>2, SMT
      <4> QED BY <4>1 DEF InSendQ
    <3>4. \A q \in Requests : InHand(q)' => q = Head(sendQ)
      BY <3>1 DEF InHand
    <3>5. SentOn(Second, 1)' <=> SentOn(Second, 1)
      BY <3>1 DEF SentOn
    <3> QED BY <1>0, <1>1, <2>0, <2>4, <3>1, <3>2, <3>3, <3>4, <3>5
  <2>6. CASE SenderDrain
    <3>1. UNCHANGED <<enqPc, wire, sndVars>> /\ sendQ # <<>> /\ sendQ' = Tail(sendQ)
      BY <2>6 DEF SenderDrain, enqVars, netVars
    <3>2. /\ SentOn(Second, 1)' <=> SentOn(Second, 1)
          /\ \A q \in Requests : InHand(q)' <=> InHand(q)
      BY <3>1 DEF SentOn, InHand, sndVars
    <3> QED BY <1>0, <1>1, <2>0, <2>4, <3>1, <3>2
  <2> QED BY <1>5, <2>1, <2>2, <2>3, <2>5, <2>6 DEF Sender
<1>6. CASE Receiver
  <2>1. UNCHANGED <<started, sendQ, wire, sndVars>>
    BY <1>6 DEF Receiver, ReceiverGetStream, ReceiverWake, ReceiverDeliver, ReceiverError,
       ReceiverRequeue, ReceiverSpawn, ReceiverCheckClosed, FailOne, ReceiverFrame, callVars,
       netVars
  <2>2. UNCHANGED enqPc
    BY <1>4, <1>6, GoroutineNames DEF Receiver, ReceiverGetStream, ReceiverWake, ReceiverDeliver,
       ReceiverError, ReceiverRequeue, ReceiverSpawn, ReceiverCheckClosed, FailOne, enqVars
  <2> QED BY <1>2, <2>1, <2>2 DEF InHand, sndVars
<1>7. CASE \/ Close \/ Closer \/ ConnDrop \/ ConnRecover \/ \E s \in Streams : StreamBreak(s)
           \/ \E r \in Requests : Cancel(r) \/ Consume(r)
  <2>1. UNCHANGED <<started, enqPc, sendQ, wire, sndVars>>
    BY <1>7 DEF Close, Closer, CloseFrame, CloseCancelPending, CloseConn, FailOne, ConnDrop,
       ConnRecover, StreamBreak, Cancel, Consume, EnvFrame, callVars, enqVars, netVars
  <2> QED BY <1>2, <2>1 DEF InHand, sndVars
<1>8. ASSUME NEW r \in Requests, Watch(r) \/ ReceiverResponse(r) PROVE After
  <2>1. UNCHANGED <<started, sendQ, wire, sndVars>>
    BY <1>8 DEF Watch, WatchFire, WatchClear, WatchRequeue, WatchSpawn, FailOne, WatchFrame,
       ReceiverResponse, ReceiverFrame, callVars, netVars
  <2>2. UNCHANGED enqPc
    BY <1>4, <1>8, GoroutineNames DEF Watch, WatchFire, WatchClear, WatchRequeue, WatchSpawn,
       FailOne, ReceiverResponse, enqVars
  <2> QED BY <1>2, <2>1, <2>2 DEF InHand, sndVars
<1>9. ASSUME NEW r \in Requests, Call(r) \/ ReceiverBackCall(r) PROVE After
  <2>1. /\ UNCHANGED <<sendQ, wire, sndVars>> /\ started' = started \cup {r} /\ r \notin started
        /\ EnqueueBatch(enqPc, rest, {r})
    BY <1>9 DEF Call, ReceiverBackCall, ReceiverFrame, netVars
  <2>2. \A q \in Requests : q # r => enqPc'[q] = enqPc[q]
    BY <1>0, <2>1 DEF EnqueueBatch, QueueTypes
  <2>3. /\ (InFront' <=> InFront) /\ (SentOn(Second, 1)' <=> SentOn(Second, 1))
        /\ InSendQ(First)' <=> InSendQ(First)
        /\ \A q \in Requests : InHand(q)' <=> InHand(q)
    BY <2>1 DEF InFront, SentOn, InSendQ, InHand, sndVars
  <2>4. CASE Second \in started
    BY <1>0, <1>1, <2>1, <2>2, <2>3, <2>4
  <2>5. CASE Second \notin started
    <3>1. r = Second /\ First \in started /\ enqPc[First] = "none"
      BY <2>1, <2>5 DEF OneCaller
    <3>2. InFront
      BY <1>1, <2>5 DEF InFront, InSendQ
    <3> QED BY <1>0, <1>1, <2>1, <2>2, <2>3, <2>5, <3>1, <3>2
  <2> QED BY <2>4, <2>5
<1>10. ASSUME NEW r \in Requests, EnqueueCheck(r) \/ EnqueueClosed(r) \/ EnqueueSend(r)
       PROVE  After
  <2>1. UNCHANGED <<started, wire>> /\ enqPc[r] # "none"
    BY <1>10 DEF EnqueueCheck, EnqueueClosed, EnqueueSend, callVars, netVars
  <2>2. r # First /\ Second \in started
    BY <1>1, <2>1
  <2>3. enqPc'[First] = "none"
    <3>1. enqPc'[First] = enqPc[First]
      BY <1>0, <1>3, <1>10, <2>2 DEF EnqueueCheck, EnqueueClosed, EnqueueSend, QueueTypes
    <3> QED BY <1>1, <2>2, <3>1
  <2>4. SentOn(Second, 1)' <=> SentOn(Second, 1)
    BY <2>1 DEF SentOn
  <2>5. CASE UNCHANGED <<sendQ, sndVars>>
    <3>1. /\ (InFront' <=> InFront) /\ (InSendQ(First)' <=> InSendQ(First))
          /\ \A q \in Requests : InHand(q)' <=> InHand(q)
      BY <2>5 DEF InFront, InSendQ, InHand, sndVars
    <3> QED BY <1>0, <1>1, <2>1, <2>2, <2>3, <2>4, <3>1
  <2>6. CASE PutInSendQ(r) /\ UNCHANGED sndVars
    <3>1. sendQ \in Seq(Requests) /\ sendQ' = Append(sendQ, r)
      BY <1>0, <2>6 DEF QueueTypes, PutInSendQ
    <3>2. /\ Len(sendQ) \in Nat /\ DOMAIN sendQ = 1..Len(sendQ)
          /\ DOMAIN sendQ' = 1..(Len(sendQ) + 1) /\ sendQ'[Len(sendQ) + 1] = r
          /\ \A i \in DOMAIN sendQ : sendQ'[i] = sendQ[i]
      BY <3>1, SMT
    <3>3. InSendQ(First)' => InSendQ(First)
      BY <2>2, <3>2, SMT DEF InSendQ
    <3>4. InFront'
      <4> SUFFICES ASSUME NEW i \in DOMAIN sendQ', NEW j \in DOMAIN sendQ',
                          sendQ'[i] = First, sendQ'[j] = Second
                   PROVE  i < j
        BY DEF InFront
      <4>1. i \in DOMAIN sendQ /\ sendQ[i] = First
        BY <2>2, <3>2, SMT
      <4>2. CASE j = Len(sendQ) + 1
        BY <3>2, <4>1, <4>2, SMT
      <4>3. CASE j \in DOMAIN sendQ
        BY <1>1, <2>2, <3>2, <4>1, <4>3 DEF InFront
      <4> QED BY <3>2, <4>2, <4>3, SMT
    <3>5. \A q \in Requests : InHand(q)' <=> InHand(q)
      BY <2>6 DEF InHand, sndVars
    <3> QED BY <1>0, <1>1, <2>1, <2>2, <2>3, <2>4, <3>3, <3>4, <3>5
  <2>7. CASE SendBuffer = 0 /\ sndReq' = r /\ UNCHANGED sendQ
    <3>1. sendQ = <<>>
      BY <1>0, <2>7, SMT DEF QueueTypes
    <3>2. InFront' /\ ~InSendQ(First)'
      BY <2>7, <3>1, SMT DEF InFront, InSendQ
    <3>3. ~InHand(First)'
      BY <2>2, <2>7 DEF InHand
    <3> QED BY <1>1, <2>1, <2>2, <2>3, <3>2, <3>3
  <2> QED BY <1>10, <2>5, <2>6, <2>7 DEF EnqueueCheck, EnqueueClosed, EnqueueSend
<1> QED BY <1>5, <1>6, <1>7, <1>8, <1>9, <1>10 DEF Next

\* A sender in Register or Send read c.stream in SenderCheck.
LEMMA RegisterComes ==
    ASSUME Next, sndPc' \in {"register", "send"}
    PROVE  \/ sndPc = "check" /\ sndReq' = sndReq /\ sndStream' = stream /\ wire' = wire
           \/ sndPc \in {"register", "send"} /\ UNCHANGED <<sndReq, sndStream, wire>>
<1>1. CASE Sender
  BY <1>1 DEF Sender, SenderEnsureStream, SenderSignal, SenderTake, SenderCheck, SenderRegister,
     SenderSend, SenderSendFail, SenderRequeue, SenderSpawn, SenderReply, SenderExit, SenderDrain,
     SenderLoop, FailOne, sndVars, netVars
<1>2. CASE Receiver
  BY <1>2 DEF Receiver, ReceiverGetStream, ReceiverWake, ReceiverDeliver, ReceiverError,
     ReceiverRequeue, ReceiverSpawn, ReceiverCheckClosed, FailOne, ReceiverFrame, sndVars, netVars
<1>3. CASE \/ Close \/ Closer \/ ConnDrop \/ ConnRecover \/ \E s \in Streams : StreamBreak(s)
           \/ \E r \in Requests : Cancel(r) \/ Consume(r)
  BY <1>3 DEF Close, Closer, CloseFrame, CloseCancelPending, CloseConn, FailOne, ConnDrop,
     ConnRecover, StreamBreak, Cancel, Consume, EnvFrame, sndVars, netVars
<1>4. ASSUME NEW r \in Requests,
             \/ Call(r) \/ EnqueueCheck(r) \/ EnqueueClosed(r) \/ EnqueueSend(r)
             \/ ReceiverResponse(r) \/ ReceiverBackCall(r) \/ Watch(r)
      PROVE  UNCHANGED <<sndPc, sndReq, sndStream, wire>>
  BY <1>4 DEF Call, EnqueueCheck, EnqueueClosed, EnqueueSend, ReceiverResponse,
     ReceiverBackCall, ReceiverFrame, Watch, WatchFire, WatchClear, WatchRequeue, WatchSpawn,
     WatchFrame, FailOne, sndVars, netVars
<1> QED BY <1>1, <1>2, <1>3, <1>4 DEF Next

\* Once the second request is on the first stream, no sender takes the first one there.
LEMMA BehindStep ==
    ASSUME Inv, OrderInv, Next PROVE NotBehind'
<1> SUFFICES ASSUME SentOn(Second, 1)', sndReq' = First, sndPc' \in {"register", "send"},
                    sndStream' = 1
             PROVE  FALSE
  BY DEF NotBehind
<1>1. wire' = wire
  BY RegisterComes
<1>2. SentOn(Second, 1)
  BY <1>1 DEF SentOn
<1>3. CASE sndPc \in {"register", "send"} /\ UNCHANGED <<sndReq, sndStream>>
  BY <1>2, <1>3 DEF OrderInv, NotBehind
<1>4. CASE sndPc = "check" /\ sndReq' = sndReq /\ sndStream' = stream
  <2>1. ~Past
    BY <1>4 DEF Past
  <2>2. Second \in started
    BY <1>2 DEF OrderInv, Fresh
  <2>3. InHand(First)
    BY <1>4 DEF InHand
  <2> QED BY <1>2, <2>1, <2>2, <2>3 DEF OrderInv, Ahead
<1> QED BY <1>3, <1>4, RegisterComes

\* What is put on the first stream is put behind what is there.
LEMMA FifoStep ==
    ASSUME Inv, OrderInv, Next PROVE FifoOnFirstStream'
<1>0. /\ FifoOnFirstStream /\ 1 \in Streams /\ First # Second
      /\ First \in Requests /\ Second \in Requests
  BY CallerAssumption, BoundAssumption, SMT DEF OrderInv, Streams
<1>1. CASE wire'[1] = wire[1]
  BY <1>0, <1>1 DEF FifoOnFirstStream, InIssueOrder
<1>2. CASE wire'[1] # wire[1]
  <2>1. SenderSend
    BY <1>2, WireStays
  <2>2. /\ wire \in [Streams -> Seq(Requests)] /\ sndReq \in Requests /\ sndPc = "send"
        /\ wire' = [wire EXCEPT ![sndStream] = Append(@, sndReq)]
    BY <2>1 DEF Inv, TypeOK, StreamTypes, GoroutineTypes, LocalsMatchPc, SenderLocals, SenderSend
  <2>3. sndStream = 1 /\ wire'[1] = Append(wire[1], sndReq) /\ wire[1] \in Seq(Requests)
    BY <1>0, <1>2, <2>2
  <2>4. /\ Len(wire[1]) \in Nat /\ DOMAIN wire[1] = 1..Len(wire[1])
        /\ DOMAIN wire'[1] = 1..(Len(wire[1]) + 1) /\ wire'[1][Len(wire[1]) + 1] = sndReq
        /\ \A i \in DOMAIN wire[1] : wire'[1][i] = wire[1][i]
    BY <2>2, <2>3, SMT
  <2>5. sndReq = First => ~SentOn(Second, 1)
    BY <2>2, <2>3 DEF OrderInv, NotBehind
  <2>6. ASSUME NEW i \in DOMAIN wire'[1], NEW j \in DOMAIN wire'[1],
               wire'[1][i] = First, wire'[1][j] = Second
        PROVE  i < j
    <3>1. CASE i \in DOMAIN wire[1] /\ j \in DOMAIN wire[1]
      BY <1>0, <2>4, <2>6, <3>1 DEF FifoOnFirstStream, InIssueOrder
    <3>2. CASE i \in DOMAIN wire[1] /\ j = Len(wire[1]) + 1
      BY <2>4, <3>2, SMT
    <3>3. CASE i = Len(wire[1]) + 1 /\ j \in DOMAIN wire[1]
      BY <2>4, <2>5, <2>6, <3>3 DEF SentOn
    <3>4. CASE i = Len(wire[1]) + 1 /\ j = Len(wire[1]) + 1
      BY <1>0, <2>6, <3>4
    <3> QED BY <2>4, <3>1, <3>2, <3>3, <3>4, SMT
  <2> QED BY <2>6 DEF FifoOnFirstStream, InIssueOrder
<1> QED BY <1>1, <1>2

(* sendQ and the sender keep the order of one caller's requests on the first
   stream, for any other callers, cancellations, failures and requeues.      *)
THEOREM CallerInOrder == OneCallerSpec => []FifoOnFirstStream
<1>1. Init => OrderInv
  <2> SUFFICES ASSUME Init PROVE OrderInv
    OBVIOUS
  <2>1. 1 \in Streams /\ Second \in Requests /\ NoReq # Second
    BY CallerAssumption, BoundAssumption, NameAssumption, SMT DEF Streams
  <2>2. wire[1] = <<>> /\ sndReq = NoReq /\ started = {}
    BY <2>1 DEF Init
  <2>3. ~SentOn(Second, 1) /\ FifoOnFirstStream
    BY <2>2, SMT DEF SentOn, FifoOnFirstStream, InIssueOrder
  <2>4. StreamOrder /\ Retired
    BY SMT DEF Init, StreamOrder, Retired, Nil
  <2>5. Fresh /\ Ahead /\ NotBehind
    BY <2>1, <2>2, <2>3 DEF Fresh, Ahead, NotBehind, InHand
  <2> QED BY <2>3, <2>4, <2>5 DEF OrderInv
<1>2. Inv /\ OrderInv /\ [Next]_vars /\ [OneCaller]_vars => OrderInv'
  <2> SUFFICES ASSUME Inv, OrderInv, [Next]_vars, [OneCaller]_vars PROVE OrderInv'
    OBVIOUS
  <2>1. CASE UNCHANGED vars
    <3>1. /\ UNCHANGED <<started, enqVars, sendQ, sndVars, rcvVars, watchVars, stream, requeue>>
          /\ UNCHANGED <<created, wire>>
      BY <2>1 DEF vars, callVars, listVars, netVars
    <3>2. StreamOrder' /\ Retired'
      BY <3>1 DEF OrderInv, StreamOrder, Retired, Past, sndVars, rcvVars, watchVars, enqVars
    <3>3. Fresh' /\ Ahead' /\ NotBehind' /\ FifoOnFirstStream'
      BY <3>1 DEF OrderInv, Fresh, Ahead, NotBehind, FifoOnFirstStream, InIssueOrder, Past,
         InFront, InHand, InSendQ, SentOn, sndVars, enqVars
    <3> QED BY <3>2, <3>3 DEF OrderInv
  <2>2. CASE Next /\ OneCaller
    <3>1. StreamOrder' /\ Retired'
      BY <2>2, StreamsInOrder DEF OrderInv
    <3>2. Fresh' /\ Ahead'
      BY <2>2, FreshStep, AheadStep DEF OrderInv
    <3>3. NotBehind' /\ FifoOnFirstStream'
      BY <2>2, BehindStep, FifoStep
    <3> QED BY <3>1, <3>2, <3>3 DEF OrderInv
  <2> QED BY <2>1, <2>2
<1>3. OrderInv => FifoOnFirstStream
  BY DEF OrderInv
<1> QED BY <1>1, <1>2, <1>3, Invariance, PTL DEF OneCallerSpec, Spec

-----------------------------------------------------------------------------
(* The channel implements CallContract: every step of the channel is a step of
   the contract or leaves its variables alone.                               *)

ContractStep == [Contract!ContractNext]_(Contract!contractVars)

\* Both modules speak of the same requests.
LEMMA SameRequests == Contract!AllRequests = Requests
BY DEF Contract!AllRequests, Requests

\* What deliver puts on a response channel is an answer of the contract.
LEMMA DeliverAnswers ==
    ASSUME NEW r \in Requests, NEW v \in ReplyValues, deliver(r, v),
           UNCHANGED <<started, cancelled, closed>>,
           r \in started, r \notin Silent,
           v = "value" => r \in TwoWay \cup Streaming,
           v = "sent" => r \in OneWay,
           v = "closed" => closed,
           v = "ctx" => r \in cancelled,
           (v = "value" /\ r \in Streaming) \/ ~Answered(r)
    PROVE  ContractStep
<1>1. CASE UNCHANGED replyVars
  BY <1>1 DEF ContractStep, Contract!contractVars, replyVars
<1>2. CASE replies' = [replies EXCEPT ![r] = Append(@, v)]
  <2>1. v \in {"value", "sent"} \cup Contract!Errors
    BY DEF ReplyValues, Errors
  <2>2. /\ r \notin Streaming => replies[r] = <<>>
        /\ v \in Contract!Errors => ~Contract!HasError(replies[r])
    BY SMT DEF Answered, Contract!Errors, Contract!HasError
  <2>3. Contract!Answer(r, v)
    BY <1>2, <2>1, <2>2 DEF Contract!Answer
  <2> QED BY <2>1, <2>3, SameRequests DEF ContractStep, Contract!ContractNext
<1> QED BY <1>1, <1>2 DEF deliver

\* The same of replyError, which puts nothing where there is no channel.
LEMMA ReplyErrorAnswers ==
    ASSUME NEW r \in Requests, NEW e \in Errors, replyError(r, e),
           UNCHANGED <<started, cancelled, closed>>,
           r \in started, e = "closed" => closed, e = "ctx" => CtxDone(r),
           ~Answered(r)
    PROVE  ContractStep
<1>1. CASE r \in Silent
  BY <1>1 DEF replyError, HasResponseChan, ContractStep, Contract!contractVars, replyVars
<1>2. CASE r \notin Silent
  <2>1. e = "ctx" => r \in cancelled
    BY <1>2 DEF CtxDone, Silent
  <2>2. e \in ReplyValues /\ e # "value" /\ e # "sent"
    BY ReplyNames
  <2>3. deliver(r, e)
    BY <1>2 DEF replyError, HasResponseChan
  <2> QED BY <1>2, <2>1, <2>2, <2>3, DeliverAnswers
<1> QED BY <1>1, <1>2

\* The steps that put nothing on a response channel.
LEMMA QuietSteps ==
    ASSUME \/ SenderEnsureStream \/ SenderSignal \/ SenderTake \/ SenderCheck
           \/ SenderRegister \/ SenderSend \/ SenderSendFail \/ SenderRequeue
           \/ SenderSpawn \/ SenderExit
           \/ ReceiverGetStream \/ ReceiverWake \/ ReceiverError \/ ReceiverRequeue
           \/ ReceiverSpawn \/ ReceiverCheckClosed
           \/ CloseCancelPending \/ CloseConn \/ ConnDrop \/ ConnRecover
           \/ \E s \in Streams : StreamBreak(s)
           \/ \E r \in Requests :
                 \/ Consume(r) \/ ReceiverResponse(r) \/ WatchFire(r) \/ WatchClear(r)
                 \/ WatchRequeue(r) \/ WatchSpawn(r)
    PROVE  ContractStep
<1>1. UNCHANGED <<started, cancelled, closed, replies>>
  <2> USE DEF callVars, closeVars, replyVars
  <2>1. CASE \/ SenderEnsureStream \/ SenderSignal \/ SenderTake \/ SenderCheck
             \/ SenderRegister \/ SenderSend
    BY <2>1 DEF SenderEnsureStream, SenderSignal, SenderTake, SenderCheck,
       SenderRegister, SenderSend, SenderFrame
  <2>2. CASE SenderSendFail \/ SenderRequeue \/ SenderSpawn \/ SenderExit
    BY <2>2 DEF SenderSendFail, SenderRequeue, SenderSpawn, SenderExit, SenderFrame
  <2>3. CASE \/ ReceiverGetStream \/ ReceiverWake \/ ReceiverError \/ ReceiverRequeue
             \/ ReceiverSpawn \/ ReceiverCheckClosed
    BY <2>3 DEF ReceiverGetStream, ReceiverWake, ReceiverError, ReceiverRequeue,
       ReceiverSpawn, ReceiverCheckClosed, ReceiverFrame
  <2>4. CASE CloseCancelPending \/ CloseConn
    BY <2>4 DEF CloseCancelPending, CloseConn, CloseFrame
  <2>5. CASE ConnDrop \/ ConnRecover \/ \E s \in Streams : StreamBreak(s)
    BY <2>5 DEF ConnDrop, ConnRecover, StreamBreak, EnvFrame
  <2>6. CASE \E r \in Requests : Consume(r) \/ ReceiverResponse(r)
    BY <2>6 DEF Consume, EnvFrame, ReceiverResponse, ReceiverFrame
  <2>7. CASE \E r \in Requests :
               WatchFire(r) \/ WatchClear(r) \/ WatchRequeue(r) \/ WatchSpawn(r)
    BY <2>7 DEF WatchFire, WatchClear, WatchRequeue, WatchSpawn, WatchFrame
  <2> QED BY <2>1, <2>2, <2>3, <2>4, <2>5, <2>6, <2>7
<1> QED BY <1>1 DEF ContractStep, Contract!contractVars

\* Every step of the channel is a step of the contract.
LEMMA StepImplements ==
    ASSUME Inv, Next PROVE ContractStep
<1>0. /\ QueueTypes /\ GoroutineTypes /\ SenderLocals /\ ReceiverLocals /\ ListLocals
      /\ \A q \in Requests : OwnedOnce(q)
  BY DEF Inv, TypeOK, LocalsMatchPc, OneOwner
<1>1. \A q \in Requests : Held(q) => q \in started /\ ~Answered(q)
  BY <1>0 DEF OwnedOnce, Held
<1>2. CASE Close
  BY <1>2 DEF Close, CloseFrame, callVars, replyVars, ContractStep,
     Contract!ContractNext, Contract!CloseNode
<1>3. ASSUME NEW r \in Requests, Call(r) \/ ReceiverBackCall(r) PROVE ContractStep
  <2>1. Contract!StartCall(r)
    BY <1>3 DEF Call, ReceiverBackCall, ReceiverFrame, closeVars, replyVars,
       Contract!StartCall
  <2> QED BY <2>1, SameRequests DEF ContractStep, Contract!ContractNext
<1>4. ASSUME NEW r \in Requests, Cancel(r) PROVE ContractStep
  <2>1. Contract!CancelCall(r)
    BY <1>4 DEF Cancel, EnvFrame, closeVars, Contract!CancelCall
  <2> QED BY <2>1, SameRequests DEF ContractStep, Contract!ContractNext
<1>5. ASSUME NEW r \in Requests, EnqueueCheck(r) \/ EnqueueClosed(r) \/ EnqueueSend(r)
      PROVE  ContractStep
  <2>1. /\ UNCHANGED <<started, cancelled, closed>>
        /\ InEnqueue(r)
        /\ \/ UNCHANGED replies
           \/ closed /\ replyError(r, "closed")
    BY <1>0, <1>5 DEF EnqueueCheck, EnqueueClosed, EnqueueSend, InEnqueue, SenderLocals,
       callVars, closeVars, replyVars
  <2>2. CASE UNCHANGED replies
    BY <2>1, <2>2 DEF ContractStep, Contract!contractVars
  <2>3. CASE closed /\ replyError(r, "closed")
    <3>1. r \in started /\ ~Answered(r) /\ "closed" \in Errors
      BY <1>1, <2>1, ReplyNames DEF Held
    <3> QED BY <2>1, <2>3, <3>1, ReplyErrorAnswers
  <2> QED BY <2>1, <2>2, <2>3
<1>6. CASE SenderReply
  <2>1. /\ UNCHANGED <<started, cancelled, closed>>
        /\ sndReq \in Requests /\ SenderHolds(sndReq)
    BY <1>0, <1>6, NameAssumption DEF SenderReply, SenderFrame, callVars, closeVars,
       SenderHolds, SenderLocals, GoroutineTypes
  <2>2. sndReq \in started /\ ~Answered(sndReq)
    BY <1>1, <2>1 DEF Held
  <2>3. CASE sndPc = "reply" /\ replyError(sndReq, sndErr)
    <3>1. sndErr \in Errors /\ sndErr # "closed" /\ (sndErr = "ctx" => CtxDone(sndReq))
      BY <1>0, <2>3, ReplyNames DEF GoroutineTypes, SenderLocals
    <3> QED BY <2>1, <2>2, <2>3, <3>1, ReplyErrorAnswers
  <2>4. CASE sndPc = "confirm" /\ deliver(sndReq, "sent")
    <3>1. sndReq \in OneWay /\ sndReq \notin Silent /\ "sent" \in ReplyValues
      BY <1>0, <2>4, ReplyNames, KindAssumption DEF SenderLocals
    <3> QED BY <2>1, <2>2, <2>4, <3>1, DeliverAnswers
  <2> QED BY <1>6, <2>3, <2>4 DEF SenderReply
<1>7. CASE SenderDrain
  <2>1. /\ UNCHANGED <<started, cancelled, closed>>
        /\ closed /\ replyError(Head(sendQ), "closed")
        /\ Head(sendQ) \in Requests /\ InSendQ(Head(sendQ))
    BY <1>0, <1>7, SendQTail DEF SenderDrain, SenderFrame, callVars, closeVars,
       SenderLocals, Inv, OneOwner
  <2>2. Head(sendQ) \in started /\ ~Answered(Head(sendQ)) /\ "closed" \in Errors
    BY <1>1, <2>1, ReplyNames DEF Held
  <2> QED BY <2>1, <2>2, ReplyErrorAnswers
<1>8. CASE ReceiverDeliver
  <2>1. /\ UNCHANGED <<started, cancelled, closed>>
        /\ deliver(rcvReq, "value") /\ rcvPc = "deliver"
        /\ rcvReq \in (TwoWay \cup Streaming) \cap started
    BY <1>0, <1>8 DEF ReceiverDeliver, ReceiverFrame, closeVars, ReceiverLocals
  <2>2. /\ rcvReq \in Requests /\ rcvReq \notin Silent /\ "value" \in ReplyValues
        /\ rcvReq \in Streaming \/ ReceiverHolds(rcvReq)
    BY <2>1, RequestKinds, KindAssumption, ReplyNames DEF ReceiverHolds
  <2>3. rcvReq \in Streaming \/ ~Answered(rcvReq)
    BY <1>1, <2>2 DEF Held
  <2> QED BY <2>1, <2>2, <2>3, DeliverAnswers
<1>9. ASSUME NEW g \in Goroutines, FailOne(g) PROVE ContractStep
  <2>1. UNCHANGED <<started, cancelled, closed>>
    BY <1>9 DEF FailOne, callVars, closeVars
  <2>2. PICK r \in failing[g] : replyError(r, PendingError(g))
    BY <1>9 DEF FailOne
  <2>3. r \in Requests /\ InFailing(r)
    BY <1>0 DEF QueueTypes, InFailing
  <2>4. /\ PendingError(g) \in Errors /\ PendingError(g) # "ctx"
        /\ PendingError(g) = "closed" => closed
    BY <1>0, <2>2, ReplyNames DEF PendingError, ListLocals
  <2>5. r \in started /\ ~Answered(r)
    BY <1>1, <2>3 DEF Held
  <2> QED BY <2>1, <2>2, <2>3, <2>4, <2>5, ReplyErrorAnswers
<1> QED BY <1>2, <1>3, <1>4, <1>5, <1>6, <1>7, <1>8, <1>9, QuietSteps, GoroutineNames
        DEF Next, Sender, Receiver, Closer, Watch

\* The channel implements the contract: whatever the order in which the server,
\* the network, the contexts and Close act, a call gets at most one terminal
\* reply, of the right kind and for the right reason.
THEOREM Refinement == Spec => ImplementsContract
<1>1. Init => Contract!ContractInit
  BY SameRequests DEF Init, Contract!ContractInit
<1>2. Inv /\ [Next]_vars => ContractStep
  <2>1. CASE Next
    BY <2>1, StepImplements
  <2>2. CASE UNCHANGED vars
    BY <2>2 DEF vars, callVars, closeVars, replyVars, ContractStep, Contract!contractVars
  <2> QED BY <2>1, <2>2
<1> QED BY <1>1, <1>2, Invariance, PTL
        DEF Spec, ImplementsContract, Contract!ContractSpec, ContractStep

\* A step of the contract never adds a second terminal reply.
LEMMA ContractOnce ==
    ASSUME ReplyTypes, AtMostOneReply, ContractStep PROVE AtMostOneReply'
<1>1. CASE UNCHANGED replies
  BY <1>1 DEF AtMostOneReply
<1>2. ASSUME NEW r \in Requests, NEW v, Contract!Answer(r, v) PROVE AtMostOneReply'
  <2>1. /\ replies[r] \in Seq(ReplyValues)
        /\ \A q \in Requests :
              replies'[q] = IF q = r THEN Append(replies[r], v) ELSE replies[q]
    BY <1>2 DEF Contract!Answer, ReplyTypes
  <2>2. r \notin Streaming => Len(Append(replies[r], v)) <= 1
    BY <1>2, <2>1, SMT DEF Contract!Answer
  <2>3. ASSUME r \in Streaming, NEW i \in DOMAIN Append(replies[r], v),
               NEW j \in DOMAIN Append(replies[r], v),
               Append(replies[r], v)[i] \in Errors, Append(replies[r], v)[j] \in Errors
        PROVE  i = j
    <3>1. \A k \in DOMAIN Append(replies[r], v) :
             \/ k \in DOMAIN replies[r] /\ Append(replies[r], v)[k] = replies[r][k]
             \/ k = Len(replies[r]) + 1 /\ Append(replies[r], v)[k] = v
      BY <2>1, SMT
    <3>2. v \in Errors => \A k \in DOMAIN replies[r] : replies[r][k] \notin Errors
      BY <1>2 DEF Contract!Answer, Contract!HasError, Errors
    <3> QED BY <2>3, <3>1, <3>2 DEF AtMostOneReply
  <2> QED BY <2>1, <2>2, <2>3, RequestKinds DEF AtMostOneReply
<1>3. \/ UNCHANGED replies
      \/ \E r \in Requests, v \in {"value", "sent"} \cup Contract!Errors : Contract!Answer(r, v)
  BY SameRequests DEF ContractStep, Contract!contractVars, Contract!ContractNext,
     Contract!StartCall, Contract!CancelCall, Contract!CloseNode
<1> QED BY <1>1, <1>2, <1>3

\* A call is ended at most once: two goroutines that fail, retry, answer or
\* close at the same time never both put a terminal reply on its channel.
THEOREM AtMostOnce == Spec => []AtMostOneReply
<1>1. Init => AtMostOneReply
  <2> SUFFICES ASSUME Init PROVE AtMostOneReply
    OBVIOUS
  <2>1. \A r \in Requests : replies[r] = <<>>
    BY DEF Init
  <2> QED BY <2>1, RequestKinds, SMT DEF AtMostOneReply
<1>2. Inv /\ AtMostOneReply /\ [Next]_vars => AtMostOneReply'
  <2>1. CASE Next
    BY <2>1, StepImplements, ContractOnce DEF Inv, TypeOK
  <2>2. CASE UNCHANGED vars
    BY <2>2 DEF vars, replyVars, AtMostOneReply
  <2> QED BY <2>1, <2>2
<1> QED BY <1>1, <1>2, Invariance, PTL DEF Spec
=============================================================================
