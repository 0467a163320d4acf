----------------------- MODULE OutboundChannelProofs -----------------------
(***************************************************************************)
(* Proofs about OutboundChannel, for every set of requests, queue size and *)
(* number of streams.                                                      *)
(***************************************************************************)
EXTENDS OutboundChannel, TLAPS

\* The prover of every leaf that names no other.
USE Zenon

\* The names of the goroutines are goroutines.
LEMMA GoroutineNames ==
    /\ "sender" \in Goroutines /\ "receiver" \in Goroutines /\ "closer" \in Goroutines
    /\ \A r \in Requests : r \in Goroutines
BY DEF Goroutines

\* The values that are put on a response channel.
LEMMA ReplyNames ==
    /\ Errors = {"closed", "ctx", "down", "conn", "send"}
    /\ ReplyValues = {"value", "sent", "closed", "ctx", "down", "conn", "send"}
BY DEF ReplyValues, Errors, Contract!Errors

\* Every kind of request is a request.
LEMMA RequestKinds ==
    /\ TwoWay \subseteq Requests /\ Streaming \subseteq Requests
    /\ OneWay \subseteq Requests /\ Silent \subseteq Requests
    /\ BackReply \subseteq Requests
BY DEF Requests, Silent

-----------------------------------------------------------------------------
(* Types *)

\* deliver keeps the types of the response channels.
LEMMA DeliverType ==
    ASSUME ReplyTypes, NEW r \in Requests, NEW v \in ReplyValues, deliver(r, v)
    PROVE  ReplyTypes'
<1>1. Append(replies[r], v) \in Seq(ReplyValues)
  BY SMT DEF ReplyTypes
<1>2. CASE UNCHANGED replyVars
  BY <1>2 DEF replyVars, ReplyTypes
<1>3. CASE /\ replies' = [replies EXCEPT ![r] = Append(@, v)]
           /\ unread' = [unread EXCEPT ![r] = IF r \in Streaming THEN @ + 1 ELSE @]
  <2>1. replies' \in [Requests -> Seq(ReplyValues)]
    BY <1>1, <1>3 DEF ReplyTypes
  <2>2. unread' \in [Requests -> Nat]
    BY <1>3, SMT DEF ReplyTypes
  <2> QED BY <2>1, <2>2 DEF ReplyTypes
<1> QED BY <1>2, <1>3 DEF deliver

\* The same of replyError.
LEMMA ReplyErrorType ==
    ASSUME ReplyTypes, NEW r \in Requests, NEW v \in ReplyValues, replyError(r, v)
    PROVE  ReplyTypes'
BY DeliverType DEF replyError, replyVars, ReplyTypes

\* Starting a batch keeps the types of the Enqueue calls.
LEMMA BatchType ==
    ASSUME NEW g \in [Requests -> {"none", "check", "select"}],
           NEW t \in [Requests -> SUBSET Requests],
           NEW S \in SUBSET Requests,
           EnqueueBatch(g, t, S)
    PROVE  /\ enqPc' \in [Requests -> {"none", "check", "select"}]
           /\ rest' \in [Requests -> SUBSET Requests]
BY SMT DEF EnqueueBatch

\* The same when an Enqueue call returns.
LEMMA ReturnType ==
    ASSUME QueueTypes, NEW r \in Requests, EnqueueReturn(r)
    PROVE  /\ enqPc' \in [Requests -> {"none", "check", "select"}]
           /\ rest' \in [Requests -> SUBSET Requests]
BY BatchType DEF EnqueueReturn, QueueTypes

\* Handing the requeue list to a goroutine keeps the types of the queues.
LEMMA SpawnType ==
    ASSUME QueueTypes, NEW g \in Goroutines, SpawnRequeue(g), UNCHANGED <<sendQ, pending>>
    PROVE  QueueTypes'
<1>1. /\ enqPc' \in [Requests -> {"none", "check", "select"}]
      /\ rest' \in [Requests -> SUBSET Requests]
  BY BatchType DEF SpawnRequeue, QueueTypes
<1> QED BY <1>1 DEF SpawnRequeue, QueueTypes

\* What a step leaves alone keeps its types.
LEMMA TypeFrame ==
    /\ CallTypes /\ UNCHANGED <<callVars, closeVars>> => CallTypes'
    /\ QueueTypes /\ UNCHANGED <<enqVars, sendQ, pending, listVars>> => QueueTypes'
    /\ GoroutineTypes /\ UNCHANGED <<sndVars, rcvVars, watchVars>> => GoroutineTypes'
    /\ ReplyTypes /\ UNCHANGED replyVars => ReplyTypes'
    /\ StreamTypes /\ UNCHANGED <<stream, ready, netVars, doomed>> => StreamTypes'
<1>1. CallTypes /\ UNCHANGED <<callVars, closeVars>> => CallTypes'
  BY DEF CallTypes, callVars, closeVars
<1>2. QueueTypes /\ UNCHANGED <<enqVars, sendQ, pending, listVars>> => QueueTypes'
  BY DEF QueueTypes, enqVars, listVars
<1>3. GoroutineTypes /\ UNCHANGED <<sndVars, rcvVars, watchVars>> => GoroutineTypes'
  BY DEF GoroutineTypes, sndVars, rcvVars, watchVars
<1>4. ReplyTypes /\ UNCHANGED replyVars => ReplyTypes'
  BY DEF ReplyTypes, replyVars
<1>5. StreamTypes /\ UNCHANGED <<stream, ready, netVars, doomed>> => StreamTypes'
  BY DEF StreamTypes, netVars
<1> QED BY <1>1, <1>2, <1>3, <1>4, <1>5

\* Taking from and adding to sendQ.
LEMMA SendQTypes ==
    ASSUME QueueTypes
    PROVE  /\ sendQ # <<>> => /\ Head(sendQ) \in Requests
                              /\ Tail(sendQ) \in Seq(Requests)
                              /\ Len(Tail(sendQ)) <= SendBuffer
           /\ \A r \in Requests :
                 SendQHasRoom => /\ Append(sendQ, r) \in Seq(Requests)
                                 /\ Len(Append(sendQ, r)) <= SendBuffer
BY BoundAssumption, SMT DEF QueueTypes, SendQHasRoom

\* The types hold initially.
LEMMA InitType == Init => TypeOK
<1> SUFFICES ASSUME Init PROVE TypeOK
  OBVIOUS
<1>1. CallTypes /\ ReplyTypes
  <2>1. replies \in [Requests -> Seq(ReplyValues)]
    BY SMT DEF Init
  <2> QED BY <2>1 DEF Init, CallTypes, ReplyTypes
<1>2. QueueTypes
  <2>1. sendQ \in Seq(Requests) /\ Len(sendQ) <= SendBuffer
    BY BoundAssumption, SMT DEF Init
  <2> QED BY <2>1 DEF Init, QueueTypes
<1>3. GoroutineTypes
  BY DEF Init, GoroutineTypes
<1>4. StreamTypes
  <2>1. drops \in 0..MaxConnDrops /\ created \in 0..MaxStreams
    BY BoundAssumption, SMT DEF Init
  <2>2. wire \in [Streams -> Seq(Requests)]
    BY SMT DEF Init
  <2> QED BY <2>1, <2>2 DEF Init, StreamTypes
<1> QED BY <1>1, <1>2, <1>3, <1>4 DEF TypeOK

\* One step keeps the types, given what the program counters say of the locals.
LEMMA TypeStep ==
    ASSUME TypeOK, LocalsMatchPc, Next PROVE TypeOK'
<1> USE DEF TypeOK, LocalsMatchPc
<1>1. CASE SenderEnsureStream
  <2>1. GoroutineTypes'
    BY <1>1, SMT DEF SenderEnsureStream, GoroutineTypes, SenderFrame, sndVars,
       rcvVars, watchVars
  <2>2. StreamTypes'
    <3>1. created < MaxStreams => created + 1 \in Streams /\ created + 1 \in 0..MaxStreams
      BY BoundAssumption, SMT DEF StreamTypes, Streams
    <3> QED BY <1>1, <3>1 DEF SenderEnsureStream, StreamTypes, netVars
  <2>3. CallTypes' /\ QueueTypes' /\ ReplyTypes'
    BY <1>1, TypeFrame DEF SenderEnsureStream, SenderFrame
  <2> QED BY <2>1, <2>2, <2>3
<1>2. CASE SenderSignal
  <2>1. GoroutineTypes'
    BY <1>2 DEF SenderSignal, GoroutineTypes, SenderFrame, sndVars, rcvVars,
       watchVars
  <2>2. StreamTypes'
    BY <1>2 DEF SenderSignal, StreamTypes, SignalReady, SenderFrame, netVars
  <2>3. CallTypes' /\ QueueTypes' /\ ReplyTypes'
    BY <1>2, TypeFrame DEF SenderSignal, SenderFrame
  <2> QED BY <2>1, <2>2, <2>3
<1>3. CASE SenderTake
  <2>1. QueueTypes'
    BY <1>3, SendQTypes DEF SenderTake, QueueTypes, SenderFrame, enqVars,
       listVars
  <2>2. GoroutineTypes'
    BY <1>3, SendQTypes DEF SenderTake, GoroutineTypes, SenderFrame, sndVars,
       rcvVars, watchVars
  <2>3. CallTypes' /\ ReplyTypes' /\ StreamTypes'
    BY <1>3, TypeFrame DEF SenderTake, SenderFrame
  <2> QED BY <2>1, <2>2, <2>3
<1>4. CASE SenderCheck
  <2>1. GoroutineTypes'
    BY <1>4 DEF SenderCheck, GoroutineTypes, StreamTypes, SenderFrame, sndVars,
       rcvVars, watchVars
  <2>2. CallTypes' /\ QueueTypes' /\ ReplyTypes' /\ StreamTypes'
    BY <1>4, TypeFrame DEF SenderCheck, SenderFrame
  <2> QED BY <2>1, <2>2
<1>5. CASE SenderRegister
  <2>1. QueueTypes'
    BY <1>5, RequestKinds DEF SenderRegister, QueueTypes, wantServerResponse,
       GoroutineTypes, SenderFrame, enqVars, listVars
  <2>2. GoroutineTypes'
    BY <1>5 DEF SenderRegister, GoroutineTypes, SenderFrame, sndVars, rcvVars,
       watchVars
  <2>3. CallTypes' /\ ReplyTypes' /\ StreamTypes'
    BY <1>5, TypeFrame DEF SenderRegister, SenderFrame
  <2> QED BY <2>1, <2>2, <2>3
<1>6. CASE SenderSend
  <2>1. GoroutineTypes'
    BY <1>6 DEF SenderSend, GoroutineTypes, SenderLoop, SenderFrame, sndVars,
       rcvVars, watchVars
  <2>2. StreamTypes'
    BY <1>6, SMT DEF SenderSend, StreamTypes, GoroutineTypes, SenderLocals,
       SenderFrame, netVars
  <2>3. CallTypes' /\ QueueTypes' /\ ReplyTypes'
    BY <1>6, TypeFrame DEF SenderSend, SenderFrame
  <2> QED BY <2>1, <2>2, <2>3
<1>7. CASE SenderSendFail
  <2>1. GoroutineTypes'
    BY <1>7 DEF SenderSendFail, GoroutineTypes, SenderFrame, sndVars, rcvVars,
       watchVars
  <2>2. StreamTypes'
    BY <1>7 DEF SenderSendFail, StreamTypes, clearStream, GoroutineTypes,
       SenderLocals, SenderFrame, netVars
  <2>3. CallTypes' /\ QueueTypes' /\ ReplyTypes'
    BY <1>7, TypeFrame DEF SenderSendFail, SenderFrame
  <2> QED BY <2>1, <2>2, <2>3
<1>8. CASE SenderRequeue
  <2>1. QueueTypes'
    BY <1>8, GoroutineNames DEF SenderRequeue, QueueTypes, RequeuePending,
       Retryable, SenderFrame, enqVars, listVars
  <2>2. GoroutineTypes'
    BY <1>8 DEF SenderRequeue, GoroutineTypes, SenderFrame, sndVars, rcvVars,
       watchVars
  <2>3. CallTypes' /\ ReplyTypes' /\ StreamTypes'
    BY <1>8, TypeFrame DEF SenderRequeue, SenderFrame
  <2> QED BY <2>1, <2>2, <2>3
<1>9. CASE SenderSpawn
  <2>1. QueueTypes'
    BY <1>9, SpawnType, GoroutineNames DEF SenderSpawn, QueueTypes, SenderFrame,
       enqVars, listVars
  <2>2. GoroutineTypes'
    BY <1>9 DEF SenderSpawn, GoroutineTypes, SenderLoop, SenderFrame, sndVars,
       rcvVars, watchVars
  <2>3. CallTypes' /\ ReplyTypes' /\ StreamTypes'
    BY <1>9, TypeFrame DEF SenderSpawn, SenderFrame
  <2> QED BY <2>1, <2>2, <2>3
<1>10. CASE SenderReply
  <2>1. GoroutineTypes'
    BY <1>10 DEF SenderReply, GoroutineTypes, SenderLoop, SenderFrame, sndVars,
       rcvVars, watchVars
  <2>2. ReplyTypes'
    BY <1>10, DeliverType, ReplyErrorType, ReplyNames, RequestKinds DEF
       SenderReply, ReplyTypes, GoroutineTypes, SenderLocals, SenderFrame,
       replyVars
  <2>3. CallTypes' /\ QueueTypes' /\ StreamTypes'
    BY <1>10, TypeFrame DEF SenderReply, SenderFrame
  <2> QED BY <2>1, <2>2, <2>3
<1>11. CASE SenderExit
  <2>1. GoroutineTypes'
    BY <1>11 DEF SenderExit, GoroutineTypes, SenderFrame, sndVars, rcvVars,
       watchVars
  <2>2. CallTypes' /\ QueueTypes' /\ ReplyTypes' /\ StreamTypes'
    BY <1>11, TypeFrame DEF SenderExit, SenderFrame
  <2> QED BY <2>1, <2>2
<1>12. CASE SenderDrain
  <2>1. QueueTypes'
    BY <1>12, SendQTypes DEF SenderDrain, QueueTypes, SenderFrame, enqVars,
       listVars
  <2>2. ReplyTypes'
    BY <1>12, SendQTypes, ReplyErrorType, ReplyNames DEF SenderDrain, ReplyTypes,
       SenderFrame, replyVars
  <2>3. CallTypes' /\ GoroutineTypes' /\ StreamTypes'
    BY <1>12, TypeFrame DEF SenderDrain, SenderFrame
  <2> QED BY <2>1, <2>2, <2>3
<1>13. CASE ReceiverGetStream
  <2>1. GoroutineTypes'
    BY <1>13 DEF ReceiverGetStream, GoroutineTypes, StreamTypes, ReceiverFrame,
       sndVars, rcvVars, watchVars
  <2>2. CallTypes' /\ QueueTypes' /\ ReplyTypes' /\ StreamTypes'
    BY <1>13, TypeFrame DEF ReceiverGetStream, ReceiverFrame, callVars
  <2> QED BY <2>1, <2>2
<1>14. CASE ReceiverWake
  <2>1. GoroutineTypes'
    BY <1>14, SMT DEF ReceiverWake, GoroutineTypes, ReceiverFrame, sndVars, rcvVars,
       watchVars
  <2>2. StreamTypes'
    BY <1>14 DEF ReceiverWake, StreamTypes, ReceiverFrame, netVars
  <2>3. CallTypes' /\ QueueTypes' /\ ReplyTypes'
    BY <1>14, TypeFrame DEF ReceiverWake, ReceiverFrame, callVars
  <2> QED BY <2>1, <2>2, <2>3
<1>15. CASE ReceiverDeliver
  <2>1. GoroutineTypes'
    BY <1>15 DEF ReceiverDeliver, GoroutineTypes, ReceiverFrame, sndVars,
       rcvVars, watchVars
  <2>2. ReplyTypes'
    BY <1>15, DeliverType, RequestKinds, ReplyNames DEF ReceiverDeliver,
       ReplyTypes, ReceiverLocals, ReceiverFrame, replyVars
  <2>3. CallTypes' /\ QueueTypes' /\ StreamTypes'
    BY <1>15, TypeFrame DEF ReceiverDeliver, ReceiverFrame, callVars
  <2> QED BY <2>1, <2>2, <2>3
<1>16. CASE ReceiverError
  <2>1. GoroutineTypes'
    BY <1>16 DEF ReceiverError, GoroutineTypes, ReceiverFrame, sndVars, rcvVars,
       watchVars
  <2>2. StreamTypes'
    BY <1>16 DEF ReceiverError, StreamTypes, clearStream, GoroutineTypes,
       ReceiverLocals, ReceiverFrame, netVars
  <2>3. CallTypes' /\ QueueTypes' /\ ReplyTypes'
    BY <1>16, TypeFrame DEF ReceiverError, ReceiverFrame, callVars
  <2> QED BY <2>1, <2>2, <2>3
<1>17. CASE ReceiverRequeue
  <2>1. QueueTypes'
    BY <1>17, GoroutineNames DEF ReceiverRequeue, QueueTypes, RequeuePending,
       Retryable, ReceiverFrame, enqVars, listVars
  <2>2. GoroutineTypes'
    BY <1>17 DEF ReceiverRequeue, GoroutineTypes, ReceiverFrame, sndVars,
       rcvVars, watchVars
  <2>3. CallTypes' /\ ReplyTypes' /\ StreamTypes'
    BY <1>17, TypeFrame DEF ReceiverRequeue, ReceiverFrame, callVars
  <2> QED BY <2>1, <2>2, <2>3
<1>18. CASE ReceiverSpawn
  <2>1. QueueTypes'
    BY <1>18, SpawnType, GoroutineNames DEF ReceiverSpawn, QueueTypes,
       ReceiverFrame, enqVars, listVars
  <2>2. GoroutineTypes'
    BY <1>18 DEF ReceiverSpawn, GoroutineTypes, ReceiverFrame, sndVars, rcvVars,
       watchVars
  <2>3. CallTypes' /\ ReplyTypes' /\ StreamTypes'
    BY <1>18, TypeFrame DEF ReceiverSpawn, ReceiverFrame, callVars
  <2> QED BY <2>1, <2>2, <2>3
<1>19. CASE ReceiverCheckClosed
  <2>1. GoroutineTypes'
    BY <1>19 DEF ReceiverCheckClosed, GoroutineTypes, ReceiverFrame, sndVars,
       rcvVars, watchVars
  <2>2. CallTypes' /\ QueueTypes' /\ ReplyTypes' /\ StreamTypes'
    BY <1>19, TypeFrame DEF ReceiverCheckClosed, ReceiverFrame, callVars
  <2> QED BY <2>1, <2>2
<1>20. CASE Close
  <2>1. CallTypes'
    BY <1>20 DEF Close, CallTypes, CloseFrame, callVars, closeVars
  <2>2. QueueTypes' /\ GoroutineTypes' /\ ReplyTypes' /\ StreamTypes'
    BY <1>20, TypeFrame DEF Close, CloseFrame, netVars
  <2> QED BY <2>1, <2>2
<1>21. CASE CloseCancelPending
  <2>1. CallTypes'
    BY <1>21 DEF CloseCancelPending, CallTypes, CloseFrame, callVars, closeVars
  <2>2. QueueTypes'
    BY <1>21, GoroutineNames DEF CloseCancelPending, QueueTypes, CancelPending,
       CloseFrame, enqVars, listVars
  <2>3. GoroutineTypes' /\ ReplyTypes' /\ StreamTypes'
    BY <1>21, TypeFrame DEF CloseCancelPending, CloseFrame, netVars
  <2> QED BY <2>1, <2>2, <2>3
<1>22. CASE CloseConn
  <2>1. CallTypes'
    BY <1>22 DEF CloseConn, CallTypes, CloseFrame, callVars, closeVars
  <2>2. StreamTypes'
    BY <1>22 DEF CloseConn, StreamTypes, CloseFrame, netVars
  <2>3. QueueTypes' /\ GoroutineTypes' /\ ReplyTypes'
    BY <1>22, TypeFrame DEF CloseConn, CloseFrame
  <2> QED BY <2>1, <2>2, <2>3
<1>23. CASE ConnDrop
  <2>1. StreamTypes'
    <3>1. drops' \in 0..MaxConnDrops
      BY <1>23, BoundAssumption, SMT DEF ConnDrop, StreamTypes
    <3> QED BY <1>23, <3>1 DEF ConnDrop, StreamTypes, EnvFrame, netVars
  <2>2. CallTypes' /\ QueueTypes' /\ GoroutineTypes' /\ ReplyTypes'
    BY <1>23, TypeFrame DEF ConnDrop, EnvFrame, callVars, replyVars
  <2> QED BY <2>1, <2>2
<1>24. CASE ConnRecover
  <2>1. StreamTypes'
    BY <1>24 DEF ConnRecover, StreamTypes, EnvFrame, netVars
  <2>2. CallTypes' /\ QueueTypes' /\ GoroutineTypes' /\ ReplyTypes'
    BY <1>24, TypeFrame DEF ConnRecover, EnvFrame, callVars, replyVars
  <2> QED BY <2>1, <2>2
<1>25. ASSUME NEW s \in Streams, StreamBreak(s) PROVE TypeOK'
  <2>1. StreamTypes'
    BY <1>25 DEF StreamBreak, StreamTypes, EnvFrame, netVars
  <2>2. CallTypes' /\ QueueTypes' /\ GoroutineTypes' /\ ReplyTypes'
    BY <1>25, TypeFrame DEF StreamBreak, EnvFrame, callVars, replyVars
  <2> QED BY <2>1, <2>2
<1>26. ASSUME NEW g \in Goroutines, FailOne(g) PROVE TypeOK'
  <2>1. QueueTypes'
    BY <1>26 DEF FailOne, QueueTypes, enqVars, listVars
  <2>2. ReplyTypes'
    BY <1>26, ReplyErrorType, ReplyNames DEF FailOne, ReplyTypes, PendingError,
       QueueTypes, replyVars
  <2>3. CallTypes' /\ GoroutineTypes' /\ StreamTypes'
    BY <1>26, TypeFrame DEF FailOne
  <2> QED BY <2>1, <2>2, <2>3
<1>27. ASSUME NEW r \in Requests,
             \/ Call(r) \/ Cancel(r) \/ Consume(r)
             \/ EnqueueCheck(r) \/ EnqueueClosed(r) \/ EnqueueSend(r)
             \/ ReceiverResponse(r) \/ ReceiverBackCall(r)
             \/ Watch(r)
      PROVE  TypeOK'
  <2>1. CASE Call(r)
    <3>1. CallTypes'
      BY <2>1 DEF Call, CallTypes, callVars, closeVars
    <3>2. QueueTypes'
      BY <2>1, BatchType DEF Call, QueueTypes, enqVars, listVars
    <3>3. GoroutineTypes' /\ ReplyTypes' /\ StreamTypes'
      BY <2>1, TypeFrame DEF Call
    <3> QED BY <3>1, <3>2, <3>3
  <2>2. CASE Cancel(r)
    <3>1. CallTypes'
      BY <2>2 DEF Cancel, CallTypes, EnvFrame, callVars, closeVars
    <3>2. QueueTypes' /\ GoroutineTypes' /\ ReplyTypes' /\ StreamTypes'
      BY <2>2, TypeFrame DEF Cancel, EnvFrame, replyVars, netVars
    <3> QED BY <3>1, <3>2
  <2>3. CASE Consume(r)
    <3>1. ReplyTypes'
      BY <2>3, SMT DEF Consume, ReplyTypes, EnvFrame, replyVars
    <3>2. CallTypes' /\ QueueTypes' /\ GoroutineTypes' /\ StreamTypes'
      BY <2>3, TypeFrame DEF Consume, EnvFrame, callVars, netVars
    <3> QED BY <3>1, <3>2
  <2>4. CASE EnqueueCheck(r)
    <3>1. QueueTypes'
      BY <2>4, ReturnType DEF EnqueueCheck, QueueTypes, enqVars, listVars
    <3>2. ReplyTypes'
      BY <2>4, ReplyErrorType, ReplyNames DEF EnqueueCheck, ReplyTypes, replyVars
    <3>3. CallTypes' /\ GoroutineTypes' /\ StreamTypes'
      BY <2>4, TypeFrame DEF EnqueueCheck
    <3> QED BY <3>1, <3>2, <3>3
  <2>5. CASE EnqueueClosed(r)
    <3>1. QueueTypes'
      BY <2>5, ReturnType DEF EnqueueClosed, QueueTypes, enqVars, listVars
    <3>2. ReplyTypes'
      BY <2>5, ReplyErrorType, ReplyNames DEF EnqueueClosed, ReplyTypes, replyVars
    <3>3. CallTypes' /\ GoroutineTypes' /\ StreamTypes'
      BY <2>5, TypeFrame DEF EnqueueClosed
    <3> QED BY <3>1, <3>2, <3>3
  <2>6. CASE EnqueueSend(r)
    <3>1. QueueTypes'
      BY <2>6, ReturnType, SendQTypes DEF EnqueueSend, QueueTypes, PutInSendQ,
         enqVars, listVars
    <3>2. GoroutineTypes'
      BY <2>6, SMT DEF EnqueueSend, GoroutineTypes, sndVars, rcvVars, watchVars
    <3>3. ReplyTypes'
      BY <2>6, ReplyErrorType, ReplyNames DEF EnqueueSend, ReplyTypes, replyVars
    <3>4. CallTypes' /\ StreamTypes'
      BY <2>6, TypeFrame DEF EnqueueSend
    <3> QED BY <3>1, <3>2, <3>3, <3>4
  <2>7. CASE ReceiverResponse(r)
    <3>1. QueueTypes'
      BY <2>7 DEF ReceiverResponse, RemovePending, QueueTypes, ReceiverFrame, enqVars, listVars
    <3>2. GoroutineTypes'
      BY <2>7 DEF ReceiverResponse, GoroutineTypes, ReceiverFrame, sndVars,
         rcvVars, watchVars
    <3>3. CallTypes' /\ ReplyTypes' /\ StreamTypes'
      BY <2>7, TypeFrame DEF ReceiverResponse, ReceiverFrame, callVars
    <3> QED BY <3>1, <3>2, <3>3
  <2>8. CASE ReceiverBackCall(r)
    <3>1. CallTypes'
      BY <2>8 DEF ReceiverBackCall, CallTypes, ReceiverFrame, callVars, closeVars
    <3>2. QueueTypes'
      BY <2>8, BatchType DEF ReceiverBackCall, QueueTypes, ReceiverFrame, enqVars,
         listVars
    <3>3. GoroutineTypes'
      BY <2>8 DEF ReceiverBackCall, GoroutineTypes, ReceiverFrame, sndVars,
         rcvVars, watchVars
    <3>4. ReplyTypes' /\ StreamTypes'
      BY <2>8, TypeFrame DEF ReceiverBackCall, ReceiverFrame
    <3> QED BY <3>1, <3>2, <3>3, <3>4
  <2>9. CASE WatchFire(r)
    <3>1. GoroutineTypes'
      BY <2>9 DEF WatchFire, GoroutineTypes, WatchFrame, sndVars, rcvVars,
         watchVars
    <3>2. CallTypes' /\ QueueTypes' /\ ReplyTypes' /\ StreamTypes'
      BY <2>9, TypeFrame DEF WatchFire, WatchFrame
    <3> QED BY <3>1, <3>2
  <2>10. CASE WatchClear(r)
    <3>1. GoroutineTypes'
      BY SMTT(30), <2>10 DEF WatchClear, GoroutineTypes, WatchFrame, sndVars, rcvVars,
         watchVars
    <3>2. StreamTypes'
      BY <2>10 DEF WatchClear, StreamTypes, clearStream, GoroutineTypes,
         ListLocals, WatchFrame, netVars
    <3>3. CallTypes' /\ QueueTypes' /\ ReplyTypes'
      BY <2>10, TypeFrame DEF WatchClear, WatchFrame
    <3> QED BY <3>1, <3>2, <3>3
  <2>11. CASE WatchRequeue(r)
    <3>1. QueueTypes'
      BY <2>11, GoroutineNames DEF WatchRequeue, QueueTypes, RequeuePending,
         Retryable, WatchFrame, enqVars, listVars
    <3>2. GoroutineTypes'
      BY <2>11, SMT DEF WatchRequeue, GoroutineTypes, WatchFrame, sndVars, rcvVars,
         watchVars
    <3>3. CallTypes' /\ ReplyTypes' /\ StreamTypes'
      BY <2>11, TypeFrame DEF WatchRequeue, WatchFrame
    <3> QED BY <3>1, <3>2, <3>3
  <2>12. CASE WatchSpawn(r)
    <3>1. QueueTypes'
      BY <2>12, SpawnType, GoroutineNames DEF WatchSpawn, QueueTypes, WatchFrame,
         enqVars, listVars
    <3>2. GoroutineTypes'
      BY <2>12, SMT DEF WatchSpawn, GoroutineTypes, WatchFrame, sndVars, rcvVars,
         watchVars
    <3>3. CallTypes' /\ ReplyTypes' /\ StreamTypes'
      BY <2>12, TypeFrame DEF WatchSpawn, WatchFrame
    <3> QED BY <3>1, <3>2, <3>3
  <2> QED BY <1>27, <1>26, GoroutineNames, <2>1, <2>2, <2>3, <2>4, <2>5, <2>6, <2>7, <2>8, <2>9, <2>10, <2>11, <2>12 DEF Watch
<1> HIDE DEF TypeOK, LocalsMatchPc
<1> QED
  BY <1>1, <1>2, <1>3, <1>4, <1>5, <1>6, <1>7, <1>8, <1>9, <1>10, <1>11, <1>12,
     <1>13, <1>14, <1>15, <1>16, <1>17, <1>18, <1>19, <1>20, <1>21, <1>22, <1>23,
     <1>24, <1>25, <1>26, <1>27, GoroutineNames DEF Next, Sender, Receiver, Closer

-----------------------------------------------------------------------------
(* Locals *)

\* One step keeps what the program counters say of the locals.
LEMMA LocalsStep ==
    ASSUME TypeOK, LocalsMatchPc, OneOwner, Next PROVE LocalsMatchPc'
<1> USE DEF LocalsMatchPc
<1>1. CASE SenderEnsureStream
  <2>1. SenderLocals'
    BY <1>1, NameAssumption DEF SenderEnsureStream, SenderFrame, SenderLocals,
       CtxDone, callVars, closeVars, sndVars
  <2>2. ReceiverLocals'
    BY <1>1 DEF SenderEnsureStream, SenderFrame, ReceiverLocals, callVars,
       closeVars, rcvVars
  <2>3. ListLocals'
    BY <1>1, NameAssumption, GoroutineNames DEF SenderEnsureStream, SenderFrame,
       ListLocals, closeVars, sndVars, rcvVars, watchVars, listVars
  <2> QED BY <2>1, <2>2, <2>3
<1>2. CASE SenderSignal
  <2>1. SenderLocals'
    BY <1>2, NameAssumption DEF SenderSignal, SenderFrame, SenderLocals, CtxDone,
       callVars, closeVars, sndVars
  <2>2. ReceiverLocals'
    BY <1>2 DEF SenderSignal, SenderFrame, ReceiverLocals, callVars, closeVars,
       rcvVars
  <2>3. ListLocals'
    BY <1>2, NameAssumption, GoroutineNames DEF SenderSignal, SenderFrame,
       ListLocals, closeVars, sndVars, rcvVars, watchVars, listVars
  <2> QED BY <2>1, <2>2, <2>3
<1>3. CASE SenderTake
  <2>1. SenderLocals'
    BY <1>3, NameAssumption DEF SenderTake, SenderFrame, SenderLocals, CtxDone,
       callVars, closeVars, sndVars
  <2>2. ReceiverLocals'
    BY <1>3 DEF SenderTake, SenderFrame, ReceiverLocals, callVars, closeVars,
       rcvVars
  <2>3. ListLocals'
    BY <1>3, NameAssumption, GoroutineNames DEF SenderTake, SenderFrame,
       ListLocals, closeVars, sndVars, rcvVars, watchVars, listVars
  <2> QED BY <2>1, <2>2, <2>3
<1>4. CASE SenderCheck
  <2>1. SenderLocals'
    BY <1>4, NameAssumption DEF SenderCheck, SenderFrame, SenderLocals, CtxDone,
       callVars, closeVars, sndVars
  <2>2. ReceiverLocals'
    BY <1>4 DEF SenderCheck, SenderFrame, ReceiverLocals, callVars, closeVars,
       rcvVars
  <2>3. ListLocals'
    BY <1>4, NameAssumption, GoroutineNames DEF SenderCheck, SenderFrame,
       ListLocals, closeVars, sndVars, rcvVars, watchVars, listVars
  <2> QED BY <2>1, <2>2, <2>3
<1>5. CASE SenderRegister
  <2>1. SenderLocals'
    BY <1>5, NameAssumption DEF SenderRegister, SenderFrame, wantServerResponse,
       SenderLocals, CtxDone, callVars, closeVars, sndVars
  <2>2. ReceiverLocals'
    BY <1>5 DEF SenderRegister, SenderFrame, wantServerResponse, ReceiverLocals,
       callVars, closeVars, rcvVars
  <2>3. ListLocals'
    BY <1>5, NameAssumption, GoroutineNames DEF SenderRegister, SenderFrame,
       wantServerResponse, ListLocals, closeVars, sndVars, rcvVars, watchVars,
       listVars
  <2> QED BY <2>1, <2>2, <2>3
<1>6. CASE SenderSend
  <2>1. SenderLocals'
    BY <1>6, NameAssumption DEF SenderSend, SenderFrame, SenderLoop,
       wantSendConfirmation, SenderLocals, CtxDone, callVars, closeVars, sndVars
  <2>2. ReceiverLocals'
    BY <1>6 DEF SenderSend, SenderFrame, SenderLoop, wantSendConfirmation,
       ReceiverLocals, callVars, closeVars, rcvVars
  <2>3. ListLocals'
    BY <1>6, NameAssumption, GoroutineNames DEF SenderSend, SenderFrame,
       SenderLoop, wantSendConfirmation, ListLocals, closeVars, sndVars, rcvVars,
       watchVars, listVars
  <2> QED BY <2>1, <2>2, <2>3
<1>7. CASE SenderSendFail
  <2>1. SenderLocals'
    BY <1>7, NameAssumption DEF SenderSendFail, SenderFrame, SenderLocals,
       CtxDone, callVars, closeVars, sndVars
  <2>2. ReceiverLocals'
    BY <1>7 DEF SenderSendFail, SenderFrame, ReceiverLocals, callVars, closeVars,
       rcvVars
  <2>3. ListLocals'
    BY <1>7, NameAssumption, GoroutineNames DEF SenderSendFail, SenderFrame,
       ListLocals, closeVars, sndVars, rcvVars, watchVars, listVars
  <2> QED BY <2>1, <2>2, <2>3
<1>8. CASE SenderRequeue
  <2>1. SenderLocals'
    BY <1>8, NameAssumption DEF SenderRequeue, SenderFrame, RequeuePending,
       Retryable, SenderLocals, CtxDone, callVars, closeVars, sndVars
  <2>2. ReceiverLocals'
    BY <1>8 DEF SenderRequeue, SenderFrame, RequeuePending, Retryable,
       ReceiverLocals, callVars, closeVars, rcvVars
  <2>3. ListLocals'
    <3>1. /\ UNCHANGED <<closed, closePc, rcvPc, watchPc, watchStream>>
          /\ sndPc' = "fail" /\ pending' = {}
          /\ failing' = [failing EXCEPT !["sender"] = pending \ Retryable(pending)]
          /\ requeue' = [requeue EXCEPT !["sender"] = Retryable(pending)]
      BY <1>8 DEF SenderRequeue, SenderFrame, RequeuePending, closeVars, sndVars, rcvVars, watchVars
    <3>2. \A h \in Goroutines :
             h # "sender" => failing'[h] = failing[h] /\ requeue'[h] = requeue[h]
      BY <3>1 DEF TypeOK, QueueTypes
    <3>3. /\ failing'["sender"] \subseteq TwoWay \cup Streaming
          /\ requeue'["sender"] \subseteq TwoWay
      BY <3>1, GoroutineNames DEF ListLocals, TypeOK, QueueTypes, Retryable
    <3>4. "closer" # "sender" /\ "receiver" # "sender" /\ \A r \in Requests : r # "sender"
      BY NameAssumption
    <3>5. \A h \in Goroutines : /\ failing'[h] \subseteq TwoWay \cup Streaming
                               /\ requeue'[h] \subseteq TwoWay
      BY <3>2, <3>3 DEF ListLocals
    <3> QED BY <3>1, <3>2, <3>4, <3>5, GoroutineNames DEF ListLocals
  <2> QED BY <2>1, <2>2, <2>3
<1>9. CASE SenderSpawn
  <2>1. SenderLocals'
    BY <1>9, NameAssumption DEF SenderSpawn, SenderFrame, SpawnRequeue,
       SenderLoop, SenderLocals, CtxDone, callVars, closeVars, sndVars
  <2>2. ReceiverLocals'
    BY <1>9 DEF SenderSpawn, SenderFrame, SpawnRequeue, SenderLoop,
       ReceiverLocals, callVars, closeVars, rcvVars
  <2>3. ListLocals'
    BY <1>9, NameAssumption, GoroutineNames DEF SenderSpawn, TypeOK, QueueTypes, GoroutineTypes, SenderFrame,
       SpawnRequeue, SenderLoop, ListLocals, closeVars, sndVars, rcvVars, watchVars,
       listVars
  <2> QED BY <2>1, <2>2, <2>3
<1>10. CASE SenderReply
  <2>1. SenderLocals'
    BY <1>10, NameAssumption DEF SenderReply, SenderFrame, SenderLoop,
       SenderLocals, CtxDone, callVars, closeVars, sndVars
  <2>2. ReceiverLocals'
    BY <1>10 DEF SenderReply, SenderFrame, SenderLoop, ReceiverLocals, callVars,
       closeVars, rcvVars
  <2>3. ListLocals'
    BY <1>10, NameAssumption, GoroutineNames DEF SenderReply, SenderFrame,
       SenderLoop, ListLocals, closeVars, sndVars, rcvVars, watchVars, listVars
  <2> QED BY <2>1, <2>2, <2>3
<1>11. CASE SenderExit
  <2>1. SenderLocals'
    BY <1>11, NameAssumption DEF SenderExit, SenderFrame, SenderLocals, CtxDone,
       callVars, closeVars, sndVars
  <2>2. ReceiverLocals'
    BY <1>11 DEF SenderExit, SenderFrame, ReceiverLocals, callVars, closeVars,
       rcvVars
  <2>3. ListLocals'
    BY <1>11, NameAssumption, GoroutineNames DEF SenderExit, SenderFrame,
       ListLocals, closeVars, sndVars, rcvVars, watchVars, listVars
  <2> QED BY <2>1, <2>2, <2>3
<1>12. CASE SenderDrain
  <2>1. SenderLocals'
    BY <1>12, NameAssumption DEF SenderDrain, SenderFrame, SenderLocals, CtxDone,
       callVars, closeVars, sndVars
  <2>2. ReceiverLocals'
    BY <1>12 DEF SenderDrain, SenderFrame, ReceiverLocals, callVars, closeVars,
       rcvVars
  <2>3. ListLocals'
    BY <1>12, NameAssumption, GoroutineNames DEF SenderDrain, SenderFrame,
       ListLocals, closeVars, sndVars, rcvVars, watchVars, listVars
  <2> QED BY <2>1, <2>2, <2>3
<1>13. CASE ReceiverGetStream
  <2>1. SenderLocals'
    BY <1>13, NameAssumption DEF ReceiverGetStream, ReceiverFrame, SenderLocals,
       CtxDone, callVars, closeVars, sndVars
  <2>2. ReceiverLocals'
    BY <1>13 DEF ReceiverGetStream, ReceiverFrame, ReceiverLocals, callVars,
       closeVars, rcvVars
  <2>3. ListLocals'
    BY <1>13, NameAssumption, GoroutineNames DEF ReceiverGetStream,
       ReceiverFrame, ListLocals, closeVars, sndVars, rcvVars, watchVars, listVars
  <2> QED BY <2>1, <2>2, <2>3
<1>14. CASE ReceiverWake
  <2>1. SenderLocals'
    BY <1>14, NameAssumption DEF ReceiverWake, ReceiverFrame, SenderLocals,
       CtxDone, callVars, closeVars, sndVars
  <2>2. ReceiverLocals'
    BY <1>14 DEF ReceiverWake, ReceiverFrame, ReceiverLocals, callVars,
       closeVars, rcvVars
  <2>3. ListLocals'
    BY <1>14, NameAssumption, GoroutineNames DEF ReceiverWake, ReceiverFrame,
       ListLocals, closeVars, sndVars, rcvVars, watchVars, listVars
  <2> QED BY <2>1, <2>2, <2>3
<1>15. CASE ReceiverDeliver
  <2>1. SenderLocals'
    BY <1>15, NameAssumption DEF ReceiverDeliver, ReceiverFrame, SenderLocals,
       CtxDone, callVars, closeVars, sndVars
  <2>2. ReceiverLocals'
    BY <1>15 DEF ReceiverDeliver, ReceiverFrame, ReceiverLocals, callVars,
       closeVars, rcvVars
  <2>3. ListLocals'
    BY <1>15, NameAssumption, GoroutineNames DEF ReceiverDeliver, ReceiverFrame,
       ListLocals, closeVars, sndVars, rcvVars, watchVars, listVars
  <2> QED BY <2>1, <2>2, <2>3
<1>16. CASE ReceiverError
  <2>1. SenderLocals'
    BY <1>16, NameAssumption DEF ReceiverError, ReceiverFrame, SenderLocals,
       CtxDone, callVars, closeVars, sndVars
  <2>2. ReceiverLocals'
    BY <1>16 DEF ReceiverError, ReceiverFrame, ReceiverLocals, callVars,
       closeVars, rcvVars
  <2>3. ListLocals'
    BY <1>16, NameAssumption, GoroutineNames DEF ReceiverError, ReceiverFrame,
       ListLocals, closeVars, sndVars, rcvVars, watchVars, listVars
  <2> QED BY <2>1, <2>2, <2>3
<1>17. CASE ReceiverRequeue
  <2>1. SenderLocals'
    BY <1>17, NameAssumption DEF ReceiverRequeue, ReceiverFrame, RequeuePending,
       Retryable, SenderLocals, CtxDone, callVars, closeVars, sndVars
  <2>2. ReceiverLocals'
    BY <1>17 DEF ReceiverRequeue, ReceiverFrame, RequeuePending, Retryable,
       ReceiverLocals, callVars, closeVars, rcvVars
  <2>3. ListLocals'
    <3>1. /\ UNCHANGED <<closed, closePc, sndPc, watchPc, watchStream>>
          /\ rcvPc' = "fail" /\ pending' = {}
          /\ failing' = [failing EXCEPT !["receiver"] = pending \ Retryable(pending)]
          /\ requeue' = [requeue EXCEPT !["receiver"] = Retryable(pending)]
      BY <1>17 DEF ReceiverRequeue, ReceiverFrame, RequeuePending, closeVars, sndVars, rcvVars, watchVars
    <3>2. \A h \in Goroutines :
             h # "receiver" => failing'[h] = failing[h] /\ requeue'[h] = requeue[h]
      BY <3>1 DEF TypeOK, QueueTypes
    <3>3. /\ failing'["receiver"] \subseteq TwoWay \cup Streaming
          /\ requeue'["receiver"] \subseteq TwoWay
      BY <3>1, GoroutineNames DEF ListLocals, TypeOK, QueueTypes, Retryable
    <3>4. "closer" # "receiver" /\ "sender" # "receiver" /\ \A r \in Requests : r # "receiver"
      BY NameAssumption
    <3>5. \A h \in Goroutines : /\ failing'[h] \subseteq TwoWay \cup Streaming
                               /\ requeue'[h] \subseteq TwoWay
      BY <3>2, <3>3 DEF ListLocals
    <3> QED BY <3>1, <3>2, <3>4, <3>5, GoroutineNames DEF ListLocals
  <2> QED BY <2>1, <2>2, <2>3
<1>18. CASE ReceiverSpawn
  <2>1. SenderLocals'
    BY <1>18, NameAssumption DEF ReceiverSpawn, ReceiverFrame, SpawnRequeue,
       SenderLocals, CtxDone, callVars, closeVars, sndVars
  <2>2. ReceiverLocals'
    BY <1>18 DEF ReceiverSpawn, ReceiverFrame, SpawnRequeue, ReceiverLocals,
       callVars, closeVars, rcvVars
  <2>3. ListLocals'
    BY <1>18, NameAssumption, GoroutineNames DEF ReceiverSpawn, TypeOK, QueueTypes, GoroutineTypes, ReceiverFrame,
       SpawnRequeue, ListLocals, closeVars, sndVars, rcvVars, watchVars, listVars
  <2> QED BY <2>1, <2>2, <2>3
<1>19. CASE ReceiverCheckClosed
  <2>1. SenderLocals'
    BY <1>19, NameAssumption DEF ReceiverCheckClosed, ReceiverFrame,
       SenderLocals, CtxDone, callVars, closeVars, sndVars
  <2>2. ReceiverLocals'
    BY <1>19 DEF ReceiverCheckClosed, ReceiverFrame, ReceiverLocals, callVars,
       closeVars, rcvVars
  <2>3. ListLocals'
    BY <1>19, NameAssumption, GoroutineNames DEF ReceiverCheckClosed,
       ReceiverFrame, ListLocals, closeVars, sndVars, rcvVars, watchVars, listVars
  <2> QED BY <2>1, <2>2, <2>3
<1>20. CASE Close
  <2>1. SenderLocals'
    BY <1>20, NameAssumption DEF Close, CloseFrame, SenderLocals, CtxDone,
       callVars, closeVars, sndVars
  <2>2. ReceiverLocals'
    BY <1>20 DEF Close, CloseFrame, ReceiverLocals, callVars, closeVars, rcvVars
  <2>3. ListLocals'
    BY <1>20, NameAssumption, GoroutineNames DEF Close, CloseFrame, ListLocals,
       closeVars, sndVars, rcvVars, watchVars, listVars
  <2> QED BY <2>1, <2>2, <2>3
<1>21. CASE CloseCancelPending
  <2>1. SenderLocals'
    BY <1>21, NameAssumption DEF CloseCancelPending, CloseFrame, CancelPending,
       SenderLocals, CtxDone, callVars, closeVars, sndVars
  <2>2. ReceiverLocals'
    BY <1>21 DEF CloseCancelPending, CloseFrame, CancelPending, ReceiverLocals,
       callVars, closeVars, rcvVars
  <2>3. ListLocals'
    <3>1. /\ UNCHANGED <<requeue, sndPc, rcvPc, watchPc, watchStream, closed>>
          /\ closePc = "cancel" /\ closePc' = "fail" /\ pending' = {}
          /\ failing' = [failing EXCEPT !["closer"] = pending]
      BY <1>21 DEF CloseCancelPending, CloseFrame, CancelPending, sndVars, rcvVars, watchVars
    <3>2. \A h \in Goroutines : failing'[h] = IF h = "closer" THEN pending ELSE failing[h]
      BY <3>1 DEF TypeOK, QueueTypes
    <3>3. \A r \in Requests : failing'[r] = failing[r]
      BY <3>2, NameAssumption, GoroutineNames
    <3>4. failing'["sender"] = failing["sender"] /\ failing'["receiver"] = failing["receiver"]
      BY <3>2, GoroutineNames
    <3> QED BY <3>1, <3>2, <3>3, <3>4 DEF ListLocals
  <2> QED BY <2>1, <2>2, <2>3
<1>22. CASE CloseConn
  <2>1. SenderLocals'
    BY <1>22, NameAssumption DEF CloseConn, CloseFrame, SenderLocals, CtxDone,
       callVars, closeVars, sndVars
  <2>2. ReceiverLocals'
    BY <1>22 DEF CloseConn, CloseFrame, ReceiverLocals, callVars, closeVars,
       rcvVars
  <2>3. ListLocals'
    BY <1>22, NameAssumption, GoroutineNames DEF CloseConn, CloseFrame,
       ListLocals, closeVars, sndVars, rcvVars, watchVars, listVars
  <2> QED BY <2>1, <2>2, <2>3
<1>23. CASE ConnDrop
  <2>1. SenderLocals'
    BY <1>23, NameAssumption DEF ConnDrop, EnvFrame, SenderLocals, CtxDone,
       callVars, closeVars, sndVars
  <2>2. ReceiverLocals'
    BY <1>23 DEF ConnDrop, EnvFrame, ReceiverLocals, callVars, closeVars, rcvVars
  <2>3. ListLocals'
    BY <1>23, NameAssumption, GoroutineNames DEF ConnDrop, EnvFrame, ListLocals,
       closeVars, sndVars, rcvVars, watchVars, listVars
  <2> QED BY <2>1, <2>2, <2>3
<1>24. CASE ConnRecover
  <2>1. SenderLocals'
    BY <1>24, NameAssumption DEF ConnRecover, EnvFrame, SenderLocals, CtxDone,
       callVars, closeVars, sndVars
  <2>2. ReceiverLocals'
    BY <1>24 DEF ConnRecover, EnvFrame, ReceiverLocals, callVars, closeVars,
       rcvVars
  <2>3. ListLocals'
    BY <1>24, NameAssumption, GoroutineNames DEF ConnRecover, EnvFrame,
       ListLocals, closeVars, sndVars, rcvVars, watchVars, listVars
  <2> QED BY <2>1, <2>2, <2>3
<1>25. ASSUME NEW s \in Streams, StreamBreak(s) PROVE LocalsMatchPc'
  <2>1. SenderLocals'
    BY <1>25, NameAssumption DEF StreamBreak, EnvFrame, SenderLocals, CtxDone,
       callVars, closeVars, sndVars
  <2>2. ReceiverLocals'
    BY <1>25 DEF StreamBreak, EnvFrame, ReceiverLocals, callVars, closeVars,
       rcvVars
  <2>3. ListLocals'
    BY <1>25, NameAssumption, GoroutineNames DEF StreamBreak, EnvFrame,
       ListLocals, closeVars, sndVars, rcvVars, watchVars, listVars
  <2> QED BY <2>1, <2>2, <2>3
<1>26. ASSUME NEW g \in Goroutines, FailOne(g) PROVE LocalsMatchPc'
  <2>1. SenderLocals'
    BY <1>26, NameAssumption DEF FailOne, SenderLocals, CtxDone, callVars,
       closeVars, sndVars
  <2>2. ReceiverLocals'
    BY <1>26 DEF FailOne, ReceiverLocals, callVars, closeVars, rcvVars
  <2>3. ListLocals'
    <3>1. /\ UNCHANGED <<requeue, sndPc, rcvPc, watchPc, watchStream, closed, closePc, pending>>
          /\ \E x : failing' = [failing EXCEPT ![g] = @ \ {x}]
      BY <1>26 DEF FailOne, closeVars, sndVars, rcvVars, watchVars
    <3>2. \A h \in Goroutines : failing'[h] \subseteq failing[h]
      BY <3>1 DEF TypeOK, QueueTypes
    <3>3. \A h \in Goroutines : failing'[h] # {} => failing[h] # {}
      BY <3>2
    <3> QED BY <3>1, <3>2, <3>3, GoroutineNames DEF ListLocals
  <2> QED BY <2>1, <2>2, <2>3
<1>27. ASSUME NEW r \in Requests,
             \/ Call(r) \/ Cancel(r) \/ Consume(r)
             \/ EnqueueCheck(r) \/ EnqueueClosed(r) \/ EnqueueSend(r)
             \/ ReceiverResponse(r) \/ ReceiverBackCall(r)
             \/ Watch(r)
      PROVE  LocalsMatchPc'
  <2>1. CASE Call(r)
    <3>1. SenderLocals'
      BY <2>1, NameAssumption DEF Call, SenderLocals, CtxDone, callVars, closeVars,
         sndVars
    <3>2. ReceiverLocals'
      BY <2>1 DEF Call, ReceiverLocals, callVars, closeVars, rcvVars
    <3>3. ListLocals'
      BY <2>1, NameAssumption, GoroutineNames DEF Call, ListLocals, closeVars,
         sndVars, rcvVars, watchVars, listVars
    <3> QED BY <3>1, <3>2, <3>3
  <2>2. CASE Cancel(r)
    <3>1. SenderLocals'
      BY <2>2, NameAssumption DEF Cancel, EnvFrame, SenderLocals, CtxDone,
         callVars, closeVars, sndVars
    <3>2. ReceiverLocals'
      BY <2>2 DEF Cancel, EnvFrame, ReceiverLocals, callVars, closeVars, rcvVars
    <3>3. ListLocals'
      BY <2>2, NameAssumption, GoroutineNames DEF Cancel, EnvFrame, ListLocals,
         closeVars, sndVars, rcvVars, watchVars, listVars
    <3> QED BY <3>1, <3>2, <3>3
  <2>3. CASE Consume(r)
    <3>1. SenderLocals'
      BY <2>3, NameAssumption DEF Consume, EnvFrame, SenderLocals, CtxDone,
         callVars, closeVars, sndVars
    <3>2. ReceiverLocals'
      BY <2>3 DEF Consume, EnvFrame, ReceiverLocals, callVars, closeVars, rcvVars
    <3>3. ListLocals'
      BY <2>3, NameAssumption, GoroutineNames DEF Consume, EnvFrame, ListLocals,
         closeVars, sndVars, rcvVars, watchVars, listVars
    <3> QED BY <3>1, <3>2, <3>3
  <2>4. CASE EnqueueCheck(r)
    <3>1. SenderLocals'
      BY <2>4, NameAssumption DEF EnqueueCheck, SenderLocals, CtxDone, callVars,
         closeVars, sndVars
    <3>2. ReceiverLocals'
      BY <2>4 DEF EnqueueCheck, ReceiverLocals, callVars, closeVars, rcvVars
    <3>3. ListLocals'
      BY <2>4, NameAssumption, GoroutineNames DEF EnqueueCheck, ListLocals,
         closeVars, sndVars, rcvVars, watchVars, listVars
    <3> QED BY <3>1, <3>2, <3>3
  <2>5. CASE EnqueueClosed(r)
    <3>1. SenderLocals'
      BY <2>5, NameAssumption DEF EnqueueClosed, SenderLocals, CtxDone, callVars,
         closeVars, sndVars
    <3>2. ReceiverLocals'
      BY <2>5 DEF EnqueueClosed, ReceiverLocals, callVars, closeVars, rcvVars
    <3>3. ListLocals'
      BY <2>5, NameAssumption, GoroutineNames DEF EnqueueClosed, ListLocals,
         closeVars, sndVars, rcvVars, watchVars, listVars
    <3> QED BY <3>1, <3>2, <3>3
  <2>6. CASE EnqueueSend(r)
    <3>1. SenderLocals'
      BY <2>6, NameAssumption DEF EnqueueSend, SenderLocals, CtxDone, callVars,
         closeVars, sndVars
    <3>2. ReceiverLocals'
      BY <2>6 DEF EnqueueSend, ReceiverLocals, callVars, closeVars, rcvVars
    <3>3. ListLocals'
      BY <2>6, NameAssumption, GoroutineNames DEF EnqueueSend, ListLocals,
         closeVars, sndVars, rcvVars, watchVars, listVars
    <3> QED BY <3>1, <3>2, <3>3
  <2>7. CASE ReceiverResponse(r)
    <3>1. SenderLocals'
      BY <2>7, NameAssumption DEF ReceiverResponse, ReceiverFrame, SenderLocals,
         CtxDone, callVars, closeVars, sndVars
    <3>2. ReceiverLocals'
      BY <2>7 DEF ReceiverResponse, ReceiverLocals, ListLocals, OneOwner, OwnedOnce, Held, ReceiverFrame, callVars,
         closeVars, rcvVars
    <3>3. ListLocals'
      BY <2>7, NameAssumption, GoroutineNames DEF ReceiverResponse, RemovePending, ReceiverFrame,
         ListLocals, closeVars, sndVars, rcvVars, watchVars, listVars
    <3> QED BY <3>1, <3>2, <3>3
  <2>8. CASE ReceiverBackCall(r)
    <3>1. SenderLocals'
      BY <2>8, NameAssumption DEF ReceiverBackCall, ReceiverFrame, SenderLocals,
         CtxDone, callVars, closeVars, sndVars
    <3>2. ReceiverLocals'
      BY <2>8 DEF ReceiverBackCall, ReceiverFrame, ReceiverLocals, callVars,
         closeVars, rcvVars
    <3>3. ListLocals'
      BY <2>8, NameAssumption, GoroutineNames DEF ReceiverBackCall, ReceiverFrame,
         ListLocals, closeVars, sndVars, rcvVars, watchVars, listVars
    <3> QED BY <3>1, <3>2, <3>3
  <2>9. CASE WatchFire(r)
    <3>1. SenderLocals'
      BY <2>9, NameAssumption DEF WatchFire, WatchFrame, SenderLocals, CtxDone,
         callVars, closeVars, sndVars
    <3>2. ReceiverLocals'
      BY <2>9 DEF WatchFire, WatchFrame, ReceiverLocals, callVars, closeVars,
         rcvVars
    <3>3. ListLocals'
      BY <2>9, NameAssumption, GoroutineNames DEF WatchFire, SenderLocals, TypeOK, QueueTypes, GoroutineTypes, WatchFrame,
         ListLocals, closeVars, sndVars, rcvVars, watchVars, listVars
    <3> QED BY <3>1, <3>2, <3>3
  <2>10. CASE WatchClear(r)
    <3>1. SenderLocals'
      BY <2>10, NameAssumption DEF WatchClear, WatchFrame, SenderLocals, CtxDone,
         callVars, closeVars, sndVars
    <3>2. ReceiverLocals'
      BY <2>10 DEF WatchClear, WatchFrame, ReceiverLocals, callVars, closeVars,
         rcvVars
    <3>3. ListLocals'
      BY <2>10, NameAssumption, GoroutineNames DEF WatchClear, TypeOK, QueueTypes, GoroutineTypes, WatchFrame,
         ListLocals, closeVars, sndVars, rcvVars, watchVars, listVars
    <3> QED BY <3>1, <3>2, <3>3
  <2>11. CASE WatchRequeue(r)
    <3>1. SenderLocals'
      BY <2>11, NameAssumption DEF WatchRequeue, WatchFrame, RequeuePending,
         Retryable, SenderLocals, CtxDone, callVars, closeVars, sndVars
    <3>2. ReceiverLocals'
      BY <2>11 DEF WatchRequeue, WatchFrame, RequeuePending, Retryable,
         ReceiverLocals, callVars, closeVars, rcvVars
    <3>3. ListLocals'
      BY <2>11, NameAssumption, GoroutineNames DEF WatchRequeue, TypeOK, QueueTypes, GoroutineTypes, WatchFrame,
         RequeuePending, Retryable, ListLocals, closeVars, sndVars, rcvVars,
         watchVars, listVars
    <3> QED BY <3>1, <3>2, <3>3
  <2>12. CASE WatchSpawn(r)
    <3>1. SenderLocals'
      BY <2>12, NameAssumption DEF WatchSpawn, WatchFrame, SpawnRequeue,
         SenderLocals, CtxDone, callVars, closeVars, sndVars
    <3>2. ReceiverLocals'
      BY <2>12 DEF WatchSpawn, WatchFrame, SpawnRequeue, ReceiverLocals, callVars,
         closeVars, rcvVars
    <3>3. ListLocals'
      BY <2>12, NameAssumption, GoroutineNames DEF WatchSpawn, TypeOK, QueueTypes, GoroutineTypes, WatchFrame,
         SpawnRequeue, ListLocals, closeVars, sndVars, rcvVars, watchVars, listVars
    <3> QED BY <3>1, <3>2, <3>3
  <2> QED BY <1>27, <1>26, GoroutineNames, <2>1, <2>2, <2>3, <2>4, <2>5, <2>6, <2>7, <2>8, <2>9, <2>10, <2>11, <2>12 DEF Watch
<1> HIDE DEF LocalsMatchPc
<1> QED
  BY <1>1, <1>2, <1>3, <1>4, <1>5, <1>6, <1>7, <1>8, <1>9, <1>10, <1>11, <1>12,
     <1>13, <1>14, <1>15, <1>16, <1>17, <1>18, <1>19, <1>20, <1>21, <1>22, <1>23,
     <1>24, <1>25, <1>26, <1>27, GoroutineNames DEF Next, Sender, Receiver, Closer

-----------------------------------------------------------------------------
(* Places *)

\* A step that moves no request keeps OneOwner.
LEMMA OwnerFrame ==
    ASSUME OneOwner,
           UNCHANGED <<started, enqVars, sendQ, pending, listVars, replies>>,
           \A r \in Requests : /\ SenderHolds(r)' => SenderHolds(r)
                               /\ ReceiverHolds(r)' => ReceiverHolds(r)
    PROVE  OneOwner'
<1>1. ListsDistinct'
  BY DEF OneOwner, ListsDistinct, enqVars, listVars
<1>2. ASSUME NEW r \in Requests PROVE OwnedOnce(r)'
  <2>1. /\ InEnqueue(r)' <=> InEnqueue(r)
        /\ InRest(r)' <=> InRest(r)
        /\ InSendQ(r)' <=> InSendQ(r)
        /\ InFailing(r)' <=> InFailing(r)
        /\ InRequeue(r)' <=> InRequeue(r)
        /\ Answered(r)' <=> Answered(r)
    BY DEF enqVars, listVars, InEnqueue, InRest, InSendQ, InFailing, InRequeue, Answered
  <2> QED BY <2>1 DEF OneOwner, OwnedOnce, Held
<1> QED BY <1>1, <1>2 DEF OneOwner

\* The batch S is nowhere in the Enqueue calls g and the lists t.
BatchReady(g, t, S) ==
    /\ g \in [Requests -> {"none", "check", "select"}]
    /\ t \in [Requests -> SUBSET Requests]
    /\ S \in SUBSET Requests
    /\ \A q \in S : g[q] = "none" /\ \A x \in Requests : q \notin t[x]
    /\ \A x, y \in Requests : x # y => t[x] \cap t[y] = {}

\* After the step every request of S is in one Enqueue call or one list.
BatchPlaced(g, t, S) ==
    /\ \A q \in Requests :
          /\ InEnqueue(q)' => g[q] # "none" \/ q \in S
          /\ InRest(q)' => q \in S \/ \E x \in Requests : q \in t[x]
          /\ q \in S => ~(InEnqueue(q)' /\ InRest(q)')
    /\ \A x, y \in Requests : x # y => rest'[x] \cap rest'[y] = {}

\* Where a batch puts its requests: each in one Enqueue call or one list.
LEMMA BatchPlaces ==
    ASSUME NEW g, NEW t, NEW S, BatchReady(g, t, S), EnqueueBatch(g, t, S)
    PROVE  BatchPlaced(g, t, S)
<1>1. CASE S = {}
  BY <1>1 DEF EnqueueBatch, BatchReady, BatchPlaced, InEnqueue, InRest
<1>2. ASSUME NEW p \in S, enqPc' = [g EXCEPT ![p] = "check"],
             rest' = [t EXCEPT ![p] = S \ {p}]
      PROVE  BatchPlaced(g, t, S)
  <2>1. \A x \in Requests : rest'[x] = IF x = p THEN S \ {p} ELSE t[x]
    BY <1>2 DEF BatchReady
  <2>2. \A x \in Requests : enqPc'[x] = IF x = p THEN "check" ELSE g[x]
    BY <1>2 DEF BatchReady
  <2>3. /\ p \in Requests /\ S \subseteq Requests
        /\ \A q \in S : g[q] = "none" /\ \A x \in Requests : q \notin t[x]
        /\ \A x, y \in Requests : x # y => t[x] \cap t[y] = {}
    BY DEF BatchReady
  <2>4. ASSUME NEW q \in Requests
        PROVE  /\ InEnqueue(q)' => g[q] # "none" \/ q \in S
               /\ InRest(q)' => q \in S \/ \E x \in Requests : q \in t[x]
    BY <2>1, <2>2, <2>3 DEF InEnqueue, InRest
  <2>5. ASSUME NEW q \in S PROVE ~(InEnqueue(q)' /\ InRest(q)')
    <3>1. CASE q = p
      <4>1. \A x \in Requests : p \notin rest'[x]
        BY <2>1, <2>3
      <4> QED BY <3>1, <4>1 DEF InRest
    <3>2. CASE q # p
      <4>1. enqPc'[q] = "none"
        BY <2>2, <2>3, <3>2
      <4> QED BY <4>1 DEF InEnqueue
    <3> QED BY <3>1, <3>2
  <2>6. ASSUME NEW x \in Requests, NEW y \in Requests, x # y
        PROVE  rest'[x] \cap rest'[y] = {}
    <3>1. ASSUME NEW q \in rest'[x], q \in rest'[y] PROVE FALSE
      BY <2>1, <2>3, <2>6, <3>1
    <3> QED BY <3>1
  <2> QED BY <2>4, <2>5, <2>6 DEF BatchPlaced
<1> QED BY <1>1, <1>2 DEF EnqueueBatch

\* When the Enqueue call for r returns, its goroutine takes the next request
\* from its own list.
LEMMA ReturnPlaces ==
    ASSUME QueueTypes, OneOwner, NEW r \in Requests, InEnqueue(r), EnqueueReturn(r)
    PROVE  /\ \A q \in Requests :
                 /\ InEnqueue(q)' => (InEnqueue(q) /\ q # r) \/ InRest(q)
                 /\ InRest(q)' => InRest(q)
                 /\ ~(InEnqueue(q)' /\ InRest(q)')
           /\ \A x, y \in Requests : x # y => rest'[x] \cap rest'[y] = {}
<1> DEFINE g == [enqPc EXCEPT ![r] = "none"]
           t == [rest EXCEPT ![r] = {}]
<1>1. /\ g \in [Requests -> {"none", "check", "select"}]
      /\ t \in [Requests -> SUBSET Requests]
      /\ rest[r] \in SUBSET Requests
      /\ \A q \in Requests : g[q] = IF q = r THEN "none" ELSE enqPc[q]
      /\ \A q \in Requests : t[q] = IF q = r THEN {} ELSE rest[q]
  BY DEF QueueTypes
<1>2. /\ \A q \in rest[r] : InRest(q) /\ ~InEnqueue(q)
      /\ \A x, y \in Requests : x # y => rest[x] \cap rest[y] = {}
      /\ \A q \in Requests : ~(InEnqueue(q) /\ InRest(q))
  BY DEF QueueTypes, OneOwner, OwnedOnce, ListsDistinct, InRest
<1>3. EnqueueBatch(g, t, rest[r])
  BY DEF EnqueueReturn
<1> HIDE DEF g, t
<1>4. /\ \A q \in rest[r] : g[q] = "none" /\ \A x \in Requests : q \notin t[x]
      /\ \A x, y \in Requests : x # y => t[x] \cap t[y] = {}
  BY <1>1, <1>2 DEF InEnqueue
<1>5. /\ \A q \in Requests :
            /\ InEnqueue(q)' => g[q] # "none" \/ q \in rest[r]
            /\ InRest(q)' => q \in rest[r] \/ \E x \in Requests : q \in t[x]
            /\ q \in rest[r] => ~(InEnqueue(q)' /\ InRest(q)')
      /\ \A x, y \in Requests : x # y => rest'[x] \cap rest'[y] = {}
  <2>1. BatchReady(g, t, rest[r])
    BY <1>1, <1>4 DEF BatchReady
  <2>2. BatchPlaced(g, t, rest[r])
    BY <2>1, <1>3, BatchPlaces
  <2> QED BY <2>2 DEF BatchPlaced
<1>6. \A q \in Requests : /\ g[q] # "none" => InEnqueue(q) /\ q # r
                          /\ \A x \in Requests : q \in t[x] => InRest(q)
  BY <1>1 DEF InEnqueue, InRest
<1> QED BY <1>2, <1>5, <1>6

\* The requests of a requeue list that is handed over leave the list.
LEMMA SpawnPlaces ==
    ASSUME QueueTypes, OneOwner, NEW g \in Goroutines, SpawnRequeue(g)
    PROVE  /\ \A q \in Requests :
                 /\ InEnqueue(q)' => InEnqueue(q) \/ q \in requeue[g]
                 /\ InRest(q)' => InRest(q) \/ q \in requeue[g]
                 /\ ~(InEnqueue(q)' /\ InRest(q)')
                 /\ InRequeue(q)' => InRequeue(q) /\ q \notin requeue[g]
                 /\ InFailing(q)' <=> InFailing(q)
                 /\ q \in requeue[g] => InRequeue(q)
           /\ \A x, y \in Requests : x # y => rest'[x] \cap rest'[y] = {}
           /\ \A h, k \in Goroutines : h # k => /\ failing'[h] \cap failing'[k] = {}
                                              /\ requeue'[h] \cap requeue'[k] = {}
<1>1. \A q \in requeue[g] : InRequeue(q) /\ ~InEnqueue(q) /\ ~InRest(q)
  BY DEF QueueTypes, OneOwner, OwnedOnce, InRequeue
<1>2. /\ \A x, y \in Requests : x # y => rest[x] \cap rest[y] = {}
      /\ \A q \in Requests : ~(InEnqueue(q) /\ InRest(q))
      /\ \A h, k \in Goroutines : h # k => /\ failing[h] \cap failing[k] = {}
                                         /\ requeue[h] \cap requeue[k] = {}
  BY DEF OneOwner, OwnedOnce, ListsDistinct
<1>3. /\ \A q \in Requests :
            /\ InEnqueue(q)' => enqPc[q] # "none" \/ q \in requeue[g]
            /\ InRest(q)' => q \in requeue[g] \/ \E x \in Requests : q \in rest[x]
            /\ q \in requeue[g] => ~(InEnqueue(q)' /\ InRest(q)')
      /\ \A x, y \in Requests : x # y => rest'[x] \cap rest'[y] = {}
  <2>1. /\ enqPc \in [Requests -> {"none", "check", "select"}]
        /\ rest \in [Requests -> SUBSET Requests]
        /\ requeue[g] \in SUBSET Requests
    BY DEF QueueTypes
  <2>2. \A q \in requeue[g] : enqPc[q] = "none" /\ \A x \in Requests : q \notin rest[x]
    BY <1>1 DEF InEnqueue, InRest
  <2>3. EnqueueBatch(enqPc, rest, requeue[g])
    BY DEF SpawnRequeue
  <2>4. BatchReady(enqPc, rest, requeue[g])
    BY <1>2, <2>1, <2>2 DEF BatchReady
  <2>5. BatchPlaced(enqPc, rest, requeue[g])
    BY <2>3, <2>4, BatchPlaces
  <2> QED BY <2>5 DEF BatchPlaced
<1>4. /\ \A h \in Goroutines : requeue'[h] = IF h = g THEN {} ELSE requeue[h]
      /\ failing' = failing
  BY DEF SpawnRequeue, QueueTypes
<1>5. \A q \in Requests : /\ InRequeue(q)' => InRequeue(q) /\ q \notin requeue[g]
                          /\ InFailing(q)' <=> InFailing(q)
  BY <1>2, <1>4 DEF InRequeue, InFailing
<1>6. \A h, k \in Goroutines : h # k => /\ failing'[h] \cap failing'[k] = {}
                                     /\ requeue'[h] \cap requeue'[k] = {}
  BY <1>2, <1>4
<1> QED BY <1>1, <1>2, <1>3, <1>5, <1>6 DEF InEnqueue, InRest

\* An element of an extended sequence is an old one, or the last.
LEMMA AppendPlaces ==
    ASSUME NEW S, NEW s \in Seq(S), NEW x \in S
    PROVE  \A i \in DOMAIN Append(s, x) :
              \/ i \in DOMAIN s /\ Append(s, x)[i] = s[i]
              \/ Append(s, x)[i] = x
BY SMT

\* Only r is answered by what is put on its response channel, and a streaming
\* call is not ended by a value.
LEMMA DeliverPlaces ==
    ASSUME ReplyTypes, NEW r \in Requests, NEW v \in ReplyValues,
           deliver(r, v) \/ replyError(r, v)
    PROVE  \A q \in Requests :
              Answered(q)' => Answered(q) \/ (q = r /\ ~(r \in Streaming /\ v = "value"))
<1>1. CASE UNCHANGED replyVars
  BY <1>1 DEF replyVars, Answered
<1>2. CASE replies' = [replies EXCEPT ![r] = Append(@, v)]
  <2> TAKE q \in Requests
  <2>1. CASE q # r
    BY <1>2, <2>1 DEF Answered, ReplyTypes
  <2>2. CASE q = r /\ r \in Streaming /\ v = "value"
    <3>1. replies'[r] = Append(replies[r], v)
      BY <1>2 DEF ReplyTypes
    <3>2. replies[r] \in Seq(ReplyValues)
      BY DEF ReplyTypes
    <3>3. \A i \in DOMAIN Append(replies[r], v) :
             \/ i \in DOMAIN replies[r] /\ Append(replies[r], v)[i] = replies[r][i]
             \/ Append(replies[r], v)[i] = "value"
      BY <2>2, <3>2, AppendPlaces, SMT
    <3>4. "value" \notin Contract!Errors
      BY DEF Contract!Errors
    <3>5. Contract!HasError(replies'[r]) => Contract!HasError(replies[r])
      BY <3>1, <3>3, <3>4 DEF Contract!HasError
    <3> QED BY <2>2, <3>5 DEF Answered
  <2> QED BY <2>1, <2>2
<1> QED BY <1>1, <1>2 DEF deliver, replyError

\* A goroutine that empties the router becomes the owner of what was pending.
LEMMA RequeuePlaces ==
    ASSUME QueueTypes, OneOwner, NEW g \in Goroutines,
           RequeuePending(g) \/ CancelPending(g)
    PROVE  /\ \A q \in Requests :
                 /\ q \notin pending'
                 /\ InFailing(q)' => InFailing(q) \/ q \in pending
                 /\ InRequeue(q)' => InRequeue(q) \/ q \in pending
                 /\ q \in pending => ~(InFailing(q)' /\ InRequeue(q)')
           /\ \A h, k \in Goroutines : h # k => /\ failing'[h] \cap failing'[k] = {}
                                              /\ requeue'[h] \cap requeue'[k] = {}
<1>1. /\ \A h, k \in Goroutines : h # k => /\ failing[h] \cap failing[k] = {}
                                         /\ requeue[h] \cap requeue[k] = {}
      /\ \A q \in pending : \A h \in Goroutines : q \notin failing[h] /\ q \notin requeue[h]
  BY DEF QueueTypes, OneOwner, OwnedOnce, ListsDistinct, InFailing, InRequeue
<1>2. PICK F \in SUBSET pending, R \in SUBSET pending :
         /\ F \cap R = {}
         /\ \A h \in Goroutines : failing'[h] = IF h = g THEN F ELSE failing[h]
         /\ \A h \in Goroutines :
               requeue'[h] = requeue[h] \/ (h = g /\ requeue'[h] = R)
         /\ pending' = {}
  <2>1. CASE RequeuePending(g)
    <3>1. /\ \A h \in Goroutines :
                failing'[h] = IF h = g THEN pending \ Retryable(pending) ELSE failing[h]
          /\ \A h \in Goroutines :
                requeue'[h] = IF h = g THEN Retryable(pending) ELSE requeue[h]
          /\ pending' = {}
      BY <2>1 DEF RequeuePending, QueueTypes
    <3>2. Retryable(pending) \in SUBSET pending
      BY DEF Retryable
    <3> QED BY <3>1, <3>2
  <2>2. CASE CancelPending(g)
    <3>1. /\ \A h \in Goroutines : failing'[h] = IF h = g THEN pending ELSE failing[h]
          /\ requeue' = requeue /\ pending' = {}
      BY <2>2 DEF CancelPending, QueueTypes
    <3>2. pending \in SUBSET pending /\ {} \in SUBSET pending /\ pending \cap {} = {}
      OBVIOUS
    <3> QED BY <3>1, <3>2
  <2> QED BY <2>1, <2>2
<1>3. ASSUME NEW h \in Goroutines, NEW q
      PROVE  /\ q \in failing'[h] => q \in failing[h] \/ (h = g /\ q \in F)
             /\ q \in requeue'[h] => q \in requeue[h] \/ (h = g /\ q \in R)
             /\ q \in F \/ q \in R => q \in pending
             /\ q \in pending => q \notin failing[h] /\ q \notin requeue[h]
  BY <1>1, <1>2
<1>4. ASSUME NEW h \in Goroutines, NEW k \in Goroutines, h # k
      PROVE  failing'[h] \cap failing'[k] = {} /\ requeue'[h] \cap requeue'[k] = {}
  <2>1. failing[h] \cap failing[k] = {} /\ requeue[h] \cap requeue[k] = {}
    BY <1>1, <1>4
  <2>2. ASSUME NEW q \in failing'[h], q \in failing'[k] PROVE FALSE
    BY <1>3, <1>4, <2>1, <2>2
  <2>3. ASSUME NEW q \in requeue'[h], q \in requeue'[k] PROVE FALSE
    BY <1>3, <1>4, <2>1, <2>3
  <2> QED BY <2>2, <2>3
<1>5. ASSUME NEW q \in Requests
      PROVE  /\ q \notin pending'
             /\ InFailing(q)' => InFailing(q) \/ q \in pending
             /\ InRequeue(q)' => InRequeue(q) \/ q \in pending
  BY <1>2, <1>3 DEF InFailing, InRequeue
<1>6. ASSUME NEW q \in pending PROVE ~(InFailing(q)' /\ InRequeue(q)')
  <2>1. \A h \in Goroutines : q \in failing'[h] => q \in F
    BY <1>1, <1>3
  <2>2. \A h \in Goroutines : q \in requeue'[h] => q \in R
    BY <1>1, <1>3
  <2> QED BY <1>2, <2>1, <2>2 DEF InFailing, InRequeue
<1> QED BY <1>4, <1>5, <1>6

\* A place whose variables do not change holds the same requests.
LEMMA PlaceFrame ==
    ASSUME NEW r \in Requests
    PROVE  /\ UNCHANGED enqVars => /\ InEnqueue(r)' <=> InEnqueue(r)
                                   /\ InRest(r)' <=> InRest(r)
           /\ UNCHANGED sendQ => (InSendQ(r)' <=> InSendQ(r))
           /\ UNCHANGED sndVars => (SenderHolds(r)' <=> SenderHolds(r))
           /\ UNCHANGED rcvVars => (ReceiverHolds(r)' <=> ReceiverHolds(r))
           /\ UNCHANGED listVars => /\ InFailing(r)' <=> InFailing(r)
                                    /\ InRequeue(r)' <=> InRequeue(r)
           /\ UNCHANGED replies => (Answered(r)' <=> Answered(r))
BY DEF enqVars, sndVars, rcvVars, listVars, InEnqueue, InRest, InSendQ, SenderHolds,
       wantServerResponse, ReceiverHolds, InFailing, InRequeue, Answered

\* The head leaves sendQ when it is taken.
LEMMA SendQTail ==
    ASSUME QueueTypes, ListsDistinct, sendQ # <<>>, sendQ' = Tail(sendQ)
    PROVE  /\ Head(sendQ) \in Requests /\ InSendQ(Head(sendQ))
           /\ \A q \in Requests : InSendQ(q)' => InSendQ(q) /\ q # Head(sendQ)
           /\ \A i, j \in DOMAIN sendQ' : sendQ'[i] = sendQ'[j] => i = j
<1>1. sendQ \in Seq(Requests) /\ Len(sendQ) > 0
  BY SMT DEF QueueTypes
<1>2. /\ Head(sendQ) = sendQ[1] /\ 1 \in DOMAIN sendQ
      /\ \A i \in DOMAIN sendQ' :
            i + 1 \in DOMAIN sendQ /\ i + 1 # 1 /\ sendQ'[i] = sendQ[i + 1]
      /\ \A i, j \in DOMAIN sendQ' : i + 1 = j + 1 => i = j
  BY <1>1, SMT
<1>3. Head(sendQ) \in Requests /\ InSendQ(Head(sendQ))
  BY <1>2, SendQTypes DEF InSendQ
<1>4. ASSUME NEW i \in DOMAIN sendQ' PROVE sendQ'[i] # Head(sendQ)
  BY <1>2 DEF ListsDistinct
<1>5. \A q \in Requests : InSendQ(q)' => InSendQ(q) /\ q # Head(sendQ)
  BY <1>2, <1>4 DEF InSendQ
<1>6. ASSUME NEW i \in DOMAIN sendQ', NEW j \in DOMAIN sendQ', sendQ'[i] = sendQ'[j]
      PROVE  i = j
  <2>1. i + 1 \in DOMAIN sendQ /\ j + 1 \in DOMAIN sendQ /\ sendQ[i + 1] = sendQ[j + 1]
    BY <1>2, <1>6
  <2>2. i + 1 = j + 1
    BY <2>1 DEF ListsDistinct
  <2> QED BY <1>2, <2>2
<1> QED BY <1>3, <1>5, <1>6

\* What is put in sendQ is in it once.
LEMMA SendQAppend ==
    ASSUME QueueTypes, ListsDistinct, NEW r \in Requests, ~InSendQ(r),
           sendQ' = Append(sendQ, r)
    PROVE  /\ \A q \in Requests : InSendQ(q)' => InSendQ(q) \/ q = r
           /\ \A i, j \in DOMAIN sendQ' : sendQ'[i] = sendQ'[j] => i = j
<1>1. sendQ \in Seq(Requests)
  BY DEF QueueTypes
<1>2. \A i \in DOMAIN sendQ' : \/ i \in DOMAIN sendQ /\ sendQ'[i] = sendQ[i]
                               \/ i = Len(sendQ) + 1 /\ sendQ'[i] = r
  BY <1>1, SMT
<1> QED BY <1>2 DEF ListsDistinct, InSendQ

\* The steps that leave every request where it is.
LEMMA OwnerStill ==
    ASSUME TypeOK, LocalsMatchPc, OneOwner,
           \/ SenderEnsureStream \/ SenderSignal \/ SenderCheck \/ SenderSend
           \/ SenderSendFail \/ SenderExit
           \/ ReceiverGetStream \/ ReceiverWake \/ ReceiverError \/ ReceiverCheckClosed
           \/ Close \/ CloseConn \/ ConnDrop \/ ConnRecover
           \/ \E s \in Streams : StreamBreak(s)
           \/ \E r \in Requests : Cancel(r) \/ Consume(r) \/ WatchFire(r) \/ WatchClear(r)
    PROVE  OneOwner'
<1> USE NameAssumption DEF LocalsMatchPc
<1>1. CASE SenderEnsureStream
  <2>1. \A q \in Requests : /\ SenderHolds(q)' => SenderHolds(q)
                            /\ ReceiverHolds(q)' => ReceiverHolds(q)
    BY <1>1 DEF SenderEnsureStream, SenderFrame, SenderLocals, SenderHolds,
       ReceiverHolds, wantServerResponse, sndVars, rcvVars
  <2> QED BY <1>1, <2>1, OwnerFrame DEF SenderEnsureStream, SenderFrame, callVars,
       enqVars, listVars, replyVars
<1>2. CASE SenderSignal
  <2>1. \A q \in Requests : /\ SenderHolds(q)' => SenderHolds(q)
                            /\ ReceiverHolds(q)' => ReceiverHolds(q)
    BY <1>2 DEF SenderSignal, SenderFrame, SenderLocals, SenderHolds,
       ReceiverHolds, wantServerResponse, sndVars, rcvVars
  <2> QED BY <1>2, <2>1, OwnerFrame DEF SenderSignal, SenderFrame, callVars, enqVars,
       listVars, replyVars
<1>3. CASE SenderCheck
  <2>1. \A q \in Requests : /\ SenderHolds(q)' => SenderHolds(q)
                            /\ ReceiverHolds(q)' => ReceiverHolds(q)
    BY <1>3 DEF SenderCheck, SenderFrame, SenderLocals, SenderHolds,
       ReceiverHolds, wantServerResponse, sndVars, rcvVars
  <2> QED BY <1>3, <2>1, OwnerFrame DEF SenderCheck, SenderFrame, callVars, enqVars,
       listVars, replyVars
<1>4. CASE SenderSend
  <2>1. \A q \in Requests : /\ SenderHolds(q)' => SenderHolds(q)
                            /\ ReceiverHolds(q)' => ReceiverHolds(q)
    BY <1>4, KindAssumption DEF SenderSend, SenderFrame, SenderLoop,
       wantSendConfirmation, SenderHolds, ReceiverHolds, wantServerResponse,
       sndVars, rcvVars
  <2> QED BY <1>4, <2>1, OwnerFrame DEF SenderSend, SenderFrame, SenderLoop, callVars,
       enqVars, listVars, replyVars
<1>5. CASE SenderSendFail
  <2>1. \A q \in Requests : /\ SenderHolds(q)' => SenderHolds(q)
                            /\ ReceiverHolds(q)' => ReceiverHolds(q)
    BY <1>5 DEF SenderSendFail, SenderFrame, SenderHolds, ReceiverHolds,
       wantServerResponse, sndVars, rcvVars
  <2> QED BY <1>5, <2>1, OwnerFrame DEF SenderSendFail, SenderFrame, callVars, enqVars,
       listVars, replyVars
<1>6. CASE SenderExit
  <2>1. \A q \in Requests : /\ SenderHolds(q)' => SenderHolds(q)
                            /\ ReceiverHolds(q)' => ReceiverHolds(q)
    BY <1>6 DEF SenderExit, SenderFrame, SenderHolds, ReceiverHolds,
       wantServerResponse, sndVars, rcvVars
  <2> QED BY <1>6, <2>1, OwnerFrame DEF SenderExit, SenderFrame, callVars, enqVars,
       listVars, replyVars
<1>7. CASE ReceiverGetStream
  <2>1. \A q \in Requests : /\ SenderHolds(q)' => SenderHolds(q)
                            /\ ReceiverHolds(q)' => ReceiverHolds(q)
    BY <1>7, PlaceFrame DEF ReceiverGetStream, ReceiverFrame, ReceiverHolds
  <2> QED BY <1>7, <2>1, OwnerFrame DEF ReceiverGetStream, ReceiverFrame, callVars,
       enqVars, listVars, replyVars
<1>8. CASE ReceiverWake
  <2>1. \A q \in Requests : /\ SenderHolds(q)' => SenderHolds(q)
                            /\ ReceiverHolds(q)' => ReceiverHolds(q)
    BY <1>8, PlaceFrame DEF ReceiverWake, ReceiverFrame, ReceiverHolds
  <2> QED BY <1>8, <2>1, OwnerFrame DEF ReceiverWake, ReceiverFrame, callVars, enqVars,
       listVars, replyVars
<1>9. CASE ReceiverError
  <2>1. \A q \in Requests : /\ SenderHolds(q)' => SenderHolds(q)
                            /\ ReceiverHolds(q)' => ReceiverHolds(q)
    BY <1>9, PlaceFrame DEF ReceiverError, ReceiverFrame, ReceiverHolds
  <2> QED BY <1>9, <2>1, OwnerFrame DEF ReceiverError, ReceiverFrame, callVars,
       enqVars, listVars, replyVars
<1>10. CASE ReceiverCheckClosed
  <2>1. \A q \in Requests : /\ SenderHolds(q)' => SenderHolds(q)
                            /\ ReceiverHolds(q)' => ReceiverHolds(q)
    BY <1>10, PlaceFrame DEF ReceiverCheckClosed, ReceiverFrame, ReceiverHolds
  <2> QED BY <1>10, <2>1, OwnerFrame DEF ReceiverCheckClosed, ReceiverFrame, callVars,
       enqVars, listVars, replyVars
<1>11. CASE Close
  <2>1. \A q \in Requests : /\ SenderHolds(q)' => SenderHolds(q)
                            /\ ReceiverHolds(q)' => ReceiverHolds(q)
    BY <1>11, PlaceFrame DEF Close, CloseFrame
  <2> QED BY <1>11, <2>1, OwnerFrame DEF Close, CloseFrame, callVars, enqVars,
       listVars, replyVars
<1>12. CASE CloseConn
  <2>1. \A q \in Requests : /\ SenderHolds(q)' => SenderHolds(q)
                            /\ ReceiverHolds(q)' => ReceiverHolds(q)
    BY <1>12, PlaceFrame DEF CloseConn, CloseFrame
  <2> QED BY <1>12, <2>1, OwnerFrame DEF CloseConn, CloseFrame, callVars, enqVars,
       listVars, replyVars
<1>13. CASE ConnDrop
  <2>1. \A q \in Requests : /\ SenderHolds(q)' => SenderHolds(q)
                            /\ ReceiverHolds(q)' => ReceiverHolds(q)
    BY <1>13, PlaceFrame DEF ConnDrop, EnvFrame
  <2> QED BY <1>13, <2>1, OwnerFrame DEF ConnDrop, EnvFrame, callVars, enqVars,
       listVars, replyVars
<1>14. CASE ConnRecover
  <2>1. \A q \in Requests : /\ SenderHolds(q)' => SenderHolds(q)
                            /\ ReceiverHolds(q)' => ReceiverHolds(q)
    BY <1>14, PlaceFrame DEF ConnRecover, EnvFrame
  <2> QED BY <1>14, <2>1, OwnerFrame DEF ConnRecover, EnvFrame, callVars, enqVars,
       listVars, replyVars
<1>15. ASSUME NEW s \in Streams, StreamBreak(s) PROVE OneOwner'
  <2>1. \A q \in Requests : /\ SenderHolds(q)' => SenderHolds(q)
                            /\ ReceiverHolds(q)' => ReceiverHolds(q)
    BY <1>15, PlaceFrame DEF StreamBreak, EnvFrame
  <2> QED BY <1>15, <2>1, OwnerFrame DEF StreamBreak, EnvFrame, callVars, enqVars,
       listVars, replyVars
<1>16. ASSUME NEW r \in Requests, Cancel(r) PROVE OneOwner'
  <2>1. \A q \in Requests : /\ SenderHolds(q)' => SenderHolds(q)
                            /\ ReceiverHolds(q)' => ReceiverHolds(q)
    BY <1>16, PlaceFrame DEF Cancel, EnvFrame
  <2> QED BY <1>16, <2>1, OwnerFrame DEF Cancel, EnvFrame, callVars, enqVars, listVars,
       replyVars
<1>17. ASSUME NEW r \in Requests, Consume(r) PROVE OneOwner'
  <2>1. \A q \in Requests : /\ SenderHolds(q)' => SenderHolds(q)
                            /\ ReceiverHolds(q)' => ReceiverHolds(q)
    BY <1>17, PlaceFrame DEF Consume, EnvFrame
  <2> QED BY <1>17, <2>1, OwnerFrame DEF Consume, EnvFrame, callVars, enqVars,
       listVars, replyVars
<1>18. ASSUME NEW r \in Requests, WatchFire(r) PROVE OneOwner'
  <2>1. \A q \in Requests : /\ SenderHolds(q)' => SenderHolds(q)
                            /\ ReceiverHolds(q)' => ReceiverHolds(q)
    BY <1>18, PlaceFrame DEF WatchFire, WatchFrame
  <2> QED BY <1>18, <2>1, OwnerFrame DEF WatchFire, WatchFrame, callVars, enqVars,
       listVars, replyVars
<1>19. ASSUME NEW r \in Requests, WatchClear(r) PROVE OneOwner'
  <2>1. \A q \in Requests : /\ SenderHolds(q)' => SenderHolds(q)
                            /\ ReceiverHolds(q)' => ReceiverHolds(q)
    BY <1>19, PlaceFrame DEF WatchClear, WatchFrame
  <2> QED BY <1>19, <2>1, OwnerFrame DEF WatchClear, WatchFrame, callVars, enqVars,
       listVars, replyVars
<1> QED
  BY <1>1, <1>2, <1>3, <1>4, <1>5, <1>6, <1>7, <1>8, <1>9, <1>10, <1>11, <1>12,
     <1>13, <1>14, <1>15, <1>16, <1>17, <1>18, <1>19

\* The steps that move a request from one place to the next.
LEMMA OwnerMoves ==
    ASSUME TypeOK, LocalsMatchPc, OneOwner,
           \/ SenderTake \/ SenderRegister \/ SenderRequeue \/ SenderSpawn
           \/ SenderReply \/ SenderDrain
           \/ ReceiverDeliver \/ ReceiverRequeue \/ ReceiverSpawn \/ CloseCancelPending
           \/ \E g \in Goroutines : FailOne(g)
           \/ \E r \in Requests :
                 \/ Call(r) \/ EnqueueCheck(r) \/ EnqueueClosed(r) \/ EnqueueSend(r)
                 \/ ReceiverResponse(r) \/ ReceiverBackCall(r)
                 \/ WatchRequeue(r) \/ WatchSpawn(r)
    PROVE  OneOwner'
<1>0. /\ CallTypes /\ QueueTypes /\ GoroutineTypes /\ ReplyTypes
      /\ SenderLocals /\ ReceiverLocals /\ ListLocals
      /\ ListsDistinct /\ \A q \in Requests : OwnedOnce(q)
  BY DEF TypeOK, LocalsMatchPc, OneOwner
<1> SUFFICES ListsDistinct' /\ \A q \in Requests : OwnedOnce(q)'
  BY DEF OneOwner
<1>1. CASE SenderTake
  <2>1. UNCHANGED <<started, enqVars, rcvVars, pending, listVars, replies>>
    BY <1>1 DEF SenderTake, SenderFrame, callVars, replyVars
  <2>2. /\ Head(sendQ) \in Requests /\ InSendQ(Head(sendQ))
        /\ \A q \in Requests : InSendQ(q)' => InSendQ(q) /\ q # Head(sendQ)
        /\ \A i, j \in DOMAIN sendQ' : sendQ'[i] = sendQ'[j] => i = j
    BY <1>0, <1>1, SendQTail DEF SenderTake
  <2>3. \A q \in Requests : SenderHolds(q)' => q = Head(sendQ)
    BY <1>1 DEF SenderTake, SenderHolds
  <2>4. ListsDistinct'
    BY <1>0, <2>1, <2>2 DEF ListsDistinct, enqVars, listVars
  <2> QED BY <1>0, <2>1, <2>2, <2>3, <2>4, PlaceFrame DEF OwnedOnce, Held
<1>2. CASE SenderRegister
  <2>1. UNCHANGED <<started, enqVars, sendQ, rcvVars, listVars, replies>>
    BY <1>2 DEF SenderRegister, SenderFrame, callVars, replyVars
  <2>2. \A q \in Requests :
           /\ SenderHolds(q)' => SenderHolds(q) /\ q \notin pending'
           /\ q \in pending' => q \in pending \/ SenderHolds(q)
    BY <1>0, <1>2 DEF SenderRegister, SenderHolds, OwnedOnce
  <2>3. ListsDistinct'
    BY <1>0, <2>1 DEF ListsDistinct, enqVars, listVars
  <2> QED BY <1>0, <2>1, <2>2, <2>3, PlaceFrame DEF OwnedOnce, Held
<1>3. ASSUME NEW g \in Goroutines, RequeuePending(g) \/ CancelPending(g),
             UNCHANGED <<started, enqVars, sendQ, replies>>,
             \A q \in Requests : /\ SenderHolds(q)' => SenderHolds(q)
                                 /\ ReceiverHolds(q)' => ReceiverHolds(q)
      PROVE  ListsDistinct' /\ \A q \in Requests : OwnedOnce(q)'
  <2>1. /\ \A q \in Requests :
              /\ q \notin pending'
              /\ InFailing(q)' => InFailing(q) \/ q \in pending
              /\ InRequeue(q)' => InRequeue(q) \/ q \in pending
              /\ q \in pending => ~(InFailing(q)' /\ InRequeue(q)')
        /\ \A h, k \in Goroutines : h # k => /\ failing'[h] \cap failing'[k] = {}
                                           /\ requeue'[h] \cap requeue'[k] = {}
    BY <1>0, <1>3, RequeuePlaces
  <2>2. ListsDistinct'
    BY <1>0, <1>3, <2>1 DEF ListsDistinct, enqVars
  <2> QED BY <1>0, <1>3, <2>1, <2>2, PlaceFrame DEF OwnedOnce, Held
<1>4. CASE SenderRequeue
  <2>1. \A q \in Requests : /\ SenderHolds(q)' => SenderHolds(q)
                            /\ ReceiverHolds(q)' => ReceiverHolds(q)
    BY <1>4 DEF SenderRequeue, SenderFrame, SenderHolds, ReceiverHolds,
       wantServerResponse, rcvVars
  <2> QED BY <1>3, <1>4, <2>1, GoroutineNames DEF SenderRequeue, SenderFrame, callVars,
             replyVars
<1>5. CASE ReceiverRequeue
  <2>1. \A q \in Requests : /\ SenderHolds(q)' => SenderHolds(q)
                            /\ ReceiverHolds(q)' => ReceiverHolds(q)
    BY <1>5, PlaceFrame DEF ReceiverRequeue, ReceiverFrame, ReceiverHolds
  <2> QED BY <1>3, <1>5, <2>1, GoroutineNames DEF ReceiverRequeue, ReceiverFrame, replyVars
<1>6. CASE CloseCancelPending
  BY <1>3, <1>6, GoroutineNames, PlaceFrame DEF CloseCancelPending, CloseFrame, callVars,
     replyVars
<1>7. ASSUME NEW r \in Requests, WatchRequeue(r)
      PROVE  ListsDistinct' /\ \A q \in Requests : OwnedOnce(q)'
  BY <1>3, <1>7, GoroutineNames, PlaceFrame DEF WatchRequeue, WatchFrame, callVars, replyVars
<1>8. ASSUME NEW g \in Goroutines, SpawnRequeue(g),
             UNCHANGED <<started, sendQ, pending, replies>>,
             \A q \in Requests : /\ SenderHolds(q)' => SenderHolds(q)
                                 /\ ReceiverHolds(q)' => ReceiverHolds(q)
      PROVE  ListsDistinct' /\ \A q \in Requests : OwnedOnce(q)'
  <2>1. /\ \A q \in Requests :
              /\ InEnqueue(q)' => InEnqueue(q) \/ q \in requeue[g]
              /\ InRest(q)' => InRest(q) \/ q \in requeue[g]
              /\ ~(InEnqueue(q)' /\ InRest(q)')
              /\ InRequeue(q)' => InRequeue(q) /\ q \notin requeue[g]
              /\ InFailing(q)' <=> InFailing(q)
              /\ q \in requeue[g] => InRequeue(q)
        /\ \A x, y \in Requests : x # y => rest'[x] \cap rest'[y] = {}
        /\ \A h, k \in Goroutines : h # k => /\ failing'[h] \cap failing'[k] = {}
                                           /\ requeue'[h] \cap requeue'[k] = {}
    BY <1>0, <1>8, SpawnPlaces DEF OneOwner
  <2>2. ListsDistinct'
    BY <1>0, <1>8, <2>1 DEF ListsDistinct
  <2> QED BY <1>0, <1>8, <2>1, <2>2, PlaceFrame DEF OwnedOnce, Held
<1>9. CASE SenderSpawn
  <2>1. \A q \in Requests : /\ SenderHolds(q)' => SenderHolds(q)
                            /\ ReceiverHolds(q)' => ReceiverHolds(q)
    BY <1>9, NameAssumption DEF SenderSpawn, SenderFrame, SenderLoop, SenderHolds,
       SenderAnswersFailedSend, wantServerResponse, ReceiverHolds, rcvVars
  <2> QED BY <1>8, <1>9, <2>1, GoroutineNames DEF SenderSpawn, SenderFrame, callVars,
             replyVars
<1>10. CASE ReceiverSpawn
  <2>1. \A q \in Requests : /\ SenderHolds(q)' => SenderHolds(q)
                            /\ ReceiverHolds(q)' => ReceiverHolds(q)
    BY <1>10, PlaceFrame DEF ReceiverSpawn, ReceiverFrame, ReceiverHolds
  <2> QED BY <1>8, <1>10, <2>1, GoroutineNames DEF ReceiverSpawn, ReceiverFrame, replyVars
<1>11. ASSUME NEW r \in Requests, WatchSpawn(r)
       PROVE  ListsDistinct' /\ \A q \in Requests : OwnedOnce(q)'
  BY <1>8, <1>11, GoroutineNames, PlaceFrame DEF WatchSpawn, WatchFrame, callVars, replyVars
<1>12. CASE SenderReply
  <2>1. UNCHANGED <<started, enqVars, sendQ, rcvVars, pending, listVars>>
    BY <1>12 DEF SenderReply, SenderFrame, callVars
  <2>2. /\ sndReq \in Requests /\ SenderHolds(sndReq)
        /\ \A q \in Requests : ~SenderHolds(q)'
    BY <1>0, <1>12, NameAssumption DEF SenderReply, SenderLoop, SenderHolds, SenderLocals,
       GoroutineTypes
  <2>3. \A q \in Requests : Answered(q)' => Answered(q) \/ q = sndReq
    BY <1>0, <1>12, <2>2, DeliverPlaces, ReplyNames DEF SenderReply, SenderLocals,
       GoroutineTypes
  <2>4. ListsDistinct'
    BY <1>0, <2>1 DEF ListsDistinct, enqVars, listVars
  <2> QED BY <1>0, <2>1, <2>2, <2>3, <2>4, PlaceFrame DEF OwnedOnce, Held
<1>13. CASE SenderDrain
  <2>1. UNCHANGED <<started, enqVars, sndVars, rcvVars, pending, listVars>>
    BY <1>13 DEF SenderDrain, SenderFrame, callVars
  <2>2. /\ Head(sendQ) \in Requests /\ InSendQ(Head(sendQ))
        /\ \A q \in Requests : InSendQ(q)' => InSendQ(q) /\ q # Head(sendQ)
        /\ \A i, j \in DOMAIN sendQ' : sendQ'[i] = sendQ'[j] => i = j
    BY <1>0, <1>13, SendQTail DEF SenderDrain
  <2>3. \A q \in Requests : Answered(q)' => Answered(q) \/ q = Head(sendQ)
    BY <1>0, <1>13, <2>2, DeliverPlaces, ReplyNames DEF SenderDrain
  <2>4. ListsDistinct'
    BY <1>0, <2>1, <2>2 DEF ListsDistinct, enqVars, listVars
  <2> QED BY <1>0, <2>1, <2>2, <2>3, <2>4, PlaceFrame DEF OwnedOnce, Held
<1>14. CASE ReceiverDeliver
  <2>1. UNCHANGED <<started, enqVars, sendQ, sndVars, pending, listVars>>
    BY <1>14 DEF ReceiverDeliver, ReceiverFrame
  <2>2. /\ rcvReq \in Requests
        /\ rcvReq \notin Streaming => ReceiverHolds(rcvReq)
        /\ \A q \in Requests : ~ReceiverHolds(q)'
    BY <1>0, <1>14, RequestKinds DEF ReceiverDeliver, ReceiverHolds, ReceiverLocals
  <2>3. \A q \in Requests : Answered(q)' => Answered(q) \/ (q = rcvReq /\ q \notin Streaming)
    BY <1>0, <1>14, <2>2, DeliverPlaces, ReplyNames DEF ReceiverDeliver
  <2>4. ListsDistinct'
    BY <1>0, <2>1 DEF ListsDistinct, enqVars, listVars
  <2> QED BY <1>0, <2>1, <2>2, <2>3, <2>4, PlaceFrame DEF OwnedOnce, Held
<1>15. ASSUME NEW g \in Goroutines, FailOne(g)
       PROVE  ListsDistinct' /\ \A q \in Requests : OwnedOnce(q)'
  <2>1. UNCHANGED <<started, enqVars, sendQ, sndVars, rcvVars, pending, requeue>>
    BY <1>15 DEF FailOne, callVars
  <2>2. PICK r \in failing[g] : /\ replyError(r, PendingError(g))
                                /\ failing' = [failing EXCEPT ![g] = @ \ {r}]
    BY <1>15 DEF FailOne
  <2>3. /\ r \in Requests /\ InFailing(r) /\ PendingError(g) \in ReplyValues
        /\ \A h \in Goroutines : failing'[h] = IF h = g THEN failing[h] \ {r} ELSE failing[h]
    BY <1>0, <2>2, ReplyNames DEF QueueTypes, InFailing, PendingError
  <2>4. \A q \in Requests : Answered(q)' => Answered(q) \/ q = r
    BY <1>0, <2>2, <2>3, DeliverPlaces
  <2>5. \A q \in Requests : /\ InFailing(q)' => InFailing(q) /\ q # r
                            /\ InRequeue(q)' <=> InRequeue(q)
    <3>1. ASSUME NEW h \in Goroutines PROVE r \notin failing'[h]
      <4>1. h # g => failing[g] \cap failing[h] = {}
        BY <1>0 DEF ListsDistinct
      <4>2. r \in failing[g]
        BY <2>2
      <4>3. failing'[h] = IF h = g THEN failing[h] \ {r} ELSE failing[h]
        BY <2>3
      <4> HIDE <1>15
      <4> QED BY <4>1, <4>2, <4>3
    <3>2. \A h \in Goroutines : failing'[h] \subseteq failing[h]
      BY <2>3
    <3>3. \A q \in Requests : InFailing(q)' => InFailing(q) /\ q # r
      BY <3>1, <3>2 DEF InFailing
    <3> QED BY <2>1, <3>3 DEF InRequeue
  <2>6. ListsDistinct'
    BY <1>0, <2>1, <2>3 DEF ListsDistinct, enqVars
  <2> QED BY <1>0, <2>1, <2>3, <2>4, <2>5, <2>6, PlaceFrame DEF OwnedOnce, Held
<1>16. ASSUME NEW r \in Requests, ReceiverResponse(r)
       PROVE  ListsDistinct' /\ \A q \in Requests : OwnedOnce(q)'
  <2>1. UNCHANGED <<started, enqVars, sendQ, sndVars, listVars, replies>>
    BY <1>16 DEF ReceiverResponse, ReceiverFrame, replyVars
  <2>2. /\ r \in pending
        /\ \A q \in Requests :
              /\ q \in pending' => q \in pending /\ (q # r \/ q \in Streaming)
              /\ ReceiverHolds(q)' => q = r /\ q \notin Streaming
    BY <1>16 DEF ReceiverResponse, RemovePending, ReceiverHolds
  <2>3. ListsDistinct'
    BY <1>0, <2>1 DEF ListsDistinct, enqVars, listVars
  <2> QED BY <1>0, <2>1, <2>2, <2>3, PlaceFrame DEF OwnedOnce, Held
<1>17. ASSUME NEW r \in Requests, Call(r) \/ ReceiverBackCall(r)
       PROVE  ListsDistinct' /\ \A q \in Requests : OwnedOnce(q)'
  <2>1. UNCHANGED <<sendQ, sndVars, pending, listVars, replies>>
    BY <1>17 DEF Call, ReceiverBackCall, ReceiverFrame, replyVars
  <2>2. /\ r \notin started /\ started' = started \cup {r}
        /\ EnqueueBatch(enqPc, rest, {r})
        /\ \A q \in Requests : ReceiverHolds(q)' => ReceiverHolds(q)
    BY <1>17, PlaceFrame DEF Call, ReceiverBackCall, ReceiverHolds
  <2>3. /\ \A q \in Requests :
              /\ InEnqueue(q)' => enqPc[q] # "none" \/ q \in {r}
              /\ InRest(q)' => q \in {r} \/ \E x \in Requests : q \in rest[x]
              /\ q \in {r} => ~(InEnqueue(q)' /\ InRest(q)')
        /\ \A x, y \in Requests : x # y => rest'[x] \cap rest'[y] = {}
    <3>1. \A q \in {r} : enqPc[q] = "none" /\ \A x \in Requests : q \notin rest[x]
      BY <1>0, <2>2 DEF OwnedOnce, Held, InEnqueue, InRest
    <3>2. /\ enqPc \in [Requests -> {"none", "check", "select"}]
          /\ rest \in [Requests -> SUBSET Requests]
          /\ \A x, y \in Requests : x # y => rest[x] \cap rest[y] = {}
      BY <1>0 DEF QueueTypes, ListsDistinct
    <3>3. {r} \in SUBSET Requests /\ EnqueueBatch(enqPc, rest, {r})
      BY <2>2
    <3> HIDE <1>17
    <3>4. BatchReady(enqPc, rest, {r})
      BY <3>1, <3>2, <3>3 DEF BatchReady
    <3>5. BatchPlaced(enqPc, rest, {r})
      BY <3>3, <3>4, BatchPlaces
    <3> QED BY <3>5 DEF BatchPlaced
  <2>4. ListsDistinct'
    BY <1>0, <2>1, <2>3 DEF ListsDistinct, listVars
  <2>5. \A q \in Requests : /\ InEnqueue(q)' => InEnqueue(q) \/ q = r
                            /\ InRest(q)' => InRest(q) \/ q = r
    BY <2>3 DEF InEnqueue, InRest
  <2> QED BY <1>0, <2>1, <2>2, <2>3, <2>4, <2>5, PlaceFrame DEF OwnedOnce, Held
<1>18. ASSUME NEW r \in Requests, InEnqueue(r), EnqueueReturn(r),
              UNCHANGED <<started, rcvVars, pending, listVars>>,
              \A q \in Requests :
                 /\ InSendQ(q)' => InSendQ(q) \/ q = r
                 /\ SenderHolds(q)' => SenderHolds(q) \/ q = r
                 /\ Answered(q)' => Answered(q) \/ q = r,
              \/ ~InSendQ(r)' /\ ~SenderHolds(r)'
              \/ ~InSendQ(r)' /\ ~Answered(r)'
              \/ ~SenderHolds(r)' /\ ~Answered(r)',
              \A i, j \in DOMAIN sendQ' : sendQ'[i] = sendQ'[j] => i = j
       PROVE  ListsDistinct' /\ \A q \in Requests : OwnedOnce(q)'
  <2>1. /\ \A q \in Requests :
              /\ InEnqueue(q)' => (InEnqueue(q) /\ q # r) \/ InRest(q)
              /\ InRest(q)' => InRest(q)
              /\ ~(InEnqueue(q)' /\ InRest(q)')
        /\ \A x, y \in Requests : x # y => rest'[x] \cap rest'[y] = {}
    BY <1>0, <1>18, ReturnPlaces DEF OneOwner
  <2>2. ListsDistinct'
    BY <1>0, <1>18, <2>1 DEF ListsDistinct, listVars
  <2> QED BY <1>0, <1>18, <2>1, <2>2, PlaceFrame DEF OwnedOnce, Held
<1>19. ASSUME NEW r \in Requests, InEnqueue(r), closed, replyError(r, "closed"),
              EnqueueReturn(r),
              UNCHANGED <<started, sendQ, sndVars, rcvVars, pending, listVars>>
       PROVE  ListsDistinct' /\ \A q \in Requests : OwnedOnce(q)'
  <2>1. \A q \in Requests : Answered(q)' => Answered(q) \/ q = r
    BY <1>0, <1>19, DeliverPlaces, ReplyNames
  <2>2. ~InSendQ(r)' /\ ~SenderHolds(r)'
    BY <1>0, <1>19, PlaceFrame DEF OwnedOnce
  <2>3. \A i, j \in DOMAIN sendQ' : sendQ'[i] = sendQ'[j] => i = j
    BY <1>0, <1>19 DEF ListsDistinct
  <2> QED BY <1>18, <1>19, <2>1, <2>2, <2>3, PlaceFrame
<1>20. ASSUME NEW r \in Requests, EnqueueCheck(r) \/ EnqueueClosed(r)
       PROVE  ListsDistinct' /\ \A q \in Requests : OwnedOnce(q)'
  <2>1. InEnqueue(r) /\ UNCHANGED <<started, sendQ, sndVars, rcvVars, pending, listVars>>
    BY <1>20 DEF EnqueueCheck, EnqueueClosed, InEnqueue, callVars
  <2>2. CASE closed /\ replyError(r, "closed") /\ EnqueueReturn(r)
    BY <1>19, <2>1, <2>2
  <2>3. CASE enqPc[r] = "check" /\ enqPc' = [enqPc EXCEPT ![r] = "select"]
             /\ UNCHANGED <<rest, replyVars>>
    <3>1. \A q \in Requests : (InEnqueue(q)' <=> InEnqueue(q)) /\ (InRest(q)' <=> InRest(q))
      BY <1>0, <2>3 DEF QueueTypes, InEnqueue, InRest
    <3>2. ListsDistinct'
      BY <1>0, <2>1, <2>3 DEF ListsDistinct, listVars
    <3> QED BY <1>0, <2>1, <2>3, <3>1, <3>2, PlaceFrame DEF OwnedOnce, Held, replyVars
  <2> QED BY <1>20, <2>2, <2>3 DEF EnqueueCheck, EnqueueClosed
<1>21. ASSUME NEW r \in Requests, EnqueueSend(r)
       PROVE  ListsDistinct' /\ \A q \in Requests : OwnedOnce(q)'
  <2>1. /\ InEnqueue(r) /\ EnqueueReturn(r)
        /\ UNCHANGED <<started, rcvVars, pending, listVars>>
    BY <1>21 DEF EnqueueSend, InEnqueue, callVars
  <2>2. ~InSendQ(r) /\ ~SenderHolds(r) /\ ~Answered(r)
    BY <1>0, <2>1 DEF OwnedOnce
  <2>3. \A i, j \in DOMAIN sendQ : sendQ[i] = sendQ[j] => i = j
    BY <1>0 DEF ListsDistinct
  <2>4. CASE sendQ' = Append(sendQ, r) /\ UNCHANGED <<sndVars, replyVars>>
    <3>1. /\ \A q \in Requests : InSendQ(q)' => InSendQ(q) \/ q = r
          /\ \A i, j \in DOMAIN sendQ' : sendQ'[i] = sendQ'[j] => i = j
      BY <1>0, <2>2, <2>4, SendQAppend
    <3>2. UNCHANGED replies
      BY <2>4 DEF replyVars
    <3> QED BY <1>18, <2>1, <2>2, <2>4, <3>1, <3>2, PlaceFrame
  <2>5. CASE sndPc = "select" /\ sndReq' = r /\ UNCHANGED <<sendQ, replyVars>>
    <3>1. \A q \in Requests : SenderHolds(q)' => q = r
      BY <2>5 DEF SenderHolds
    <3>2. UNCHANGED replies
      BY <2>5 DEF replyVars
    <3> QED BY <1>18, <2>1, <2>2, <2>3, <2>5, <3>1, <3>2, PlaceFrame
  <2>6. CASE sndPc = "drain" /\ replyError(r, "closed") /\ UNCHANGED <<sendQ, sndVars>>
    <3>1. closed
      BY <1>0, <2>6 DEF SenderLocals
    <3> QED BY <1>19, <2>1, <2>6, <3>1
  <2> QED BY <1>21, <2>4, <2>5, <2>6 DEF EnqueueSend, PutInSendQ
<1> QED BY <1>1, <1>2, <1>4, <1>5, <1>6, <1>7, <1>9, <1>10, <1>11, <1>12, <1>13, <1>14,
           <1>15, <1>16, <1>17, <1>20, <1>21

\* One step keeps OneOwner.
LEMMA OwnerStep ==
    ASSUME TypeOK, LocalsMatchPc, OneOwner, Next PROVE OneOwner'
BY OwnerStill, OwnerMoves, GoroutineNames DEF Next, Sender, Receiver, Closer, Watch

\* Initially no request is anywhere.
LEMMA InitOwner == Init => LocalsMatchPc /\ OneOwner
<1> SUFFICES ASSUME Init PROVE LocalsMatchPc /\ OneOwner
  OBVIOUS
<1>1. LocalsMatchPc
  BY GoroutineNames DEF Init, LocalsMatchPc, SenderLocals, ReceiverLocals, ListLocals
<1>2. ListsDistinct
  <2>1. /\ \A q \in Requests : rest[q] = {}
        /\ \A g \in Goroutines : failing[g] = {} /\ requeue[g] = {}
        /\ sendQ = <<>>
    BY DEF Init
  <2>2. DOMAIN sendQ = {}
    BY <2>1, SMT
  <2> QED BY <2>1, <2>2 DEF ListsDistinct
<1>3. ASSUME NEW r \in Requests PROVE ~Held(r) /\ ~Answered(r)
  <2>1. replies[r] = <<>> /\ sendQ = <<>>
    BY DEF Init
  <2>2. ~InSendQ(r)
    <3>1. DOMAIN sendQ = {}
      BY <2>1, SMT
    <3> QED BY <3>1 DEF InSendQ
  <2>3. ~InEnqueue(r) /\ ~InRest(r) /\ ~InFailing(r) /\ ~InRequeue(r) /\ r \notin pending
    BY DEF Init, InEnqueue, InRest, InFailing, InRequeue
  <2>4. ~SenderHolds(r) /\ ~ReceiverHolds(r)
    BY NameAssumption DEF Init, SenderHolds, ReceiverHolds
  <2>5. ~Answered(r)
    <3>1. DOMAIN replies[r] = {}
      BY <2>1, SMT
    <3>2. ~Contract!HasError(replies[r])
      BY <3>1 DEF Contract!HasError
    <3> QED BY <2>1, <3>2 DEF Answered
  <2> QED BY <2>2, <2>3, <2>4, <2>5 DEF Held
<1> QED BY <1>1, <1>2, <1>3 DEF OneOwner, OwnedOnce, Held

-----------------------------------------------------------------------------
(* Theorems *)

\* The inductive invariant: the types need the locals (a request in Send is a
\* request, not NoReq), the locals need the owners (what the receiver delivers
\* was issued) and the owners need both.
Inv == TypeOK /\ LocalsMatchPc /\ OneOwner

\* Stuttering changes nothing.
LEMMA InvStutter == Inv /\ UNCHANGED vars => Inv'
<1> SUFFICES ASSUME Inv, UNCHANGED vars PROVE Inv'
  OBVIOUS
<1> USE DEF vars, callVars, closeVars, enqVars, sndVars, rcvVars, watchVars, listVars,
            replyVars, netVars
<1>1. TypeOK'
  BY TypeFrame DEF Inv, TypeOK
<1>2. LocalsMatchPc'
  BY DEF Inv, LocalsMatchPc, SenderLocals, ReceiverLocals, ListLocals, CtxDone
<1>3. OneOwner'
  BY OwnerFrame, PlaceFrame DEF Inv
<1> QED BY <1>1, <1>2, <1>3 DEF Inv

\* Inv holds in every reachable state.
THEOREM Invariance == Spec => []Inv
<1>1. Init => Inv
  BY InitType, InitOwner DEF Inv
<1>2. Inv /\ [Next]_vars => Inv'
  BY TypeStep, LocalsStep, OwnerStep, InvStutter DEF Inv
<1> QED BY <1>1, <1>2, PTL DEF Spec

\* The variables of the channel keep their types for every number of requests,
\* every queue size and every number of streams.
THEOREM TypeCorrect == Spec => []TypeOK
<1>1. Inv => TypeOK
  BY DEF Inv
<1> QED BY <1>1, Invariance, PTL

\* Every list is empty unless its goroutine is working on it, and every program
\* counter has the locals it needs.
THEOREM LocalsCorrect == Spec => []LocalsMatchPc
<1>1. Inv => LocalsMatchPc
  BY DEF Inv
<1> QED BY <1>1, Invariance, PTL

\* No request is ever in two places: the sender, the receiver, the AfterFunc
\* callbacks, Close and the requeue goroutines never own the same reply.
THEOREM SingleOwner == Spec => []OneOwner
<1>1. Inv => OneOwner
  BY DEF Inv
<1> QED BY <1>1, Invariance, PTL
=============================================================================
