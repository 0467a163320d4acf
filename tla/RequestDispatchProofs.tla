----------------------- MODULE RequestDispatchProofs -----------------------
(***************************************************************************)
(* Proofs about RequestDispatch, for any requests, any handlers and any    *)
(* capacity of the finished channel.                                       *)
(***************************************************************************)
EXTENDS RequestDispatch, TLAPS

\* The prover of every leaf that names no other.
USE Zenon
\* The state of the stream's two directions is always expanded.
USE DEF linkVars

Messages == [kind : {"request", "answer"}, req : Remote]

-----------------------------------------------------------------------------
(* The parts of the inductive invariant *)

\* The sending goroutine enqueues a response it was given.
SendingHas == sndPc = "enqueue" => sndMsg \in Remote

\* The calls that are registered are those that handlers wait for.
CallsWaited == \A m \in calls : handlerPc[m] = "call"

IsRequest(i, m) == i \in DOMAIN inbox /\ inbox[i] = Message("request", m)

\* A request is delivered once: it is on the stream or has a handler, and a
\* handler that has not begun has not released its lock.
DeliveredOnce ==
    /\ \A m \in Remote : \A i \in DOMAIN inbox :
          IsRequest(i, m) => m \in arrived /\ handlerPc[m] = "none"
    /\ \A m \in Remote : \A i, j \in DOMAIN inbox :
          IsRequest(i, m) /\ IsRequest(j, m) => i = j
    /\ \A m \in Remote : handlerPc[m] # "none" => m \in arrived
    /\ \A m \in LocalCalls : callPc[m] # "returned" => handlerPc[m] = "none"
    /\ \A m \in released : handlerPc[m] \notin {"none", "spawned"}

\* At most the last request that was received has not begun to run.
LastNotBegun ==
    /\ Len(received) # Len(started) =>
          /\ Len(received) = Len(started) + 1
          /\ handlerPc[received[Len(received)]] = "spawned"
    /\ \A m \in Remote : handlerPc[m] = "spawned" =>
          Len(received) # Len(started) /\ m = received[Len(received)]

\* A two-way call has no reply before its handler sends one, and no call has
\* one before it is dispatched.
NotYetAnswered ==
    /\ \A m \in LocalCalls : callPc[m] \in {"idle", "dispatch"} => replies[m] = <<>>
    /\ \A m \in LocalTwoWay :
          /\ callPc[m] = "lock" => replies[m] = <<>>
          /\ handlerPc[m] \in {"spawned", "run", "call", "reply", "send"} => replies[m] = <<>>

\* None of the properties is inductive alone: turns need that an answer wakes
\* only a handler that waits for it, the order needs the turns and that
\* requests are delivered once.
Inv ==
    /\ TypeOK /\ SendingHas /\ OneTurnAtATime /\ CallsWaited /\ DeliveredOnce
    /\ HandlersInOrder /\ LastNotBegun /\ NotYetAnswered

-----------------------------------------------------------------------------
(* Types *)

\* Remote and local requests are requests, and each has one of the two locks.
LEMMA Kinds ==
    /\ Remote \subseteq Requests /\ LocalCalls \subseteq Requests
    /\ LocalTwoWay \subseteq LocalCalls /\ LocalOneWay \subseteq LocalCalls
    /\ Requests = Remote \cup LocalCalls /\ Remote \cap LocalCalls = {}
    /\ \A m \in Requests : LockOf(m) \in {"stream", "local"}
    /\ \A m \in Remote : LockOf(m) = "stream"
    /\ \A m \in LocalCalls : LockOf(m) = "local"
    /\ Nested \subseteq Remote
    /\ NoMsg \notin Requests
BY KindAssumption DEF Requests, LocalCalls, LockOf

\* Release keeps the types of the locks.
LEMMA ReleaseType ==
    ASSUME TypeOK, NEW m \in Requests, Release(m)
    PROVE  released' \subseteq Requests /\ locked' \in [{"stream", "local"} -> BOOLEAN]
<1>1. LockOf(m) \in {"stream", "local"}
  BY Kinds
<1>2. [locked EXCEPT ![LockOf(m)] = FALSE] \in [{"stream", "local"} -> BOOLEAN]
  BY <1>1 DEF TypeOK
<1> QED BY <1>2 DEF TypeOK, Release

\* The types hold initially.
LEMMA InitType == Init => TypeOK
<1> SUFFICES ASSUME Init PROVE TypeOK
  OBVIOUS
<1>1. locked \in [{"stream", "local"} -> BOOLEAN]
  BY DEF Init
<1>2. /\ handlerPc \in [Requests -> {"none", "spawned", "run", "call", "reply", "send", "end",
                                    "done"}]
      /\ callPc \in [LocalCalls -> {"idle", "dispatch", "lock", "returned"}]
  BY DEF Init
<1>3. replies \in [LocalCalls -> Seq({"value", "sent", "ctx"})]
  BY SMT DEF Init
<1>4. /\ inbox \in Seq([kind : {"request", "answer"}, req : Remote])
      /\ received \in Seq(Remote) /\ started \in Seq(Remote)
      /\ finished \in Seq(Remote) /\ Len(finished) <= FinishedCap + 1
  BY KindAssumption, SMT DEF Init
<1> QED BY <1>1, <1>2, <1>3, <1>4 DEF Init, TypeOK

\* One step keeps the types.
LEMMA TypeStep ==
    ASSUME TypeOK, SendingHas, [Next]_vars PROVE TypeOK'
<1> USE Kinds
<1>1. CASE Recv
  <2>0. inbox \in Seq(Messages) /\ inbox # <<>>
    BY <1>1 DEF Recv, TypeOK, Messages
  <2>1. Head(inbox) \in Messages /\ Tail(inbox) \in Seq(Messages)
    BY <2>0, SMT
  <2>2. Head(inbox).req \in Remote
    BY <2>1 DEF Messages
  <2>3. CASE Head(inbox).kind = "request"
    <3>1. Append(received, Head(inbox).req) \in Seq(Remote)
      BY <2>2, SMT DEF TypeOK
    <3>2. handlerPc' = [handlerPc EXCEPT ![Head(inbox).req] = "spawned"]
      BY <1>1, <2>3 DEF Recv, Route
    <3>3. handlerPc' \in [Requests -> {"none", "spawned", "run", "call", "reply", "send", "end",
                                      "done"}]
      BY <2>2, <3>2 DEF TypeOK
    <3>4. /\ received' \in Seq(Remote) /\ inbox' \in Seq(Messages) /\ loopPc' = "lock"
          /\ UNCHANGED <<arrived, locked, released, started, calls, sendVars, linkVars, localVars>>
      BY <1>1, <2>1, <2>3, <3>1 DEF Recv, Route, KeepTurn
    <3> QED BY <3>3, <3>4 DEF TypeOK, Messages, sendVars, localVars
  <2>4. CASE Head(inbox).kind # "request"
    <3>0. locked' = [locked EXCEPT !["stream"] = FALSE]
      BY <1>1, <2>4 DEF Recv, Route, ReleaseAnswer
    <3>1. locked' \in [{"stream", "local"} -> BOOLEAN]
      BY <3>0 DEF TypeOK
    <3>2. handlerPc' \in [Requests -> {"none", "spawned", "run", "call", "reply", "send", "end",
                                      "done"}]
      BY <1>1, <2>2, <2>4 DEF Recv, Route, TypeOK
    <3> QED BY <1>1, <2>1, <2>4, <3>1, <3>2, SMT
            DEF Recv, Route, TypeOK, Messages, sendVars, localVars
  <2> QED BY <2>3, <2>4
<1>2. CASE LoopLock
  BY <1>2 DEF LoopLock, TypeOK, handlerVars, sendVars, localVars
<1>3. CASE RecvFails
  BY <1>3 DEF RecvFails, TypeOK, handlerVars, sendVars, localVars
<1>4. CASE Sending
  <2>1. finished # <<>> => /\ Head(finished) \in Remote /\ Tail(finished) \in Seq(Remote)
                           /\ Len(Tail(finished)) <= FinishedCap + 1
    BY KindAssumption, SMT DEF TypeOK
  <2>2. sndPc = "enqueue" => sent \cup {sndMsg} \subseteq Remote
    BY DEF TypeOK, SendingHas
  <2> QED
    BY <1>4, <2>1, <2>2
       DEF Sending, SendingStops, TypeOK, SendingHas, streamVars, handlerVars, localVars
<1>5. CASE Break \/ Detach
  BY <1>5 DEF Break, Detach, TypeOK, streamVars, handlerVars, sendVars, localVars
<1>6. ASSUME NEW m \in Requests, Arrive(m) PROVE TypeOK'
  <2>1. CASE m \in Remote
    <3>1. \A k \in {"request", "answer"} : Append(inbox, Message(k, m)) \in Seq(Messages)
      BY <2>1, SMT DEF TypeOK, Message, Messages
    <3> QED BY <1>6, <2>1, <3>1 DEF Arrive, TypeOK, Messages, handlerVars, sendVars, localVars
  <2>2. CASE m \notin Remote
    BY <1>6, <2>2 DEF Arrive, TypeOK
  <2> QED BY <2>1, <2>2
<1>7. ASSUME NEW m \in Requests, HandlerStart(m) PROVE TypeOK'
  BY <1>7, SMT DEF HandlerStart, TypeOK, streamVars, sendVars, localVars
<1>8. ASSUME NEW m \in Requests, HandlerRelease(m) PROVE TypeOK'
  BY <1>8, ReleaseType DEF HandlerRelease, TypeOK, streamVars, handlerVars, sendVars, localVars
<1>9. ASSUME NEW m \in Requests, HandlerCall(m) PROVE TypeOK'
  BY <1>9 DEF HandlerCall, TypeOK, streamVars, sendVars, localVars
<1>10. ASSUME NEW m \in Requests, HandlerCallFails(m) PROVE TypeOK'
  BY <1>10 DEF HandlerCallFails, TypeOK, streamVars, sendVars, localVars
<1>11. ASSUME NEW m \in Requests, HandlerReturn(m) PROVE TypeOK'
  BY <1>11 DEF HandlerReturn, TypeOK, streamVars, sendVars, localVars
<1>12. ASSUME NEW m \in Requests, HandlerSend(m) PROVE TypeOK'
  <2>1. CASE m \in Remote /\ SendRemote(m) /\ UNCHANGED replies
    <3>1. finished \in Seq(Remote) /\ Len(finished) \in Nat /\ FinishedCap \in Nat
      BY KindAssumption, SMT DEF TypeOK
    <3>2. Append(finished, m) \in Seq(Remote) /\ Len(Append(finished, m)) = Len(finished) + 1
      BY <2>1, <3>1, SMT
    <3>3. FinishedHasRoom => Len(finished) + 1 <= FinishedCap + 1
      BY <3>1, SMT DEF FinishedHasRoom
    <3>4. finished' \in Seq(Remote) /\ Len(finished') <= FinishedCap + 1
      BY <2>1, <3>2, <3>3 DEF SendRemote, TypeOK, sendVars
    <3> QED BY <1>12, <2>1, <3>4 DEF HandlerSend, SendRemote, TypeOK, streamVars, sendVars
  <2>2. CASE m \in LocalCalls /\ SendLocal(m) /\ UNCHANGED sendVars
    <3>1. Append(replies[m], "value") \in Seq({"value", "sent", "ctx"})
      BY <2>2, SMT DEF TypeOK
    <3>2. replies' \in [LocalCalls -> Seq({"value", "sent", "ctx"})]
      BY <2>2, <3>1 DEF SendLocal, TypeOK
    <3> QED BY <1>12, <2>2, <3>2 DEF HandlerSend, TypeOK, streamVars, sendVars
  <2> QED BY <1>12, <2>1, <2>2 DEF HandlerSend
<1>13. ASSUME NEW m \in Requests, HandlerEnd(m) PROVE TypeOK'
  BY <1>13, ReleaseType DEF HandlerEnd, TypeOK, streamVars, sendVars, localVars
<1>14. ASSUME NEW m \in LocalCalls, LocalCall(m) PROVE TypeOK'
  BY <1>14 DEF LocalCall, TypeOK, streamVars, handlerVars, sendVars
<1>15. ASSUME NEW m \in LocalCalls, Cancel(m) PROVE TypeOK'
  BY <1>15 DEF Cancel, TypeOK, streamVars, handlerVars, sendVars
<1>16. ASSUME NEW m \in LocalCalls, DispatchLocalRequest(m) PROVE TypeOK'
  <2>1. \A v \in {"ctx", "sent"} : Append(replies[m], v) \in Seq({"value", "sent", "ctx"})
    BY SMT DEF TypeOK
  <2>2. \A v \in {"ctx", "sent"} :
            [replies EXCEPT ![m] = Append(@, v)] \in [LocalCalls -> Seq({"value", "sent", "ctx"})]
    BY <2>1 DEF TypeOK
  <2>3. \A p \in {"lock", "returned"} :
           [callPc EXCEPT ![m] = p] \in [LocalCalls -> {"idle", "dispatch", "lock", "returned"}]
    BY DEF TypeOK
  <2>4. callPc' \in [LocalCalls -> {"idle", "dispatch", "lock", "returned"}]
    BY <1>16, <2>3 DEF DispatchLocalRequest
  <2>5. replies' \in [LocalCalls -> Seq({"value", "sent", "ctx"})]
    BY <1>16, <2>2, ZenonT(40) DEF DispatchLocalRequest, TypeOK
  <2>6. UNCHANGED <<streamVars, locked, released, handlerVars, sendVars, linkVars, cancelled>>
    BY <1>16 DEF DispatchLocalRequest
  <2> QED BY <2>4, <2>5, <2>6 DEF TypeOK, streamVars, handlerVars, sendVars
<1>17. ASSUME NEW m \in LocalCalls, LocalLock(m) PROVE TypeOK'
  BY <1>17 DEF LocalLock, TypeOK, streamVars, sendVars
<1>18. CASE UNCHANGED vars
  BY <1>18 DEF vars, TypeOK, streamVars, handlerVars, sendVars, localVars
<1> QED BY <1>1, <1>2, <1>3, <1>4, <1>5, <1>6, <1>7, <1>8, <1>9, <1>10, <1>11, <1>12,
           <1>13, <1>14, <1>15, <1>16, <1>17, <1>18 DEF Next, Loop, Handler

\* Only the sending goroutine takes a response to enqueue.
LEMMA SendingStep ==
    ASSUME TypeOK, SendingHas, [Next]_vars PROVE SendingHas'
<1>1. CASE Sending
  <2>1. finished # <<>> => Head(finished) \in Remote
    BY SMT DEF TypeOK
  <2> QED BY <1>1, <2>1 DEF Sending, SendingStops, SendingHas
<1>2. CASE UNCHANGED <<sndMsg, sndPc>>
  BY <1>2 DEF SendingHas
<1> QED
  BY <1>1, <1>2
     DEF Next, Loop, Handler, Recv, LoopLock, RecvFails, Break, Detach, Arrive, HandlerStart,
         HandlerRelease, HandlerCall, HandlerCallFails, HandlerReturn, HandlerSend,
         SendRemote, HandlerEnd, LocalCall, Cancel, DispatchLocalRequest, LocalLock,
         sendVars, vars

-----------------------------------------------------------------------------
(* Turns *)

\* A step that starts no handler and leaves the locks alone.
LEMMA TurnFrame ==
    ASSUME OneTurnAtATime, UNCHANGED <<locked, released, loopPc>>,
           \A m \in Requests : handlerPc'[m] # "none" => handlerPc[m] # "none"
    PROVE  OneTurnAtATime'
<1>1. \A m \in Requests : HasTurn(m)' => HasTurn(m)
  BY DEF HasTurn
<1> QED BY <1>1, Kinds DEF OneTurnAtATime

\* A handler gives its turn back.
LEMMA TurnReleased ==
    ASSUME TypeOK, OneTurnAtATime, NEW m \in Requests, Release(m), UNCHANGED loopPc,
           handlerPc[m] # "none",
           \A n \in Requests : handlerPc'[n] # "none" => handlerPc[n] # "none"
    PROVE  OneTurnAtATime'
<1>1. CASE m \in released
  BY <1>1, TurnFrame DEF Release
<1>2. CASE m \notin released
  <2>1. HasTurn(m)
    BY <1>2 DEF HasTurn
  <2>2. \A n \in Requests : HasTurn(n)' => HasTurn(n) /\ n # m
    BY <1>2 DEF Release, HasTurn
  <2>3. \A n \in Requests : HasTurn(n)' => LockOf(n) # LockOf(m)
    BY <2>1, <2>2 DEF OneTurnAtATime
  <2>4. \A d \in {"stream", "local"} : d # LockOf(m) => locked'[d] = locked[d]
    BY <1>2 DEF Release, TypeOK
  <2>5. loopPc = "recv" => LockOf(m) # "stream"
    BY <2>1, Kinds DEF OneTurnAtATime
  <2>6. \A n \in Requests : HasTurn(n)' => locked'[LockOf(n)]
    BY <2>2, <2>3, <2>4, Kinds DEF OneTurnAtATime
  <2>7. loopPc' = "recv" => locked'["stream"] /\ \A n \in Remote : ~HasTurn(n)'
    BY <2>2, <2>4, <2>5, Kinds DEF OneTurnAtATime
  <2>8. \A n, k \in Requests : HasTurn(n)' /\ HasTurn(k)' /\ LockOf(n) = LockOf(k) => n = k
    BY <2>2 DEF OneTurnAtATime
  <2> QED BY <2>6, <2>7, <2>8, Kinds DEF OneTurnAtATime, LockOf
<1> QED BY <1>1, <1>2

\* A request whose lock is held by no handler gets its turn.
LEMMA TurnTaken ==
    ASSUME TypeOK, OneTurnAtATime, NEW m \in Requests,
           \A n \in Requests : LockOf(n) = LockOf(m) => ~HasTurn(n),
           \A n \in Requests : n # m => (handlerPc'[n] # "none" => handlerPc[n] # "none"),
           released' = released,
           locked'[LockOf(m)],
           \A d \in {"stream", "local"} : locked[d] => locked'[d],
           m \in Remote => loopPc' # "recv",
           m \notin Remote => loopPc' = loopPc
    PROVE  OneTurnAtATime'
<1>1. \A n \in Requests : HasTurn(n)' => n = m \/ (HasTurn(n) /\ LockOf(n) # LockOf(m))
  BY DEF HasTurn
<1>2. \A n, k \in Requests : HasTurn(n)' /\ HasTurn(k)' /\ LockOf(n) = LockOf(k) => n = k
  BY <1>1 DEF OneTurnAtATime
<1>3. \A n \in Requests : HasTurn(n)' => locked'[LockOf(n)]
  BY <1>1, Kinds, SMT DEF OneTurnAtATime
<1>4. loopPc' = "recv" => locked'["stream"] /\ \A n \in Remote : ~HasTurn(n)'
  BY <1>1, Kinds DEF OneTurnAtATime
<1> QED BY <1>2, <1>3, <1>4 DEF OneTurnAtATime, LockOf

\* One step keeps the turns.
LEMMA TurnStep ==
    ASSUME TypeOK, OneTurnAtATime, CallsWaited, [Next]_vars PROVE OneTurnAtATime'
<1>1. CASE Recv
  <2>1. /\ inbox \in Seq(Messages) /\ inbox # <<>>
        /\ loopPc = "recv" /\ loopPc' = "lock"
        /\ Route(Head(inbox))
    BY <1>1 DEF Recv, TypeOK, Messages
  <2>2. Head(inbox) \in Messages
    BY <2>1, SMT
  <2>3. Head(inbox).req \in Remote
    BY <2>2 DEF Messages
  <2>4. locked["stream"] /\ \A n \in Remote : ~HasTurn(n)
    BY <2>1 DEF OneTurnAtATime
  <2>5. \A n \in Requests : LockOf(n) = "stream" => n \in Remote
    BY Kinds
  <2>6. CASE Head(inbox).kind = "request"
    <3> DEFINE m == Head(inbox).req
    <3>1. /\ handlerPc' = [handlerPc EXCEPT ![m] = "spawned"]
          /\ UNCHANGED <<released, locked>>
      BY <2>1, <2>6 DEF Route, KeepTurn
    <3>2. \A n \in Requests : n # m => (handlerPc'[n] # "none" => handlerPc[n] # "none")
      BY <3>1 DEF TypeOK
    <3>3. m \in Requests /\ m \in Remote /\ LockOf(m) = "stream"
      BY <2>3, Kinds
    <3>4. \A n \in Requests : LockOf(n) = LockOf(m) => ~HasTurn(n)
      BY <2>4, <2>5, <3>3
    <3> HIDE DEF m
    <3> QED BY <2>1, <2>4, <3>1, <3>2, <3>3, <3>4, TurnTaken
  <2>7. CASE Head(inbox).kind # "request"
    <3> DEFINE m == Head(inbox).req
    <3>1. /\ handlerPc' = IF m \in calls THEN [handlerPc EXCEPT ![m] = "reply"] ELSE handlerPc
          /\ locked' = [locked EXCEPT !["stream"] = FALSE]
          /\ UNCHANGED released
      BY <2>1, <2>7 DEF Route, ReleaseAnswer
    <3>2. \A n \in Requests : HasTurn(n)' => HasTurn(n)
      BY <3>1 DEF HasTurn, CallsWaited, TypeOK
    <3>3. \A n \in Requests : HasTurn(n) => locked'[LockOf(n)]
      BY <2>4, <2>5, <3>1, Kinds DEF OneTurnAtATime, TypeOK
    <3> QED BY <2>1, <3>2, <3>3, Kinds DEF OneTurnAtATime, LockOf
  <2> QED BY <2>6, <2>7
<1>2. CASE LoopLock
  <2>1. /\ locked' = [locked EXCEPT !["stream"] = TRUE] /\ ~locked["stream"]
        /\ UNCHANGED <<released, handlerPc>>
    BY <1>2 DEF LoopLock, handlerVars
  <2>2. \A n \in Requests : HasTurn(n)' <=> HasTurn(n)
    BY <2>1 DEF HasTurn
  <2>3. \A n \in Remote : ~HasTurn(n)
    BY <2>1, Kinds DEF OneTurnAtATime
  <2>4. locked'["stream"] /\ locked'["local"] = locked["local"]
    BY <2>1 DEF TypeOK
  <2> QED BY <2>2, <2>3, <2>4, Kinds DEF OneTurnAtATime, LockOf
<1>3. CASE RecvFails
  <2>1. /\ locked' = [locked EXCEPT !["stream"] = FALSE] /\ loopPc = "recv" /\ loopPc' = "returned"
        /\ UNCHANGED <<released, handlerPc>>
    BY <1>3 DEF RecvFails, handlerVars
  <2>2. \A n \in Requests : HasTurn(n)' <=> HasTurn(n)
    BY <2>1 DEF HasTurn
  <2>3. \A n \in Remote : ~HasTurn(n)
    BY <2>1 DEF OneTurnAtATime
  <2>4. locked'["local"] = locked["local"]
    BY <2>1 DEF TypeOK
  <2> QED BY <2>1, <2>2, <2>3, <2>4, Kinds DEF OneTurnAtATime, LockOf
<1>4. CASE UNCHANGED <<locked, released, loopPc, handlerPc>>
  BY <1>4, TurnFrame
<1>5. ASSUME NEW m \in Requests,
             \/ HandlerStart(m) \/ HandlerCall(m) \/ HandlerCallFails(m) \/ HandlerReturn(m)
             \/ HandlerSend(m)
      PROVE  OneTurnAtATime'
  <2>1. /\ UNCHANGED <<locked, released, loopPc>>
        /\ handlerPc[m] # "none"
        /\ \E p \in {"run", "call", "reply", "send", "end"} : handlerPc' = [handlerPc EXCEPT ![m] = p]
    BY <1>5 DEF HandlerStart, HandlerCall, HandlerCallFails, HandlerReturn, HandlerSend, streamVars
  <2>2. \A n \in Requests : handlerPc'[n] # "none" => handlerPc[n] # "none"
    BY <2>1 DEF TypeOK
  <2> QED BY <2>1, <2>2, TurnFrame
<1>6. ASSUME NEW m \in Requests, HandlerRelease(m) \/ HandlerEnd(m) PROVE OneTurnAtATime'
  <2>1. Release(m) /\ UNCHANGED loopPc /\ handlerPc[m] # "none"
    BY <1>6 DEF HandlerRelease, HandlerEnd, streamVars
  <2>2. \A n \in Requests : handlerPc'[n] # "none" => handlerPc[n] # "none"
    BY <1>6 DEF HandlerRelease, HandlerEnd, handlerVars, TypeOK
  <2> QED BY <2>1, <2>2, TurnReleased
<1>7. ASSUME NEW m \in LocalCalls, LocalLock(m) PROVE OneTurnAtATime'
  <2>1. /\ ~locked["local"] /\ locked' = [locked EXCEPT !["local"] = TRUE]
        /\ handlerPc' = [handlerPc EXCEPT ![m] = "spawned"]
        /\ released' = released /\ loopPc' = loopPc
    BY <1>7 DEF LocalLock, streamVars
  <2>2. m \in Requests /\ m \notin Remote /\ LockOf(m) = "local"
    BY Kinds
  <2>3. \A n \in Requests : LockOf(n) = LockOf(m) => ~HasTurn(n)
    BY <2>1, <2>2 DEF OneTurnAtATime
  <2>4. \A n \in Requests : n # m => (handlerPc'[n] # "none" => handlerPc[n] # "none")
    BY <2>1 DEF TypeOK
  <2>5. locked'["local"] /\ \A d \in {"stream", "local"} : locked[d] => locked'[d]
    BY <2>1 DEF TypeOK
  <2> QED BY <2>1, <2>2, <2>3, <2>4, <2>5, TurnTaken
<1>8. ASSUME NEW m \in LocalCalls, LocalCall(m) \/ Cancel(m) \/ DispatchLocalRequest(m)
      PROVE  OneTurnAtATime'
  BY <1>4, <1>8 DEF LocalCall, Cancel, DispatchLocalRequest, streamVars, handlerVars
<1>9. CASE Sending \/ Break \/ Detach \/ UNCHANGED vars \/ \E m \in Requests : Arrive(m)
  BY <1>4, <1>9 DEF Sending, Break, Detach, Arrive, vars, streamVars, handlerVars
<1> QED BY <1>1, <1>2, <1>3, <1>5, <1>6, <1>7, <1>8, <1>9 DEF Next, Loop, Handler

\* A step that moves no handler that waits, or one that the step ends the call of.
LEMMA WaitedFrame ==
    ASSUME TypeOK, CallsWaited, calls' \subseteq calls,
           \A m \in calls' : m \in Requests => handlerPc'[m] = handlerPc[m]
    PROVE  CallsWaited'
<1>1. calls \subseteq Requests
  BY Kinds DEF TypeOK
<1> QED BY <1>1 DEF CallsWaited

\* One step keeps the calls waited for.
LEMMA CallsStep ==
    ASSUME TypeOK, CallsWaited, DeliveredOnce, [Next]_vars PROVE CallsWaited'
<1>0. /\ handlerPc \in [Requests -> {"none", "spawned", "run", "call", "reply", "send", "end",
                                     "done"}]
      /\ calls \subseteq Remote /\ calls \subseteq Requests
  BY Kinds DEF TypeOK
<1>1. CASE Recv
  <2>1. /\ inbox \in Seq(Messages) /\ inbox # <<>> /\ Route(Head(inbox))
    BY <1>1 DEF Recv, TypeOK, Messages
  <2>2. Head(inbox) \in Messages /\ 1 \in DOMAIN inbox /\ Head(inbox) = inbox[1]
    BY <2>1, SMT
  <2>3. PICK m \in Remote : m = Head(inbox).req
    BY <2>2 DEF Messages
  <2>4. CASE Head(inbox).kind = "request"
    <3>1. handlerPc' = [handlerPc EXCEPT ![m] = "spawned"] /\ calls' = calls
      BY <2>1, <2>3, <2>4 DEF Route
    <3>2. inbox[1] = Message("request", m)
      BY <2>2, <2>3, <2>4 DEF Message, Messages
    <3>3. handlerPc[m] = "none"
      BY <2>2, <3>2 DEF DeliveredOnce, IsRequest
    <3>4. m \notin calls
      BY <3>3 DEF CallsWaited
    <3> QED BY <1>0, <3>1, <3>4, WaitedFrame
  <2>5. CASE Head(inbox).kind # "request"
    <3>1. /\ handlerPc' = IF m \in calls THEN [handlerPc EXCEPT ![m] = "reply"] ELSE handlerPc
          /\ calls' = calls \ {m}
      BY <2>1, <2>3, <2>5 DEF Route
    <3> QED BY <1>0, <3>1, WaitedFrame
  <2> QED BY <2>4, <2>5
<1>2. ASSUME NEW m \in Requests, HandlerCall(m) PROVE CallsWaited'
  BY <1>0, <1>2 DEF HandlerCall, CallsWaited
<1>3. ASSUME NEW m \in Requests, HandlerCallFails(m) PROVE CallsWaited'
  BY <1>0, <1>3, WaitedFrame DEF HandlerCallFails
<1>4. ASSUME NEW m \in Requests,
             HandlerStart(m) \/ HandlerReturn(m) \/ HandlerSend(m) \/ HandlerEnd(m)
      PROVE  CallsWaited'
  <2>1. calls' = calls /\ handlerPc[m] # "call" /\ \E p : handlerPc' = [handlerPc EXCEPT ![m] = p]
    BY <1>4 DEF HandlerStart, HandlerReturn, HandlerSend, HandlerEnd
  <2>2. m \notin calls
    BY <2>1 DEF CallsWaited
  <2> QED BY <1>0, <2>1, <2>2, WaitedFrame
<1>5. ASSUME NEW m \in LocalCalls, LocalLock(m) PROVE CallsWaited'
  <2>1. calls' = calls /\ handlerPc' = [handlerPc EXCEPT ![m] = "spawned"] /\ m \notin calls
    BY <1>0, <1>5, Kinds DEF LocalLock
  <2> QED BY <1>0, <2>1, WaitedFrame
<1>6. CASE UNCHANGED handlerVars
  BY <1>6, WaitedFrame DEF handlerVars
<1>7. ASSUME NEW m \in Requests, HandlerRelease(m) \/ Arrive(m) PROVE CallsWaited'
  BY <1>6, <1>7 DEF HandlerRelease, Arrive
<1>8. ASSUME NEW m \in LocalCalls, LocalCall(m) \/ Cancel(m) \/ DispatchLocalRequest(m)
      PROVE  CallsWaited'
  BY <1>6, <1>8 DEF LocalCall, Cancel, DispatchLocalRequest
<1>9. CASE LoopLock \/ RecvFails \/ Sending \/ Break \/ Detach \/ UNCHANGED vars
  BY <1>6, <1>9 DEF LoopLock, RecvFails, Sending, Break, Detach, vars
<1> QED BY <1>1, <1>2, <1>3, <1>4, <1>5, <1>7, <1>8, <1>9 DEF Next, Loop, Handler

-----------------------------------------------------------------------------
(* Delivery *)

\* A step that leaves the stream alone, starts no handler and moves only
\* handlers that have begun, or starts the one of the request that begins.
LEMMA DeliveredFrame ==
    ASSUME DeliveredOnce, UNCHANGED <<inbox, arrived, released>>,
           \A m \in LocalCalls : callPc'[m] # "returned" => callPc[m] # "returned",
           \A m \in Requests :
              \/ handlerPc'[m] = handlerPc[m]
              \/ handlerPc[m] # "none" /\ handlerPc'[m] \notin {"none", "spawned"},
           released \subseteq Requests
    PROVE  DeliveredOnce'
<1>1. \A i, m : IsRequest(i, m)' <=> IsRequest(i, m)
  BY DEF IsRequest
<1>2. \A m \in Requests : handlerPc[m] = "none" => handlerPc'[m] = "none"
  OBVIOUS
<1>3. \A m \in Requests : handlerPc'[m] # "none" => handlerPc[m] # "none"
  OBVIOUS
<1>4. /\ \A m \in Remote : \A i \in DOMAIN inbox' :
            IsRequest(i, m)' => m \in arrived' /\ handlerPc'[m] = "none"
      /\ \A m \in Remote : \A i, j \in DOMAIN inbox' :
            IsRequest(i, m)' /\ IsRequest(j, m)' => i = j
  BY <1>1, <1>2, Kinds DEF DeliveredOnce
<1>5. \A m \in Remote : handlerPc'[m] # "none" => m \in arrived'
  BY <1>3, Kinds DEF DeliveredOnce
<1>6. \A m \in LocalCalls : callPc'[m] # "returned" => handlerPc'[m] = "none"
  BY <1>2, Kinds DEF DeliveredOnce
<1>7. \A m \in released' : handlerPc'[m] \notin {"none", "spawned"}
  BY DEF DeliveredOnce
<1> QED BY <1>4, <1>5, <1>6, <1>7 DEF DeliveredOnce

\* One step delivers no request twice.
LEMMA DeliveredStep ==
    ASSUME TypeOK, CallsWaited, DeliveredOnce, [Next]_vars PROVE DeliveredOnce'
<1>0. released \subseteq Requests /\ handlerPc \in [Requests -> {"none", "spawned", "run", "call",
                                                             "reply", "send", "end", "done"}]
  BY DEF TypeOK
<1>1. CASE Recv
  <2>1. /\ inbox \in Seq(Messages) /\ inbox # <<>> /\ inbox' = Tail(inbox)
        /\ Route(Head(inbox)) /\ UNCHANGED <<arrived, callPc>>
    BY <1>1 DEF Recv, TypeOK, Messages, localVars
  <2>2. Head(inbox) \in Messages /\ 1 \in DOMAIN inbox /\ Head(inbox) = inbox[1]
    BY <2>1, SMT
  <2>3. \A i \in DOMAIN inbox' : i + 1 \in DOMAIN inbox /\ inbox'[i] = inbox[i + 1] /\ i + 1 # 1
                                 /\ i \in Nat
    BY <2>1, SMT
  <2>4. \A m : \A i \in DOMAIN inbox' : IsRequest(i, m)' => IsRequest(i + 1, m)
    BY <2>3 DEF IsRequest
  <2>5. \A m \in Remote : \A i, j \in DOMAIN inbox' :
           IsRequest(i, m)' /\ IsRequest(j, m)' => i = j
    <3> SUFFICES ASSUME NEW m \in Remote, NEW i \in DOMAIN inbox', NEW j \in DOMAIN inbox',
                        IsRequest(i, m)', IsRequest(j, m)'
                 PROVE  i = j
      OBVIOUS
    <3>1. i + 1 = j + 1
      BY <2>3, <2>4 DEF DeliveredOnce
    <3> QED BY <2>3, <3>1, SMT
  <2>6. CASE Head(inbox).kind = "request"
    <3>0. PICK m \in Remote : m = Head(inbox).req
      BY <2>2 DEF Messages
    <3>1. /\ handlerPc' = [handlerPc EXCEPT ![m] = "spawned"] /\ released' = released
      BY <2>1, <2>6, <3>0 DEF Route, KeepTurn
    <3>2. IsRequest(1, m)
      BY <2>2, <2>6, <3>0 DEF Messages, IsRequest, Message
    <3>3. m \in arrived /\ handlerPc[m] = "none" /\ m \notin released
      BY <2>2, <3>2 DEF DeliveredOnce
    <3>4. ASSUME NEW i \in DOMAIN inbox' PROVE ~IsRequest(i, m)'
      <4>1. IsRequest(i, m)' => IsRequest(i + 1, m)
        BY <2>4
      <4>2. i + 1 \in DOMAIN inbox /\ i + 1 # 1
        BY <2>3
      <4> QED BY <2>2, <3>2, <4>1, <4>2 DEF DeliveredOnce
    <3>5. \A n \in Requests : n # m => handlerPc'[n] = handlerPc[n]
      BY <1>0, <3>1
    <3>6. \A n \in Remote : \A i \in DOMAIN inbox' :
             IsRequest(i, n)' => n \in arrived' /\ handlerPc'[n] = "none"
      <4> SUFFICES ASSUME NEW n \in Remote, NEW i \in DOMAIN inbox', IsRequest(i, n)'
                   PROVE  n \in arrived' /\ handlerPc'[n] = "none"
        OBVIOUS
      <4>1. n # m
        BY <3>4
      <4>2. IsRequest(i + 1, n) /\ i + 1 \in DOMAIN inbox
        BY <2>3, <2>4
      <4>3. n \in arrived /\ handlerPc[n] = "none"
        BY <4>2 DEF DeliveredOnce
      <4> QED BY <2>1, <3>5, <4>1, <4>3, Kinds
    <3>7. \A n \in Remote : handlerPc'[n] # "none" => n \in arrived'
      BY <2>1, <3>3, <3>5, Kinds DEF DeliveredOnce
    <3>8. \A n \in LocalCalls : callPc'[n] # "returned" => handlerPc'[n] = "none"
      BY <2>1, <3>2, <3>5, Kinds DEF DeliveredOnce
    <3>9. \A n \in released' : handlerPc'[n] \notin {"none", "spawned"}
      BY <1>0, <3>1, <3>3, <3>5 DEF DeliveredOnce
    <3> QED BY <2>5, <3>6, <3>7, <3>8, <3>9 DEF DeliveredOnce
  <2>7. CASE Head(inbox).kind # "request"
    <3>m. PICK m \in Remote : m = Head(inbox).req
      BY <2>2 DEF Messages
    <3>0. /\ released' = released
          /\ handlerPc' = IF m \in calls THEN [handlerPc EXCEPT ![m] = "reply"] ELSE handlerPc
      BY <2>1, <2>7, <3>m DEF Route
    <3>1. /\ released' = released
          /\ \A n \in Requests :
                \/ handlerPc'[n] = handlerPc[n]
                \/ n \in calls /\ handlerPc'[n] = "reply"
      BY <1>0, <3>0
    <3>2. \A n \in calls : handlerPc[n] # "none"
      BY DEF CallsWaited
    <3>3. \A n \in Remote : \A i \in DOMAIN inbox' :
             IsRequest(i, n)' => n \in arrived' /\ handlerPc'[n] = "none"
      BY <2>1, <2>3, <2>4, <3>1, <3>2, Kinds DEF DeliveredOnce
    <3>4. \A n \in Remote : handlerPc'[n] # "none" => n \in arrived'
      BY <2>1, <3>1, <3>2, Kinds DEF DeliveredOnce
    <3>5. \A n \in LocalCalls : callPc'[n] # "returned" => handlerPc'[n] = "none"
      BY <2>1, <3>1, <3>2, Kinds DEF DeliveredOnce
    <3>6. \A n \in released' : handlerPc'[n] \notin {"none", "spawned"}
      BY <1>0, <3>1 DEF DeliveredOnce
    <3> QED BY <2>5, <3>3, <3>4, <3>5, <3>6 DEF DeliveredOnce
  <2> QED BY <2>6, <2>7
<1>2. ASSUME NEW m \in Requests, Arrive(m) PROVE DeliveredOnce'
  <2>1. /\ UNCHANGED <<released, handlerPc, callPc>> /\ arrived \subseteq arrived'
        /\ inbox \in Seq(Messages)
    BY <1>2 DEF Arrive, handlerVars, localVars, TypeOK, Messages
  <2>2. PICK x \in Messages :
                 /\ inbox' = Append(inbox, x)
                 /\ x = Message("answer", m) \/ (x = Message("request", m) /\ m \in Remote \ arrived
                                                /\ m \in arrived')
    BY <1>2, Kinds DEF Arrive, Message, Messages, TypeOK
  <2>3. \A i \in DOMAIN inbox' :
           \/ i \in DOMAIN inbox /\ inbox'[i] = inbox[i]
           \/ i = Len(inbox) + 1 /\ inbox'[i] = x
    BY <2>1, <2>2, SMT
  <2>4. \A n, i : IsRequest(i, n)' =>
           IsRequest(i, n) \/ (i = Len(inbox) + 1 /\ n = m /\ m \in Remote \ arrived
                                /\ m \in arrived')
    BY SMTT(30), <2>2, <2>3 DEF IsRequest, Message
  <2>5. \A i : IsRequest(i, m) /\ m \in Remote => m \in arrived
    BY DEF DeliveredOnce, IsRequest
  <2>6. /\ \A n \in Remote : \A i \in DOMAIN inbox' :
              IsRequest(i, n)' => n \in arrived' /\ handlerPc'[n] = "none"
        /\ \A n \in Remote : \A i, j \in DOMAIN inbox' :
              IsRequest(i, n)' /\ IsRequest(j, n)' => i = j
    BY SMTT(30), <2>1, <2>4, <2>5 DEF DeliveredOnce, IsRequest
  <2> QED BY <2>1, <2>6 DEF DeliveredOnce
<1>3. CASE UNCHANGED <<inbox, arrived, released, handlerPc, callPc>>
  BY <1>0, <1>3, DeliveredFrame
<1>4. CASE LoopLock \/ RecvFails \/ Sending \/ Break \/ Detach \/ UNCHANGED vars
  BY <1>3, <1>4 DEF LoopLock, RecvFails, Sending, Break, Detach, vars, streamVars, handlerVars,
         localVars
<1>5. ASSUME NEW m \in Requests,
             \/ HandlerStart(m) \/ HandlerCall(m) \/ HandlerCallFails(m) \/ HandlerReturn(m)
             \/ HandlerSend(m)
      PROVE  DeliveredOnce'
  <2>1. /\ UNCHANGED <<inbox, arrived, released, callPc>>
        /\ handlerPc[m] # "none"
        /\ \E p \in {"run", "call", "reply", "send", "end"} : handlerPc' = [handlerPc EXCEPT ![m] = p]
    BY <1>5 DEF HandlerStart, HandlerCall, HandlerCallFails, HandlerReturn, HandlerSend, streamVars,
                localVars
  <2>2. \A n \in Requests :
           \/ handlerPc'[n] = handlerPc[n]
           \/ handlerPc[n] # "none" /\ handlerPc'[n] \notin {"none", "spawned"}
    BY <1>0, <2>1
  <2> QED BY <1>0, <2>1, <2>2, DeliveredFrame
<1>6. ASSUME NEW m \in Requests, HandlerRelease(m) \/ HandlerEnd(m) PROVE DeliveredOnce'
  <2>1. /\ UNCHANGED <<inbox, arrived, callPc>>
        /\ handlerPc[m] \in {"run", "end"}
        /\ handlerPc' = handlerPc \/ handlerPc' = [handlerPc EXCEPT ![m] = "done"]
        /\ released' \subseteq released \cup {m}
    BY <1>6 DEF HandlerRelease, HandlerEnd, Release, streamVars, handlerVars, localVars
  <2>2. \A n \in Requests : handlerPc'[n] = handlerPc[n] \/ (n = m /\ handlerPc'[n] = "done")
    BY <1>0, <2>1
  <2>3. \A i, n : IsRequest(i, n)' <=> IsRequest(i, n)
    BY <2>1 DEF IsRequest
  <2>4. \A n \in released' : handlerPc'[n] \notin {"none", "spawned"}
    BY <1>0, <2>1, <2>2 DEF DeliveredOnce
  <2>5. \A n \in Requests : handlerPc'[n] = "none" <=> handlerPc[n] = "none"
    BY <2>1, <2>2
  <2> QED BY <2>1, <2>3, <2>4, <2>5, Kinds DEF DeliveredOnce
<1>7. ASSUME NEW m \in LocalCalls, LocalLock(m) PROVE DeliveredOnce'
  <2>1. /\ UNCHANGED <<inbox, arrived, released>>
        /\ callPc[m] = "lock"
        /\ callPc' = [callPc EXCEPT ![m] = "returned"]
        /\ handlerPc' = [handlerPc EXCEPT ![m] = "spawned"]
    BY <1>7 DEF LocalLock, streamVars
  <2>2. handlerPc[m] = "none" /\ m \notin released
    BY <2>1 DEF DeliveredOnce
  <2>3. \A n \in Requests : n # m => handlerPc'[n] = handlerPc[n]
    BY <1>0, <2>1
  <2>4. callPc'[m] = "returned" /\ \A n \in LocalCalls : n # m => callPc'[n] = callPc[n]
    BY <2>1 DEF TypeOK
  <2>5. \A i, n : IsRequest(i, n)' <=> IsRequest(i, n)
    BY <2>1 DEF IsRequest
  <2>6. \A n \in released' : handlerPc'[n] \notin {"none", "spawned"}
    BY <1>0, <2>1, <2>2, <2>3 DEF DeliveredOnce
  <2>7. \A n \in LocalCalls : callPc'[n] # "returned" => handlerPc'[n] = "none"
    BY <2>3, <2>4, Kinds DEF DeliveredOnce
  <2> QED BY <2>1, <2>3, <2>5, <2>6, <2>7, Kinds DEF DeliveredOnce
<1>8. ASSUME NEW m \in LocalCalls, LocalCall(m) \/ Cancel(m) \/ DispatchLocalRequest(m)
      PROVE  DeliveredOnce'
  <2>1. UNCHANGED <<inbox, arrived, released, handlerPc>>
    BY <1>8 DEF LocalCall, Cancel, DispatchLocalRequest, streamVars, handlerVars
  <2>2. \A n \in LocalCalls : callPc'[n] # "returned" => callPc[n] # "returned"
    BY <1>8 DEF LocalCall, Cancel, DispatchLocalRequest, TypeOK
  <2> QED BY <1>0, <2>1, <2>2, DeliveredFrame
<1> QED BY <1>1, <1>2, <1>4, <1>5, <1>6, <1>7, <1>8 DEF Next, Loop, Handler

-----------------------------------------------------------------------------
(* The order in which handlers begin *)

\* A step that receives no request and begins no remote handler.
LEMMA OrderFrame ==
    ASSUME TypeOK, HandlersInOrder, LastNotBegun, UNCHANGED <<received, started>>,
           \A m \in Remote : handlerPc'[m] = "spawned" <=> handlerPc[m] = "spawned"
    PROVE  HandlersInOrder' /\ LastNotBegun'
<1>1. Len(received) # Len(started) => received[Len(received)] \in Remote
  BY SMT DEF TypeOK, HandlersInOrder
<1> QED BY <1>1 DEF HandlersInOrder, LastNotBegun

\* One step keeps the order.
LEMMA OrderStep ==
    ASSUME TypeOK, OneTurnAtATime, CallsWaited, DeliveredOnce, HandlersInOrder, LastNotBegun,
           [Next]_vars
    PROVE  HandlersInOrder' /\ LastNotBegun'
<1>0. /\ handlerPc \in [Requests -> {"none", "spawned", "run", "call", "reply", "send", "end",
                                     "done"}]
      /\ received \in Seq(Remote) /\ started \in Seq(Remote)
      /\ Len(received) \in Nat /\ Len(started) \in Nat
  BY SMT DEF TypeOK
<1>1. CASE Recv
  <2>1. /\ inbox \in Seq(Messages) /\ inbox # <<>> /\ loopPc = "recv"
        /\ Route(Head(inbox)) /\ started' = started
    BY <1>1 DEF Recv, TypeOK, Messages
  <2>2. Head(inbox) \in Messages
    BY <2>1, SMT
  <2>3. PICK m \in Remote : m = Head(inbox).req
    BY <2>2 DEF Messages
  <2>4. CASE Head(inbox).kind = "request"
    <3>1. /\ handlerPc' = [handlerPc EXCEPT ![m] = "spawned"]
          /\ received' = Append(received, m)
      BY <2>1, <2>3, <2>4 DEF Route
    <3>2. \A n \in Remote : handlerPc[n] # "spawned"
      BY <2>1, Kinds DEF OneTurnAtATime, HasTurn, DeliveredOnce
    <3>3. Len(received) = Len(started)
      BY <1>0, <3>2, SMT DEF LastNotBegun, HandlersInOrder
    <3>4. /\ Len(received') = Len(received) + 1 /\ received'[Len(received')] = m
          /\ \A i \in 1 .. Len(received) : received'[i] = received[i]
      BY <1>0, <3>1, SMT
    <3>5. handlerPc'[m] = "spawned" /\ \A n \in Remote : handlerPc'[n] = "spawned" => n = m
      BY <1>0, <3>1, <3>2, Kinds
    <3>6. HandlersInOrder'
      BY <1>0, <2>1, <3>3, <3>4, SMT DEF HandlersInOrder
    <3> QED BY <1>0, <2>1, <3>3, <3>4, <3>5, <3>6, SMT DEF LastNotBegun
  <2>5. CASE Head(inbox).kind # "request"
    <3>1. /\ handlerPc' = IF m \in calls THEN [handlerPc EXCEPT ![m] = "reply"] ELSE handlerPc
          /\ received' = received
      BY <2>1, <2>3, <2>5 DEF Route
    <3>2. m \in calls => handlerPc[m] # "spawned"
      BY DEF CallsWaited
    <3>3. \A n \in Remote : handlerPc'[n] = "spawned" <=> handlerPc[n] = "spawned"
      BY <1>0, <3>1, <3>2, Kinds
    <3> QED BY <2>1, <3>1, <3>3, OrderFrame
  <2> QED BY <2>4, <2>5
<1>2. ASSUME NEW m \in Requests, HandlerStart(m) PROVE HandlersInOrder' /\ LastNotBegun'
  <2>1. /\ handlerPc[m] = "spawned" /\ handlerPc' = [handlerPc EXCEPT ![m] = "run"]
        /\ received' = received
        /\ started' = IF m \in Remote THEN Append(started, m) ELSE started
    BY <1>2 DEF HandlerStart, streamVars
  <2>2. CASE m \in Remote
    <3>1. Len(received) = Len(started) + 1 /\ m = received[Len(received)]
      BY <2>1, <2>2 DEF LastNotBegun
    <3>2. /\ Len(started') = Len(started) + 1 /\ started'[Len(started')] = m
          /\ DOMAIN started' = 1 .. Len(started) + 1
          /\ \A i \in 1 .. Len(started) : started'[i] = started[i]
      BY <1>0, <2>1, <2>2, SMT
    <3>3. \A n \in Remote : handlerPc'[n] # "spawned"
      BY <1>0, <2>1, <3>1, Kinds DEF LastNotBegun
    <3>4. \A i \in DOMAIN started' : started'[i] = received'[i]
      BY <1>0, <2>1, <3>1, <3>2, SMT DEF HandlersInOrder
    <3> QED BY SMTT(30), <1>0, <2>1, <3>1, <3>2, <3>3, <3>4 DEF HandlersInOrder, LastNotBegun
  <2>3. CASE m \notin Remote
    <3>1. \A n \in Remote : handlerPc'[n] = handlerPc[n]
      BY <1>0, <2>1, <2>3, Kinds
    <3> QED BY <2>1, <2>3, <3>1, OrderFrame
  <2> QED BY <2>2, <2>3
<1>3. CASE UNCHANGED <<received, started, handlerPc>>
  BY <1>3, OrderFrame
<1>4. CASE LoopLock \/ RecvFails \/ Sending \/ Break \/ Detach \/ UNCHANGED vars
  BY <1>3, <1>4 DEF LoopLock, RecvFails, Sending, Break, Detach, vars, streamVars, handlerVars
<1>5. ASSUME NEW m \in Requests,
             \/ HandlerCall(m) \/ HandlerCallFails(m) \/ HandlerReturn(m) \/ HandlerSend(m)
             \/ HandlerEnd(m)
      PROVE  HandlersInOrder' /\ LastNotBegun'
  <2>1. /\ UNCHANGED <<received, started>>
        /\ handlerPc[m] # "spawned"
        /\ \E p \in {"call", "reply", "send", "end", "done"} :
              handlerPc' = [handlerPc EXCEPT ![m] = p]
    BY <1>5 DEF HandlerCall, HandlerCallFails, HandlerReturn, HandlerSend, HandlerEnd, streamVars
  <2>2. \A n \in Remote : handlerPc'[n] = "spawned" <=> handlerPc[n] = "spawned"
    BY <1>0, <2>1, Kinds
  <2> QED BY <2>1, <2>2, OrderFrame
<1>6. ASSUME NEW m \in Requests, HandlerRelease(m) \/ Arrive(m)
      PROVE  HandlersInOrder' /\ LastNotBegun'
  BY <1>3, <1>6 DEF HandlerRelease, Arrive, streamVars, handlerVars
<1>7. ASSUME NEW m \in LocalCalls, LocalLock(m) PROVE HandlersInOrder' /\ LastNotBegun'
  <2>1. UNCHANGED <<received, started>> /\ handlerPc' = [handlerPc EXCEPT ![m] = "spawned"]
    BY <1>7 DEF LocalLock, streamVars
  <2>2. \A n \in Remote : handlerPc'[n] = handlerPc[n]
    BY <1>0, <2>1, Kinds
  <2> QED BY <2>1, <2>2, OrderFrame
<1>8. ASSUME NEW m \in LocalCalls, LocalCall(m) \/ Cancel(m) \/ DispatchLocalRequest(m)
      PROVE  HandlersInOrder' /\ LastNotBegun'
  BY <1>3, <1>8 DEF LocalCall, Cancel, DispatchLocalRequest, streamVars, handlerVars
<1> QED BY <1>1, <1>2, <1>4, <1>5, <1>6, <1>7, <1>8 DEF Next, Loop, Handler

-----------------------------------------------------------------------------
(* Replies to local calls *)

\* The places of a handler that has not sent its response.
BeforeSend == {"spawned", "run", "call", "reply", "send"}

\* A step that answers no local call and moves no caller.
LEMMA RepliesFrame ==
    ASSUME NotYetAnswered, UNCHANGED <<callPc, replies>>,
           \A m \in LocalTwoWay : handlerPc'[m] \in BeforeSend => handlerPc[m] \in BeforeSend
    PROVE  NotYetAnswered'
BY DEF NotYetAnswered, BeforeSend

\* One step keeps NotYetAnswered.
LEMMA RepliesStep ==
    ASSUME TypeOK, DeliveredOnce, NotYetAnswered, [Next]_vars PROVE NotYetAnswered'
<1>0. /\ handlerPc \in [Requests -> {"none", "spawned", "run", "call", "reply", "send", "end",
                                     "done"}]
      /\ calls \subseteq Remote
      /\ callPc \in [LocalCalls -> {"idle", "dispatch", "lock", "returned"}]
      /\ DOMAIN replies = LocalCalls
  BY Kinds DEF TypeOK
<1>1. CASE Recv
  <2>1. /\ inbox \in Seq(Messages) /\ inbox # <<>>
        /\ Route(Head(inbox)) /\ UNCHANGED <<callPc, replies>>
    BY <1>1 DEF Recv, TypeOK, Messages, localVars
  <2>2. Head(inbox) \in Messages
    BY <2>1, SMT
  <2>3. PICK m \in Remote : m = Head(inbox).req
    BY <2>2 DEF Messages
  <2>4. \E p : handlerPc' = handlerPc \/ handlerPc' = [handlerPc EXCEPT ![m] = p]
    BY <2>1, <2>3 DEF Route
  <2>5. \A n \in LocalTwoWay : handlerPc'[n] = handlerPc[n]
    BY <1>0, <2>4, Kinds
  <2> QED BY <2>1, <2>5, RepliesFrame
<1>2. CASE UNCHANGED <<handlerPc, callPc, replies>>
  BY <1>2, RepliesFrame
<1>3. CASE LoopLock \/ RecvFails \/ Sending \/ Break \/ Detach \/ UNCHANGED vars
  BY <1>2, <1>3 DEF LoopLock, RecvFails, Sending, Break, Detach, vars, handlerVars, localVars
<1>4. ASSUME NEW m \in Requests, HandlerRelease(m) \/ Arrive(m) PROVE NotYetAnswered'
  BY <1>2, <1>4 DEF HandlerRelease, Arrive, handlerVars, localVars
<1>5. ASSUME NEW m \in Requests,
             \/ HandlerStart(m) \/ HandlerCall(m) \/ HandlerCallFails(m) \/ HandlerReturn(m)
             \/ HandlerEnd(m)
      PROVE  NotYetAnswered'
  <2>1. /\ UNCHANGED <<callPc, replies>>
        /\ \/ /\ handlerPc[m] \in BeforeSend
              /\ \E p \in {"run", "call", "reply", "send", "end"} :
                    handlerPc' = [handlerPc EXCEPT ![m] = p]
           \/ handlerPc' = [handlerPc EXCEPT ![m] = "done"]
    BY <1>5 DEF HandlerStart, HandlerCall, HandlerCallFails, HandlerReturn, HandlerEnd, localVars,
                BeforeSend
  <2>2. \A n \in LocalTwoWay : handlerPc'[n] \in BeforeSend => handlerPc[n] \in BeforeSend
    BY <1>0, <2>1, Kinds DEF BeforeSend
  <2> QED BY <2>1, <2>2, RepliesFrame
<1>6. ASSUME NEW m \in Requests, HandlerSend(m) PROVE NotYetAnswered'
  <2>1. /\ handlerPc[m] = "send" /\ handlerPc' = [handlerPc EXCEPT ![m] = "end"]
        /\ callPc' = callPc
        /\ \/ replies' = replies
           \/ m \in LocalCalls /\ \E x : replies' = [replies EXCEPT ![m] = x]
    BY <1>6 DEF HandlerSend, SendLocal
  <2>2. m \in LocalCalls => callPc[m] = "returned"
    BY <2>1 DEF DeliveredOnce
  <2>3. handlerPc'[m] = "end" /\ \A n \in Requests : n # m => handlerPc'[n] = handlerPc[n]
    BY <1>0, <2>1
  <2>4. \A n \in LocalCalls : n # m => replies'[n] = replies[n]
    BY <1>0, <2>1
  <2> QED BY <2>1, <2>2, <2>3, <2>4, Kinds DEF NotYetAnswered
<1>7. ASSUME NEW m \in LocalCalls, LocalCall(m) \/ Cancel(m) PROVE NotYetAnswered'
  <2>1. /\ UNCHANGED <<handlerPc, replies>>
        /\ \/ callPc' = callPc
           \/ callPc[m] = "idle" /\ callPc' = [callPc EXCEPT ![m] = "dispatch"]
    BY <1>7 DEF LocalCall, Cancel, handlerVars
  <2>2. \A n \in LocalCalls :
           \/ callPc'[n] = callPc[n]
           \/ callPc[n] = "idle" /\ callPc'[n] = "dispatch"
    BY <1>0, <2>1
  <2> QED BY <2>1, <2>2, Kinds DEF NotYetAnswered
<1>8. ASSUME NEW m \in LocalCalls, DispatchLocalRequest(m) PROVE NotYetAnswered'
  <2>1. /\ handlerPc' = handlerPc /\ callPc[m] = "dispatch"
        /\ \/ callPc' = [callPc EXCEPT ![m] = "returned"]
           \/ /\ callPc' = [callPc EXCEPT ![m] = "lock"]
              /\ m \in LocalTwoWay => replies' = replies
        /\ replies' = replies \/ \E x : replies' = [replies EXCEPT ![m] = x]
    BY <1>8, KindAssumption DEF DispatchLocalRequest, handlerVars
  <2>2. handlerPc[m] = "none" /\ replies[m] = <<>>
    BY <2>1 DEF DeliveredOnce, NotYetAnswered
  <2>3. \A n \in LocalCalls : n # m => callPc'[n] = callPc[n] /\ replies'[n] = replies[n]
    BY <1>0, <2>1
  <2>4. /\ callPc'[m] \in {"lock", "returned"}
        /\ callPc'[m] = "lock" /\ m \in LocalTwoWay => replies'[m] = <<>>
    BY <1>0, <2>1, <2>2
  <2> QED BY <2>1, <2>2, <2>3, <2>4, Kinds DEF NotYetAnswered
<1>9. ASSUME NEW m \in LocalCalls, LocalLock(m) PROVE NotYetAnswered'
  <2>1. /\ callPc[m] = "lock" /\ callPc' = [callPc EXCEPT ![m] = "returned"]
        /\ handlerPc' = [handlerPc EXCEPT ![m] = "spawned"] /\ replies' = replies
    BY <1>9 DEF LocalLock
  <2>2. m \in LocalTwoWay => replies[m] = <<>>
    BY <2>1 DEF NotYetAnswered
  <2>3. \A n \in LocalCalls : n # m => callPc'[n] = callPc[n] /\ handlerPc'[n] = handlerPc[n]
    BY <1>0, <2>1, Kinds
  <2>4. callPc'[m] = "returned"
    BY <1>0, <2>1
  <2> QED BY <2>1, <2>2, <2>3, <2>4, Kinds DEF NotYetAnswered
<1> QED BY <1>1, <1>3, <1>4, <1>5, <1>6, <1>7, <1>8, <1>9 DEF Next, Loop, Handler

-----------------------------------------------------------------------------
(* The theorems *)

\* The inductive invariant holds in every reachable state.
THEOREM Invariance == Spec => []Inv
<1>1. Init => Inv
  <2> SUFFICES ASSUME Init PROVE Inv
    OBVIOUS
  <2>1. TypeOK
    BY InitType
  <2>2. SendingHas /\ CallsWaited
    BY DEF Init, SendingHas, CallsWaited
  <2>3. \A m \in Requests : handlerPc[m] = "none"
    BY DEF Init
  <2>4. OneTurnAtATime
    BY <2>3, Kinds DEF Init, OneTurnAtATime, HasTurn
  <2>5. DeliveredOnce
    BY <2>3, Kinds, SMT DEF Init, DeliveredOnce, IsRequest
  <2>6. HandlersInOrder /\ LastNotBegun
    BY <2>3, Kinds, SMT DEF Init, HandlersInOrder, LastNotBegun
  <2>7. NotYetAnswered
    BY <2>3, Kinds DEF Init, NotYetAnswered
  <2> QED BY <2>1, <2>2, <2>4, <2>5, <2>6, <2>7 DEF Inv
<1>2. Inv /\ [Next]_vars => Inv'
  BY TypeStep, SendingStep, TurnStep, CallsStep, DeliveredStep, OrderStep, RepliesStep DEF Inv
<1> QED BY <1>1, <1>2, PTL DEF Spec

\* Every table keeps its type, and finished never holds more than its buffer
\* and the one response that is being handed over.
THEOREM TypeCorrect == Spec => []TypeOK
<1>1. Inv => TypeOK
  BY DEF Inv
<1> QED BY <1>1, Invariance, PTL

\* However many requests arrive and however their handlers use Release, no
\* handler runs beside one of the same stream, or of the self node, that has
\* not released its lock, and no unlocked mutex is unlocked.
THEOREM TurnsTaken == Spec => []OneTurnAtATime
<1>1. Inv => OneTurnAtATime
  BY DEF Inv
<1> QED BY <1>1, Invariance, PTL

\* Handlers begin in the order in which NodeStream received their requests.
THEOREM InOrder == Spec => []HandlersInOrder
<1>1. Inv => HandlersInOrder
  BY DEF Inv
<1> QED BY <1>1, Invariance, PTL

-----------------------------------------------------------------------------
(* In-process calls implement the contract *)

\* The contract speaks of the local calls.
LEMMA SameCalls == Contract!AllRequests = LocalCalls
BY DEF Contract!AllRequests, LocalCalls

\* A step that issues, cancels and answers no local call is a stutter.
LEMMA LocalStutter ==
    ASSUME UNCHANGED <<cancelled, replies>>,
           \A m \in LocalCalls : callPc'[m] = "idle" <=> callPc[m] = "idle"
    PROVE  UNCHANGED Contract!contractVars
BY DEF Contract!contractVars

\* Every step is a step of the contract or leaves its variables unchanged.
LEMMA LocalStep ==
    ASSUME Inv, [Next]_vars PROVE [Contract!ContractNext]_(Contract!contractVars)
<1>0. /\ callPc \in [LocalCalls -> {"idle", "dispatch", "lock", "returned"}]
      /\ DeliveredOnce /\ NotYetAnswered
  BY DEF Inv, TypeOK
<1>1. CASE UNCHANGED localVars
  BY <1>1, LocalStutter DEF localVars
<1>2. CASE Loop \/ Sending \/ Break \/ Detach \/ UNCHANGED vars
  BY <1>1, <1>2 DEF Loop, Recv, LoopLock, RecvFails, Sending, Break, Detach, vars
<1>3. ASSUME NEW m \in Requests,
             \/ Arrive(m) \/ HandlerStart(m) \/ HandlerRelease(m) \/ HandlerCall(m)
             \/ HandlerCallFails(m) \/ HandlerReturn(m) \/ HandlerEnd(m)
      PROVE  [Contract!ContractNext]_(Contract!contractVars)
  BY <1>1, <1>3 DEF Arrive, HandlerStart, HandlerRelease, HandlerCall, HandlerCallFails,
                    HandlerReturn, HandlerEnd
<1>4. ASSUME NEW m \in LocalCalls, NEW v \in {"value", "sent", "ctx"},
             callPc[m] # "idle", replies[m] = <<>>,
             v = "value" => m \in LocalTwoWay, v = "sent" => m \in LocalOneWay,
             v = "ctx" => m \in cancelled,
             replies' = [replies EXCEPT ![m] = Append(@, v)],
             UNCHANGED cancelled,
             \A n \in LocalCalls : callPc'[n] = "idle" <=> callPc[n] = "idle"
      PROVE  [Contract!ContractNext]_(Contract!contractVars)
  <2>1. {n \in LocalCalls : callPc'[n] # "idle"} = {n \in LocalCalls : callPc[n] # "idle"}
    BY <1>4
  <2>2. ~Contract!HasError(replies[m])
    BY <1>4, SMT DEF Contract!HasError
  <2>3. Contract!Answer(m, v)
    BY <1>4, <2>1, <2>2 DEF Contract!Answer, Contract!Errors
  <2>4. Contract!ContractNext
    BY <2>3, <1>4, SameCalls DEF Contract!ContractNext, Contract!Errors
  <2> QED BY <2>4
<1>5. ASSUME NEW m \in Requests, HandlerSend(m)
      PROVE  [Contract!ContractNext]_(Contract!contractVars)
  <2>1. UNCHANGED <<callPc, cancelled>>
    BY <1>5 DEF HandlerSend
  <2>2. CASE m \in LocalTwoWay
    <3>1. /\ replies' = [replies EXCEPT ![m] = Append(@, "value")] /\ handlerPc[m] = "send"
          /\ m \in LocalCalls
      BY <1>5, <2>2, Kinds DEF HandlerSend, SendLocal
    <3>2. replies[m] = <<>> /\ callPc[m] # "idle"
      BY <1>0, <2>2, <3>1 DEF NotYetAnswered, DeliveredOnce
    <3> QED BY <1>4, <2>1, <2>2, <3>1, <3>2
  <2>3. CASE m \notin LocalTwoWay
    <3>1. replies' = replies
      BY <1>5, <2>3 DEF HandlerSend, SendLocal
    <3> QED BY <2>1, <3>1, LocalStutter
  <2> QED BY <2>2, <2>3
<1>6. ASSUME NEW m \in LocalCalls, LocalCall(m)
      PROVE  [Contract!ContractNext]_(Contract!contractVars)
  <2>1. /\ callPc[m] = "idle" /\ callPc' = [callPc EXCEPT ![m] = "dispatch"]
        /\ UNCHANGED <<cancelled, replies>>
    BY <1>6 DEF LocalCall
  <2>2. {n \in LocalCalls : callPc'[n] # "idle"} =
           {n \in LocalCalls : callPc[n] # "idle"} \cup {m}
    BY <1>0, <2>1
  <2>3. Contract!StartCall(m)
    BY <2>1, <2>2 DEF Contract!StartCall
  <2> QED BY <2>3, SameCalls DEF Contract!ContractNext
<1>7. ASSUME NEW m \in LocalCalls, Cancel(m)
      PROVE  [Contract!ContractNext]_(Contract!contractVars)
  <2>1. cancelled' = cancelled \cup {m} /\ UNCHANGED <<callPc, replies>>
    BY <1>7 DEF Cancel
  <2>2. Contract!CancelCall(m)
    BY <2>1 DEF Contract!CancelCall
  <2> QED BY <2>2, SameCalls DEF Contract!ContractNext
<1>8. ASSUME NEW m \in LocalCalls, DispatchLocalRequest(m)
      PROVE  [Contract!ContractNext]_(Contract!contractVars)
  <2>1. /\ callPc[m] = "dispatch" /\ cancelled' = cancelled
        /\ \E p \in {"lock", "returned"} : callPc' = [callPc EXCEPT ![m] = p]
    BY <1>8 DEF DispatchLocalRequest
  <2>2. \A n \in LocalCalls : callPc'[n] = "idle" <=> callPc[n] = "idle"
    BY <1>0, <2>1
  <2>3. replies[m] = <<>> /\ callPc[m] # "idle"
    BY <1>0, <2>1 DEF NotYetAnswered
  <2>4. CASE m \in cancelled
    <3>1. replies' = [replies EXCEPT ![m] = Append(@, "ctx")]
      BY <1>8, <2>4 DEF DispatchLocalRequest
    <3> QED BY <1>4, <2>1, <2>2, <2>3, <2>4, <3>1
  <2>5. CASE m \notin cancelled /\ m \in LocalOneWay
    <3>1. replies' = [replies EXCEPT ![m] = Append(@, "sent")]
      BY <1>8, <2>5 DEF DispatchLocalRequest
    <3> QED BY <1>4, <2>1, <2>2, <2>3, <2>5, <3>1
  <2>6. CASE m \notin cancelled /\ m \notin LocalOneWay
    <3>1. replies' = replies
      BY <1>8, <2>6 DEF DispatchLocalRequest
    <3> QED BY <2>1, <2>2, <3>1, LocalStutter
  <2> QED BY <2>4, <2>5, <2>6
<1>9. ASSUME NEW m \in LocalCalls, LocalLock(m)
      PROVE  [Contract!ContractNext]_(Contract!contractVars)
  <2>1. /\ callPc[m] = "lock" /\ callPc' = [callPc EXCEPT ![m] = "returned"]
        /\ UNCHANGED <<cancelled, replies>>
    BY <1>9 DEF LocalLock
  <2>2. \A n \in LocalCalls : callPc'[n] = "idle" <=> callPc[n] = "idle"
    BY <1>0, <2>1
  <2> QED BY <2>1, <2>2, LocalStutter
<1> QED BY <1>2, <1>3, <1>5, <1>6, <1>7, <1>8, <1>9 DEF Next, Handler

\* In-process calls obey the contract of calls over a channel: a two-way call
\* gets one reply, a one-way call one confirmation, an error only when its
\* context is done.
THEOREM LocalRefinement == Spec => LocalContract
<1>1. Init => Contract!ContractInit
  <2> SUFFICES ASSUME Init PROVE Contract!ContractInit
    OBVIOUS
  <2>1. {m \in LocalCalls : callPc[m] # "idle"} = {}
    BY DEF Init
  <2> QED BY <2>1, SameCalls DEF Init, Contract!ContractInit
<1>2. Inv /\ [Next]_vars => [Contract!ContractNext]_(Contract!contractVars)
  BY LocalStep
<1> QED BY <1>1, <1>2, Invariance, PTL DEF Spec, LocalContract, Contract!ContractSpec
=============================================================================
