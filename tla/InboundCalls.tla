---------------------------- MODULE InboundCalls ----------------------------
(***************************************************************************)
(* Calls that a server makes to the peers and clients connected to it, on  *)
(* top of InboundPeers: the two-way path of an inbound channel (Enqueue,   *)
(* sender, requeuePendingMsgs and Close of internal/stream/channel.go) and *)
(* the router of the node (router.go), which outlives the channels: a peer *)
(* that reconnects has the calls of its old and its new stream in one      *)
(* pending table.                                                          *)
(***************************************************************************)
EXTENDS InboundPeers

CONSTANT Calls     \* two-way server-initiated requests

ASSUME CallAssumption == None \notin Calls

VARIABLES
    target,        \* the node a request is for, None before the call
    waiting,       \* <<request, channel>>: an Enqueue waits for the sender
    hand,          \* the request a sender works on
    handPc,        \* before Register ("take") or in Send ("send")
    pending,       \* requests in the router of their node
    via,           \* the channel a request was registered on
    sent,          \* <<request, stream>>: the peer has it
    cleared,       \* channels whose stream reference is nil
    cancelled,     \* requests whose context is done
    answers,       \* how many responses each request got
    late,          \* history: registered on a channel that was closed before
    disturbed      \* history: taken from the router while their own stream was fine

callVars == <<target, waiting, hand, handPc, pending, via, sent, cleared, cancelled, answers,
              late, disturbed>>
allVars == <<vars, callVars>>

\* connCtx is a child of the stream's context, which ends with the transport.
ConnDone(c) == c \in closedChans \cup gone \/ connPc[c] = "ended"
Fine(c) == ~ConnDone(c) /\ c \notin cleared

Answer(R) == answers' = [r \in Calls |-> answers[r] + IF r \in R THEN 1 ELSE 0]

-----------------------------------------------------------------------------
(* The router of a node *)

\* Slip: one pending table for all the nodes of the server.
PendingOf_AllNodes(id) == pending

PendingOf(id) == {r \in pending : target[r] = id}

\* Requests leave the pending table before they are answered or enqueued again.
Taken(R) == pending' = pending \ R

Disturb(R) == disturbed' = disturbed \cup {r \in R : Fine(via[r])}

\* cancelPendingMsgs: every request in the router of the node gets
\* ErrNodeClosed, on whatever channel it was sent.
cancelPendingMsgs(id) ==
    /\ Taken(PendingOf(id))
    /\ Answer(PendingOf(id))
    /\ Disturb(PendingOf(id))
    /\ UNCHANGED <<target, waiting, hand, handPc, via, sent, cleared, cancelled, late>>

\* Slip: RequeuePending only reads the table.
requeuePendingMsgs_Kept(c) ==
    /\ Disturb(PendingOf(nodeOf[c]))
    /\ waiting' = waiting \cup (PendingOf(nodeOf[c]) \X {c})
    /\ UNCHANGED pending

\* requeuePendingMsgs on channel c: what is in the router is enqueued again, on c.
requeuePendingMsgs(c) ==
    /\ Taken(PendingOf(nodeOf[c]))
    /\ Disturb(PendingOf(nodeOf[c]))
    /\ waiting' = waiting \cup (PendingOf(nodeOf[c]) \X {c})

-----------------------------------------------------------------------------
(* The caller and the sender of a channel *)

\* Node.Enqueue, with the first select of Channel.Enqueue.  Without a channel
\* the request is dropped.
Call(r, id) ==
    /\ target[r] = None
    /\ id \in nodes \ {Self}
    /\ target' = [target EXCEPT ![r] = id]
    /\ LET c == channel[id] IN
       \/ /\ c = None
          /\ UNCHANGED <<waiting, answers>>
       \/ /\ c # None /\ ConnDone(c)
          /\ Answer({r})
          /\ UNCHANGED waiting
       \/ /\ c # None /\ ~ConnDone(c)
          /\ waiting' = waiting \cup {<<r, c>>}
          /\ UNCHANGED answers
    /\ UNCHANGED <<vars, hand, handPc, pending, via, sent, cleared, cancelled, late, disturbed>>

\* The channel closes while Enqueue waits.
EnqueueClosed(r, c) ==
    /\ <<r, c>> \in waiting
    /\ ConnDone(c)
    /\ waiting' = waiting \ {<<r, c>>}
    /\ Answer({r})
    /\ UNCHANGED <<vars, target, hand, handPc, pending, via, sent, cleared, cancelled, late, disturbed>>

\* The sender takes a request; an inbound channel without a stream cannot get
\* one, and a request whose context is done is not sent.
SenderTake(r, c) ==
    /\ <<r, c>> \in waiting
    /\ hand[c] = None
    /\ waiting' = waiting \ {<<r, c>>}
    /\ IF c \in cleared \/ r \in cancelled
       THEN Answer({r}) /\ UNCHANGED <<hand, handPc>>
       ELSE /\ hand' = [hand EXCEPT ![c] = r]
            /\ handPc' = [handPc EXCEPT ![c] = "take"]
            /\ UNCHANGED answers
    /\ UNCHANGED <<vars, target, pending, via, sent, cleared, cancelled, late, disturbed>>

SenderRegister(c) ==
    /\ hand[c] # None /\ handPc[c] = "take"
    /\ pending' = pending \cup {hand[c]}
    /\ via' = [via EXCEPT ![hand[c]] = c]
    /\ handPc' = [handPc EXCEPT ![c] = "send"]
    /\ late' = IF c \in closedChans THEN late \cup {hand[c]} ELSE late
    /\ UNCHANGED <<vars, target, waiting, hand, sent, cleared, cancelled, answers, disturbed>>

\* The context of the request in Send ends: its AfterFunc clears the stream.
CancelClears(c) ==
    /\ hand[c] \in cancelled /\ handPc[c] = "send"
    /\ c \notin cleared
    /\ cleared' = cleared \cup {c}
    /\ requeuePendingMsgs(c)
    /\ UNCHANGED <<vars, target, hand, handPc, via, sent, cancelled, answers, late>>

Send(c) ==
    /\ hand[c] # None /\ handPc[c] = "send"
    /\ connPc[c] # "ended"
    /\ sent' = sent \cup {<<hand[c], c>>}
    /\ hand' = [hand EXCEPT ![c] = None]
    /\ UNCHANGED <<vars, target, waiting, handPc, pending, via, cleared, cancelled, answers, late,
                   disturbed>>

SendFails(c) ==
    /\ hand[c] # None /\ handPc[c] = "send"
    /\ c \in gone
    /\ hand' = [hand EXCEPT ![c] = None]
    /\ cleared' = cleared \cup {c}
    /\ requeuePendingMsgs(c)
    /\ UNCHANGED <<vars, target, handPc, via, sent, cancelled, answers, late>>

Cancel(r) ==
    /\ target[r] # None /\ answers[r] = 0
    /\ r \notin cancelled
    /\ cancelled' = cancelled \cup {r}
    /\ UNCHANGED <<vars, target, waiting, hand, handPc, pending, via, sent, cleared, answers, late,
                   disturbed>>

\* The peer answers, and NodeStream gives the answer to RouteInbound: it goes to
\* the pending call, or is absorbed.
Response(r, c) ==
    /\ <<r, c>> \in sent
    /\ connPc[c] \in {"replace", "open"} /\ c \notin gone
    /\ sent' = sent \ {<<r, c>>}
    /\ Taken(pending \cap {r})
    /\ Answer(pending \cap {r})
    /\ UNCHANGED <<vars, target, waiting, hand, handPc, via, cleared, cancelled, late, disturbed>>

-----------------------------------------------------------------------------
(* Composition with the streams *)

CallsInit ==
    /\ Init
    /\ target = [r \in Calls |-> None]
    /\ waiting = {} /\ pending = {} /\ sent = {} /\ cleared = {} /\ cancelled = {}
    /\ hand = [c \in Conns |-> None]
    /\ handPc = [c \in Conns |-> "take"]
    /\ via = [r \in Calls |-> None]
    /\ answers = [r \in Calls |-> 0]
    /\ late = {} /\ disturbed = {}

\* registerPeer closes the channel it replaced: the context was cancelled with
\* the swap, the pending calls of the node now.
CloseReplacedChannel(c) ==
    /\ finishReplace(c)
    /\ cancelPendingMsgs(nodeOf[c])

\* Slip: a detached channel is stopped, and its node's calls are left.
DetachChannel_Stop(c) == Detaches(c) /\ UNCHANGED callVars

DetachChannel(c) == Detaches(c) /\ cancelPendingMsgs(nodeOf[c])

EndStream(c) ==
    /\ Cleanup(c)
    /\ \/ DetachChannel(c)
       \/ ~Detaches(c) /\ UNCHANGED callVars

Streaming(c) ==
    \/ AcceptPeer(c) /\ UNCHANGED callVars
    \/ registerPeer(c) /\ UNCHANGED callVars
    \/ acceptClient(c) /\ UNCHANGED callVars
    \/ CloseReplacedChannel(c)
    \/ EndStream(c)

Waiting(w) ==
    \/ checkConfig(w) /\ UNCHANGED callVars
    \/ waitForConfig(w) /\ UNCHANGED callVars

CallsNext ==
    \/ \E r \in Calls, id \in Peers \cup ClientIDs : Call(r, id)
    \/ \E r \in Calls, c \in Conns : EnqueueClosed(r, c) \/ SenderTake(r, c) \/ Response(r, c)
    \/ \E c \in Conns : SenderRegister(c) \/ CancelClears(c) \/ Send(c) \/ SendFails(c)
    \/ \E r \in Calls : Cancel(r)
    \/ \E c \in Conns : Connect(c) /\ UNCHANGED callVars
    \/ \E c \in Conns : HangUp(c) /\ UNCHANGED callVars
    \/ \E c \in Conns : Streaming(c)
    \/ \E w \in Waiters : WaitForConfig(w) /\ UNCHANGED callVars
    \/ \E w \in Waiters : WaitCancelled(w) /\ UNCHANGED callVars
    \/ \E w \in Waiters : Waiting(w)
    \/ close /\ UNCHANGED callVars

CallsSpec == CallsInit /\ [][CallsNext]_allVars

\* The goroutines of streams and waiters keep running; callers, contexts and
\* peers owe nothing.
CallsFairSpec ==
    /\ CallsSpec
    /\ \A c \in Conns : WF_allVars(Streaming(c))
    /\ \A w \in Waiters : WF_allVars(Waiting(w))

-----------------------------------------------------------------------------
(* Properties *)

(* A server-initiated call is answered at most once, however its stream is
   replaced, lost or cleared while it is queued, in Send or pending.         *)
AnsweredAtMostOnce == \A r \in Calls : answers[r] <= 1

(* A call is left in the router after the stream it was sent on ended only if
   its sender registered it after the channel had been closed: the calls of a
   lost or replaced stream are otherwise failed with it.                     *)
StrandedOnlyIfLate ==
    \A r \in pending : connPc[via[r]] = "ended" => r \in late

(* A call whose own stream is fine is failed or queued again only on account
   of another stream of the same node, or of a cancelled call to it.         *)
DisturbedForCause ==
    \A r \in disturbed :
        \/ \E c \in closedChans : nodeOf[c] = target[r] /\ c # via[r]
        \/ \E q \in cancelled : target[q] = target[r]
============================================================================
