----------------------------- MODULE QuorumCall -----------------------------
(***************************************************************************)
(* One call on a configuration, from the client's side: ClientCtx sends    *)
(* the request to every node and collects what their channels deliver on   *)
(* the shared reply channel (client_interceptor.go), until the terminal    *)
(* method has enough (responses.go, correctable.go, async.go), every node  *)
(* is accounted for, or the context is done.  Multicast, Unicast and       *)
(* RPCCall wait on a reply channel in the same way.  A node's channel      *)
(* behaves as CallContract says.                                           *)
(***************************************************************************)
EXTENDS Integers, Sequences, Functions, FiniteSets

CONSTANTS
    Calls,         \* the calls considered: records as in CallKinds
    Nodes,         \* all nodes
    Watchers,      \* callers of Correctable.Watch
    WatchLevel,    \* the level each of them asks for
    StreamFactor,  \* replyChan has so many places per node when streaming (10)
    MaxAnswers     \* bound on the answers of a node to a streaming call

\* method: Threshold (First, Majority, All and their Async forms), Correctable,
\* Collect (CollectN, with IgnoreErrors if ignore), Multicast and Unicast (with
\* ignore: fire-and-forget), RPC.
CallKinds ==
    [method : {"Threshold", "Correctable", "Collect", "Multicast", "Unicast", "RPC"},
     streaming : BOOLEAN, ignore : BOOLEAN, threshold : Nat,
     members : (SUBSET Nodes) \ {{}},
     skipped : SUBSET Nodes,    \* MapRequest returns no valid request for them
     unsendable : SUBSET Nodes] \* the request for them cannot be marshalled

ASSUME CallAssumption ==
    /\ IsFiniteSet(Nodes)
    /\ Calls \subseteq CallKinds
    /\ \A c \in Calls : c.method \in {"Unicast", "RPC"} => Cardinality(c.members) = 1
    /\ \A c \in Calls : c.method \in {"Multicast", "Unicast", "RPC"} => ~c.streaming
    /\ \A c \in Calls : c.method \in {"Unicast", "RPC"} => c.skipped = {}
    /\ WatchLevel \in [Watchers -> Nat]
    /\ StreamFactor \in Nat \ {0} /\ MaxAnswers \in Nat

LevelNotSet == -1

VARIABLES
    call,       \* the call that is made
    todo,       \* nodes the request has still to be sent to
    blocked,    \* the node whose Enqueue the sending goroutine waits in
    pending,    \* nodes whose channel may still answer
    expired,    \* those of them that got the request when its context was done
    answers,    \* history: what was put on the reply channel for each node
    replyChan,  \* the shared reply channel
    pc,         \* the goroutine of the terminal method
    yielded,    \* responses the iterator has yielded
    taken,      \* nodes whose response counted, in order
    errs,       \* nodes whose error was recorded, in order
    result,     \* what the method returns
    ctxDone,    \* the context of the call is done
    level,      \* Correctable: the current level
    watch       \* Correctable: the channels given out by Watch

vars == <<call, todo, blocked, pending, expired, answers, replyChan, pc, yielded, taken, errs,
          result, ctxDone, level, watch>>
sending == <<todo, blocked, pending, expired>>

Size == Cardinality(call.members)

ReplyCap == IF call.streaming THEN StreamFactor * Size ELSE Size

OneWayCall == call.method \in {"Multicast", "Unicast"}
Single == call.method \in {"Unicast", "RPC"}
FireAndForget == OneWayCall /\ call.ignore

Response(n, v) == [node |-> n, res |-> v]

ReplyHasRoom == Len(replyChan) < ReplyCap

\* A send on the reply channel, which blocks while that is full.
Reply(n, v) ==
    /\ ReplyHasRoom
    /\ replyChan' = Append(replyChan, Response(n, v))
    /\ answers' = [answers EXCEPT ![n] = Append(@, v)]

-----------------------------------------------------------------------------
(* Sending *)

reportNodeError(n, v) ==
    IF FireAndForget THEN UNCHANGED <<replyChan, answers>> ELSE Reply(n, v)

\* Slip: a node that is skipped is not reported.
SkipNode_Silently(n) == UNCHANGED <<replyChan, answers>>
SkipNode(n) == reportNodeError(n, "skip")

\* A channel answers a request whose context is done with one error.
HandOver(n, late) ==
    /\ todo' = todo \ {n}
    /\ pending' = IF FireAndForget THEN pending ELSE pending \cup {n}
    /\ expired' = IF late THEN expired \cup {n} ELSE expired

\* sendNow: to one node after the other, before the first response is read.
\* Enqueue may block, on a full sendQ or on the mutex of the local handlers.
SendTo(n) ==
    /\ pc = "send"
    /\ blocked = {}
    /\ n \in todo
    /\ ~(Single /\ n \in call.unsendable)
    /\ \/ /\ n \in call.skipped
          /\ SkipNode(n)
          /\ todo' = todo \ {n} /\ UNCHANGED <<blocked, pending, expired>>
       \/ /\ n \in call.unsendable \ call.skipped
          /\ reportNodeError(n, "error")
          /\ todo' = todo \ {n} /\ UNCHANGED <<blocked, pending, expired>>
       \/ /\ n \notin call.skipped \cup call.unsendable
          /\ HandOver(n, ctxDone)
          /\ UNCHANGED <<blocked, replyChan, answers>>
       \/ /\ n \notin call.skipped \cup call.unsendable
          /\ blocked' = {n}
          /\ expired' = IF ctxDone THEN expired \cup {n} ELSE expired
          /\ UNCHANGED <<todo, pending, replyChan, answers>>
    /\ UNCHANGED <<call, pc, yielded, taken, errs, result, ctxDone, level, watch>>

\* There is room in sendQ, or the mutex is free.  The select of Enqueue does not
\* look at the context.  A channel does when it sends, DispatchLocalRequest did
\* before it waited.
Unblocked(n) ==
    /\ n \in blocked
    /\ blocked' = {}
    /\ HandOver(n, FALSE) \/ (ctxDone /\ HandOver(n, TRUE))
    /\ UNCHANGED <<call, answers, replyChan, pc, yielded, taken, errs, result, ctxDone, level,
                   watch>>

\* Unicast and RPCCall return a marshalling error at once.
MarshalFails ==
    /\ pc = "send"
    /\ Single /\ call.members \subseteq call.unsendable
    /\ pc' = "done"
    /\ result' = "error"
    /\ UNCHANGED <<call, sending, answers, replyChan, yielded, taken, errs, ctxDone, level,
                   watch>>

\* All requests are enqueued: fire-and-forget returns, the others wait.
Sent ==
    /\ pc = "send"
    /\ todo = {}
    /\ pc' = IF FireAndForget THEN "done" ELSE "recv"
    /\ result' = IF FireAndForget THEN "ok" ELSE result
    /\ UNCHANGED <<call, sending, answers, replyChan, yielded, taken, errs, ctxDone, level,
                   watch>>

-----------------------------------------------------------------------------
(* The channels of the nodes *)

\* Slip: a two-way call may be answered twice.
MoreToCome_Once(n) == Len(answers[n]) < 1
MoreToCome(n) == call.streaming /\ n \notin expired /\ Len(answers[n]) + 1 < MaxAnswers

\* A value may turn out not to be a message of the expected type.
NodeAnswers(n) ==
    /\ n \in pending
    /\ \/ Reply(n, "error")
       \/ /\ n \notin expired
          /\ \E v \in IF OneWayCall THEN {"sent"} ELSE {"value", "garbled"} : Reply(n, v)
    /\ pending' = IF MoreToCome(n) THEN pending ELSE pending \ {n}
    /\ UNCHANGED <<call, todo, blocked, expired, pc, yielded, taken, errs, result, ctxDone,
                   level, watch>>

\* deliver gives up on a full channel when the context is done.
AnswerDropped(n) ==
    /\ n \in pending
    /\ ~ReplyHasRoom
    /\ ctxDone
    /\ pending' = pending \ {n}
    /\ UNCHANGED <<call, todo, blocked, expired, answers, replyChan, pc, yielded, taken, errs,
                   result, ctxDone, level, watch>>

Cancel ==
    /\ ~ctxDone
    /\ ctxDone' = TRUE
    /\ UNCHANGED <<call, sending, answers, replyChan, pc, yielded, taken, errs, result, level,
                   watch>>
-----------------------------------------------------------------------------
(* Collecting *)

mapToCallResponse(v) == IF v = "garbled" THEN "error" ELSE v

\* The responses a method counts: Threshold counts a skipped node, Correctable
\* does not; CollectN stores a zero value for an error unless told to ignore it.
Takes(v) ==
    CASE call.method = "Threshold" -> v \in {"value", "skip"}
      [] call.method = "Correctable" -> v = "value"
      [] call.method = "Collect" -> v = "value" \/ ~call.ignore
      [] call.method = "Multicast" -> FALSE
      [] OTHER -> v # "error"

\* Slip: Threshold records a skipped node as well.
Records_Skipped(v) ==
    \/ call.method \in {"Threshold", "Correctable"} /\ v # "value"
    \/ call.method = "Multicast" /\ v = "error"
\* The errors it records.
Records(v) ==
    CASE call.method \in {"Threshold", "Correctable"} -> ~Takes(v)
      [] call.method = "Multicast" -> v = "error"
      [] OTHER -> FALSE

Enough(t) ==
    CASE call.method \in {"Threshold", "Correctable"} -> Len(t) >= call.threshold
      [] call.method = "Collect" -> Cardinality(Range(t)) >= call.threshold
      [] call.method = "Multicast" -> FALSE
      [] OTHER -> TRUE

Reached(w, l) == WatchLevel[w] <= l

\* Slip: completion closes only the channels whose level is reached.
update_LevelOnly(l, done) ==
    /\ level' = l
    /\ watch' = [w \in Watchers |->
                   IF watch[w] = "open" /\ Reached(w, l) THEN "closed" ELSE watch[w]]
\* Correctable.update: a watcher's channel is closed when its level is reached
\* or the call is done.
update(l, done) ==
    /\ level' = l
    /\ watch' = [w \in Watchers |->
                   IF watch[w] = "open" /\ (done \/ Reached(w, l)) THEN "closed" ELSE watch[w]]

\* One round of the loop over the responses.
Recv ==
    /\ pc = "recv"
    /\ replyChan # <<>>
    /\ call.streaming \/ yielded < Size
    /\ LET r == Head(replyChan)
           v == mapToCallResponse(r.res)
           t == IF Takes(v) THEN Append(taken, r.node) ELSE taken
           stop == Enough(t) /\ (Takes(v) \/ Single)
       IN /\ taken' = t
          /\ errs' = IF Records(v) THEN Append(errs, r.node) ELSE errs
          /\ pc' = IF stop THEN "done" ELSE "recv"
          /\ result' = IF stop THEN (IF Single /\ v = "error" THEN "error" ELSE "ok")
                       ELSE result
          /\ IF call.method = "Correctable" /\ Takes(v) THEN update(Len(t), stop)
             ELSE UNCHANGED <<level, watch>>
    /\ replyChan' = Tail(replyChan)
    /\ yielded' = IF call.streaming THEN yielded ELSE yielded + 1
    /\ UNCHANGED <<call, sending, answers, ctxDone>>

\* Slip: the loop ends one node early.
AllYielded_OneLess == ~call.streaming /\ yielded >= Size - 1
AllYielded == ~call.streaming /\ yielded >= Size

\* The iterator has no more responses, or the context is done.
Exhausted ==
    /\ pc = "recv"
    /\ AllYielded \/ ctxDone
    /\ pc' = "done"
    /\ result' =
          CASE call.method \in {"Threshold", "Correctable"} -> "incomplete"
            [] call.method = "Collect" -> "ok"
            [] call.method = "Multicast" /\ AllYielded ->
                  IF errs = <<>> THEN "ok" ELSE "sendfailure"
            [] OTHER -> "ctx"
    /\ IF call.method = "Correctable" THEN update(Len(taken), TRUE)
       ELSE UNCHANGED <<level, watch>>
    /\ UNCHANGED <<call, sending, answers, replyChan, yielded, taken, errs, ctxDone>>

Terminal == (\E n \in Nodes : SendTo(n)) \/ MarshalFails \/ Sent \/ Recv \/ Exhausted

Watch(w) ==
    /\ call.method = "Correctable"
    /\ watch[w] = "none"
    /\ watch' = [watch EXCEPT ![w] = IF WatchLevel[w] <= level THEN "closed" ELSE "open"]
    /\ UNCHANGED <<call, sending, answers, replyChan, pc, yielded, taken, errs, result, ctxDone,
                   level>>

-----------------------------------------------------------------------------
Init ==
    /\ call \in Calls
    /\ todo = call.members /\ blocked = {} /\ pending = {} /\ expired = {}
    /\ answers = [n \in Nodes |-> <<>>] /\ replyChan = <<>>
    /\ pc = "send" /\ yielded = 0 /\ taken = <<>> /\ errs = <<>> /\ result = "none"
    /\ ctxDone = FALSE
    /\ level = LevelNotSet /\ watch = [w \in Watchers |-> "none"]

Next ==
    \/ Terminal \/ Cancel
    \/ \E n \in Nodes : Unblocked(n) \/ NodeAnswers(n) \/ AnswerDropped(n)
    \/ \E w \in Watchers : Watch(w)

Spec == Init /\ [][Next]_vars

\* The goroutine of the terminal method keeps running; nodes owe no answer and
\* no place in their queue.
FairSpec == Spec /\ WF_vars(Terminal)

-----------------------------------------------------------------------------
(* Properties *)

(* The reply channel holds no more than its capacity, the iterator yields no
   more than one response per node, and every variable has its type.         *)
TypeOK ==
    /\ call \in Calls
    /\ todo \subseteq call.members /\ pending \subseteq call.members \ todo
    /\ blocked \subseteq todo /\ expired \subseteq call.members
    /\ answers \in [Nodes -> Seq({"value", "garbled", "sent", "error", "skip"})]
    /\ replyChan \in Seq([node : Nodes, res : {"value", "garbled", "sent", "error", "skip"}])
    /\ Len(replyChan) <= ReplyCap
    /\ pc \in {"send", "recv", "done"} /\ yielded \in 0..Size
    /\ taken \in Seq(Nodes) /\ errs \in Seq(Nodes)
    /\ result \in {"none", "ok", "error", "incomplete", "sendfailure", "ctx"}
    /\ ctxDone \in BOOLEAN
    /\ level \in {LevelNotSet} \cup Nat
    /\ watch \in [Watchers -> {"none", "open", "closed"}]

(* A call that is not streaming has a place in its reply channel for every node
   that is still to be sent to or still to answer, also after the method has
   returned: deliver never blocks a node's receiver on it, nor does
   reportNodeError block the caller.                                         *)
RoomForAnswers ==
    ~call.streaming /\ ~FireAndForget =>
        Len(replyChan) + Cardinality(pending) + Cardinality(todo) <= ReplyCap

Answered(v) == {n \in call.members : \E i \in DOMAIN answers[n] : answers[n][i] = v}

(* What the caller is told is what the nodes did.  A threshold is reported
   reached only when that many nodes answered or were skipped, and at least
   one even for a threshold of zero; "incomplete" means that too few did
   although all were heard, or that the context is done; a multicast succeeds
   only if no node failed.  The comments of First, Majority, All and Threshold
   promise "successful" responses; the code counts a skipped node as one, so
   that is what is stated here: a Threshold met by skipped nodes alone gives
   the caller a zero value and no error.                                     *)
ResultJustified ==
    LET need == IF call.threshold = 0 THEN 1 ELSE call.threshold
        good == Cardinality(Answered("value") \cup
                            (IF call.method = "Threshold" THEN Answered("skip") ELSE {}))
        heard == \A n \in call.members : answers[n] # <<>>
    IN ~call.streaming /\ pc = "done" =>
         /\ call.method \in {"Threshold", "Correctable"} =>
               IF result = "ok" THEN good >= need
               ELSE ctxDone \/ (heard /\ good < need)
         /\ call.method = "Collect" =>
               Cardinality(Range(taken)) >= call.threshold \/ heard \/ ctxDone
         /\ call.method = "Multicast" /\ ~call.ignore =>
               CASE result = "ok" -> heard /\ Answered("error") = {}
                 [] result = "sendfailure" -> Answered("error") = Range(errs)
                 [] OTHER -> ctxDone

(* A node is counted or blamed at most once in a call that is not streaming,
   and never both.                                                           *)
CountedOnce ==
    ~call.streaming => IsInjective(taken \o errs)

(* A watcher of a Correctable never waits for a level that was reached.      *)
WatchersNotified ==
    \A w \in Watchers : watch[w] = "open" => WatchLevel[w] > level

(* The level of a Correctable never goes down, and nothing changes once the
   call is done.  The step that completes it leaves no watcher waiting.      *)
CorrectableProgress ==
    [][/\ level' >= level
       /\ pc = "done" => UNCHANGED <<level, taken, errs, result>>
       /\ pc = "recv" /\ pc' = "done" => \A w \in Watchers : watch'[w] # "open"]_vars

\* reportNodeError can block on answers of a streaming call.
MayBlock == call.streaming /\ call.skipped \cup call.unsendable # {}

(* The method returns when the context is done, or when no node of a call that
   is not streaming has still to be sent to or to answer.  The exception is a
   node whose Enqueue blocks for ever: the wait for its sendQ, or for the local
   handler that runs, does not look at the context.                          *)
CallReturns ==
    /\ <>[](blocked # {}) \/ (ctxDone /\ ~MayBlock ~> pc = "done")
    /\ ~call.streaming /\ todo = {} /\ pending = {} ~> pc = "done"

(* The same for every call: the iterator of a streaming call ends when the
   context is canceled, if every Enqueue returns.                            *)
EndsWhenCancelled == <>[](blocked # {}) \/ (ctxDone ~> pc = "done")

=============================================================================
