-------------------------- MODULE QuorumCallProofs --------------------------
(***************************************************************************)
(* Proofs about QuorumCall, for any nodes, calls and watchers.  In a call  *)
(* that is not streaming the nodes to send to, those that may answer, the  *)
(* responses queued and the responses yielded add up to the nodes of the   *)
(* configuration; every result follows from that.                          *)
(***************************************************************************)
EXTENDS QuorumCall, FiniteSetTheorems, TLAPS

\* The prover of every leaf that names no other.
USE Zenon
\* The variables of the sending goroutine are always expanded.
USE DEF sending

Values == {"value", "garbled", "sent", "error", "skip"}

-----------------------------------------------------------------------------
(* Sets and sequences *)

\* The nodes of a call are finitely many.
LEMMA CallFacts ==
  ASSUME NEW k \in Calls
  PROVE  /\ IsFiniteSet(k.members) /\ k.members \subseteq Nodes
         /\ Cardinality(k.members) \in Nat \ {0}
         /\ k.streaming \in BOOLEAN /\ k.ignore \in BOOLEAN /\ k.threshold \in Nat
         /\ k.method \in {"Threshold", "Correctable", "Collect", "Multicast", "Unicast", "RPC"}
         /\ k.method \in {"Unicast", "RPC"} => Cardinality(k.members) = 1
  <1>1. k \in CallKinds
    BY CallAssumption
  <1>2. /\ k.members \subseteq Nodes /\ k.members # {}
        /\ k.streaming \in BOOLEAN /\ k.ignore \in BOOLEAN /\ k.threshold \in Nat
        /\ k.method \in {"Threshold", "Correctable", "Collect", "Multicast", "Unicast", "RPC"}
    <2>1. k.members \in (SUBSET Nodes) \ {{}}
      BY <1>1 DEF CallKinds
    <2>2. k.streaming \in BOOLEAN /\ k.ignore \in BOOLEAN
      BY <1>1 DEF CallKinds
    <2>3. k.threshold \in Nat
      BY <1>1 DEF CallKinds
    <2>4. k.method \in {"Threshold", "Correctable", "Collect", "Multicast", "Unicast", "RPC"}
      BY <1>1 DEF CallKinds
    <2> QED  BY <2>1, <2>2, <2>3, <2>4
  <1>3. IsFiniteSet(k.members)
    BY <1>2, CallAssumption, FS_Subset
  <1>4. Cardinality(k.members) \in Nat /\ Cardinality(k.members) # 0
    BY <1>2, <1>3, FS_CardinalityType, FS_EmptySet
  <1> QED  BY <1>2, <1>3, <1>4, CallAssumption

\* Appending adds one element, and keeps a sequence without repetitions so.
LEMMA AppendFacts ==
  ASSUME NEW S, NEW s \in Seq(S), NEW x \in S
  PROVE  /\ Append(s, x) \in Seq(S) /\ Len(Append(s, x)) = Len(s) + 1
         /\ Range(Append(s, x)) = Range(s) \cup {x}
         /\ IsInjective(s) /\ x \notin Range(s) => IsInjective(Append(s, x))
  <1>1. Append(s, x) \in Seq(S) /\ Len(Append(s, x)) = Len(s) + 1
    BY SMT
  <1>2. /\ \A i \in DOMAIN s : i \in DOMAIN Append(s, x) /\ Append(s, x)[i] = s[i]
        /\ Len(s) + 1 \in DOMAIN Append(s, x) /\ Append(s, x)[Len(s) + 1] = x
        /\ \A i \in DOMAIN Append(s, x) : i \in DOMAIN s \/ i = Len(s) + 1
    BY SMT
  <1>3. Range(Append(s, x)) = Range(s) \cup {x}
    BY <1>2 DEF Range
  <1>4. ASSUME IsInjective(s), x \notin Range(s) PROVE IsInjective(Append(s, x))
    <2>1. \A i \in DOMAIN s : s[i] # x
      BY <1>4 DEF Range
    <2> QED  BY <1>2, <1>4, <2>1 DEF IsInjective
  <1> QED  BY <1>1, <1>3, <1>4

\* Two sequences without repetitions and without common elements.
LEMMA ConcatInjective ==
  ASSUME NEW S, NEW s \in Seq(S), NEW t \in Seq(S),
         IsInjective(s), IsInjective(t), Range(s) \cap Range(t) = {}
  PROVE  IsInjective(s \o t)
  <1> DEFINE u == s \o t
  <1>1. \A i \in DOMAIN u : \/ i \in DOMAIN s /\ u[i] = s[i]
                            \/ /\ i - Len(s) \in DOMAIN t
                               /\ u[i] = t[i - Len(s)]
    BY SMT
  <1>2. \A i \in DOMAIN u : i \in Int
    BY SMT
  <1>3. \A i \in DOMAIN s, j \in DOMAIN t : s[i] # t[j]
    BY DEF Range
  <1> HIDE DEF u
  <1>4. ASSUME NEW i \in DOMAIN u, NEW j \in DOMAIN u, u[i] = u[j] PROVE i = j
    <2>1. CASE i \in DOMAIN s /\ u[i] = s[i] /\ j \in DOMAIN s /\ u[j] = s[j]
      BY <1>4, <2>1 DEF IsInjective
    <2>2. CASE /\ i - Len(s) \in DOMAIN t /\ u[i] = t[i - Len(s)]
               /\ j - Len(s) \in DOMAIN t /\ u[j] = t[j - Len(s)]
      <3>1. i - Len(s) = j - Len(s)
        BY <1>4, <2>2 DEF IsInjective
      <3>2. Len(s) \in Nat
        BY SMT
      <3> QED  BY <1>2, <3>1, <3>2, SMT
    <2> QED  BY <1>1, <1>3, <1>4, <2>1, <2>2
  <1>5. IsInjective(u)
    BY <1>4 DEF IsInjective
  <1> QED  BY <1>5 DEF u

-----------------------------------------------------------------------------
(* The parts of the inductive invariant *)

Forgets(k) == k.method \in {"Multicast", "Unicast"} /\ k.ignore

TakesOf(k, v) ==
    CASE k.method = "Threshold" -> v \in {"value", "skip"}
      [] k.method = "Correctable" -> v = "value"
      [] k.method = "Collect" -> v = "value" \/ ~k.ignore
      [] k.method = "Multicast" -> FALSE
      [] OTHER -> v # "error"

RecordsOf(k, v) ==
    CASE k.method \in {"Threshold", "Correctable"} -> ~TakesOf(k, v)
      [] k.method = "Multicast" -> v = "error"
      [] OTHER -> FALSE

Need(k) == IF k.threshold = 0 THEN 1 ELSE k.threshold

Queue == {replyChan[i].node : i \in DOMAIN replyChan}

\* A node in todo or pending has not answered; a node whose response is queued
\* has answered once, with what is queued.
Ledger ==
    /\ \A n \in Nodes : Len(answers[n]) <= 1
    /\ \A n \in todo \cup pending : answers[n] = <<>>
    /\ \A i \in DOMAIN replyChan :
          /\ replyChan[i].node \in call.members \ (todo \cup pending)
          /\ answers[replyChan[i].node] = <<replyChan[i].res>>
    /\ \A i, j \in DOMAIN replyChan : replyChan[i].node = replyChan[j].node => i = j
    /\ call.method = "Multicast" => \A n \in Nodes : answers[n] # <<"garbled">>

\* A node that is counted or blamed is so once, and nothing of it is queued.
Counted ==
    /\ Range(taken) \cup Range(errs) \subseteq call.members
    /\ \A n \in Range(taken) \cup Range(errs) : n \notin todo \cup pending \cup Queue
    /\ IsInjective(taken) /\ IsInjective(errs) /\ Range(taken) \cap Range(errs) = {}
    /\ Len(taken) = Cardinality(Range(taken))

\* What became of the response of a node that was yielded.
Collected ==
    ~Forgets(call) =>
        \A n \in call.members \ (todo \cup pending \cup Queue) :
            /\ answers[n] # <<>>
            /\ n \in Range(taken) <=> TakesOf(call, mapToCallResponse(answers[n][1]))
            /\ n \in Range(errs) <=> RecordsOf(call, mapToCallResponse(answers[n][1]))

\* Every node is somewhere.
Balance ==
    ~Forgets(call) =>
        Cardinality(todo) + Cardinality(pending) + Len(replyChan) + yielded
            = Cardinality(call.members)

\* The loop goes on only while too few responses were taken.
TooFew ==
    pc # "done" /\ call.method \in {"Threshold", "Correctable"} => Len(taken) < Need(call)

AllIn == todo = {} /\ pending = {} /\ replyChan = <<>>

\* What the goroutine of the method knew when it returned.
Outcome ==
    pc = "done" =>
        /\ call.method \in {"Threshold", "Correctable"} =>
              IF result = "ok" THEN Len(taken) >= Need(call)
              ELSE ctxDone \/ (AllIn /\ Len(taken) < Need(call))
        /\ call.method = "Collect" => Len(taken) >= call.threshold \/ AllIn \/ ctxDone
        /\ call.method = "Multicast" /\ ~call.ignore =>
              CASE result = "ok" -> AllIn /\ errs = <<>>
                [] result = "sendfailure" -> AllIn
                [] OTHER -> ctxDone

Books == Ledger /\ Counted /\ Collected /\ Balance

Accounts == ~call.streaming => Books /\ TooFew /\ Outcome

\* The watchers of a Correctable, and none of another call.
WatchState ==
    /\ call.method # "Correctable" => \A w \in Watchers : watch[w] = "none"
    /\ level <= Len(taken)

Resps == [node : Nodes, res : Values]

-----------------------------------------------------------------------------
(* Types *)

\* The capacity of the reply channel.
LEMMA CapFacts ==
  ASSUME TypeOK
  PROVE  /\ Size \in Nat \ {0} /\ ReplyCap \in Nat
         /\ ~call.streaming => ReplyCap = Size
  <1>1. Cardinality(call.members) \in Nat \ {0} /\ call.streaming \in BOOLEAN
    BY CallFacts DEF TypeOK
  <1>2. StreamFactor \in Nat
    BY CallAssumption
  <1>3. StreamFactor * Cardinality(call.members) \in Nat
    BY <1>1, <1>2, SMT
  <1> QED  BY <1>1, <1>3 DEF ReplyCap, Size

\* A send on the reply channel adds a response at its end.
LEMMA ReplyStep ==
  ASSUME TypeOK, NEW n \in Nodes, NEW v \in Values, Reply(n, v)
  PROVE  /\ replyChan' \in Seq(Resps) /\ Len(replyChan') = Len(replyChan) + 1
         /\ Len(replyChan') <= ReplyCap
         /\ answers' \in [Nodes -> Seq(Values)]
         /\ answers'[n] = Append(answers[n], v)
         /\ \A m \in Nodes \ {n} : answers'[m] = answers[m]
         /\ DOMAIN replyChan' = DOMAIN replyChan \cup {Len(replyChan) + 1}
         /\ Len(replyChan) + 1 \notin DOMAIN replyChan
         /\ \A i \in DOMAIN replyChan : replyChan'[i] = replyChan[i]
         /\ replyChan'[Len(replyChan) + 1].node = n
         /\ replyChan'[Len(replyChan) + 1].res = v
  <1>1. PICK r : r = Response(n, v)
    OBVIOUS
  <1>2. r \in Resps /\ r.node = n /\ r.res = v
    BY <1>1 DEF Response, Resps
  <1>3. /\ replyChan \in Seq(Resps) /\ replyChan' = Append(replyChan, r)
        /\ Len(replyChan) < ReplyCap
    BY <1>1 DEF Reply, ReplyHasRoom, TypeOK, Resps, Values
  <1>4. /\ replyChan' \in Seq(Resps) /\ Len(replyChan') = Len(replyChan) + 1
        /\ replyChan'[Len(replyChan) + 1] = r
        /\ DOMAIN replyChan' = DOMAIN replyChan \cup {Len(replyChan) + 1}
        /\ Len(replyChan) + 1 \notin DOMAIN replyChan
    BY <1>2, <1>3, SMT
  <1>5. \A i \in DOMAIN replyChan : replyChan'[i] = replyChan[i]
    BY <1>2, <1>3, SMT
  <1>6. Len(replyChan') <= ReplyCap
    <2>1. Len(replyChan) \in Nat
      BY <1>3, SMT
    <2> QED  BY <1>3, <1>4, <2>1, CapFacts, SMT
  <1>7. /\ answers \in [Nodes -> Seq(Values)]
        /\ answers' = [answers EXCEPT ![n] = Append(answers[n], v)]
    BY DEF Reply, TypeOK, Values
  <1>8. Append(answers[n], v) \in Seq(Values)
    BY <1>7, SMT
  <1>9. /\ answers' \in [Nodes -> Seq(Values)] /\ answers'[n] = Append(answers[n], v)
        /\ \A m \in Nodes \ {n} : answers'[m] = answers[m]
    BY <1>7, <1>8
  <1> QED  BY <1>2, <1>4, <1>5, <1>6, <1>9

\* Taking the first response.
LEMMA TailFacts ==
  ASSUME NEW S, NEW s \in Seq(S), s # <<>>
  PROVE  /\ Head(s) \in S /\ Head(s) = s[1] /\ 1 \in DOMAIN s
         /\ Tail(s) \in Seq(S) /\ Len(Tail(s)) = Len(s) - 1 /\ Len(s) \in Nat \ {0}
         /\ \A i \in DOMAIN Tail(s) : i \in Nat \ {0} /\ i + 1 \in DOMAIN s /\ Tail(s)[i] = s[i + 1]
         /\ \A i \in DOMAIN s : i \in Nat /\ (i # 1 => i - 1 \in DOMAIN Tail(s))
  BY SMT

\* update closes channels that are open, and no others.
LEMMA UpdateFacts ==
  ASSUME TypeOK, NEW l \in Nat, NEW d \in BOOLEAN, update(l, d)
  PROVE  /\ level' = l /\ watch' \in [Watchers -> {"none", "open", "closed"}]
         /\ \A w \in Watchers : watch'[w] = "open" => ~d /\ WatchLevel[w] > l
  <1>1. \A w \in Watchers : WatchLevel[w] \in Nat
    BY CallAssumption
  <1>2. \A w \in Watchers : watch[w] \in {"none", "open", "closed"}
    BY DEF TypeOK
  <1>3. \A w \in Watchers : watch'[w] =
             IF watch[w] = "open" /\ (d \/ WatchLevel[w] <= l) THEN "closed" ELSE watch[w]
    BY DEF update, Reached
  <1>4. watch' \in [Watchers -> {"none", "open", "closed"}]
    BY <1>2 DEF update
  <1>5. \A w \in Watchers : watch'[w] = "open" => ~d /\ ~(WatchLevel[w] <= l)
    BY <1>2, <1>3
  <1> QED  BY <1>1, <1>4, <1>5, SMT DEF update

\* Recv in terms of the response it takes.
Collects(r) ==
    LET v == mapToCallResponse(r.res)
        t == IF Takes(v) THEN Append(taken, r.node) ELSE taken
        stop == Enough(t) /\ (Takes(v) \/ Single)
    IN /\ taken' = t
       /\ errs' = IF Records(v) THEN Append(errs, r.node) ELSE errs
       /\ pc' = IF stop THEN "done" ELSE "recv"
       /\ result' = IF stop THEN (IF Single /\ v = "error" THEN "error" ELSE "ok") ELSE result
       /\ IF call.method = "Correctable" /\ Takes(v) THEN update(Len(t), stop)
          ELSE UNCHANGED <<level, watch>>

\* What Recv does to the sequences.
LEMMA RecvStep ==
  ASSUME TypeOK, Recv
  PROVE  /\ Head(replyChan) \in Resps /\ Collects(Head(replyChan))
         /\ replyChan \in Seq(Resps) /\ replyChan # <<>> /\ replyChan' = Tail(replyChan)
         /\ taken' \in Seq(Nodes) /\ errs' \in Seq(Nodes)
         /\ level' \in {LevelNotSet} \cup Nat
         /\ watch' \in [Watchers -> {"none", "open", "closed"}]
         /\ pc' \in {"recv", "done"}
         /\ result' \in {"none", "ok", "error", "incomplete", "sendfailure", "ctx"}
  <1>1. replyChan \in Seq(Resps) /\ replyChan # <<>> /\ replyChan' = Tail(replyChan)
    BY DEF TypeOK, Resps, Values, Recv
  <1>2. Head(replyChan) \in Resps
    BY <1>1, TailFacts
  <1>3. PICK r \in Resps : r = Head(replyChan) /\ Collects(r)
    BY <1>2 DEF Recv, Collects
  <1>4. r.node \in Nodes
    BY DEF Resps
  <1>5. taken \in Seq(Nodes) /\ errs \in Seq(Nodes)
    BY DEF TypeOK
  <1>6. Append(taken, r.node) \in Seq(Nodes) /\ Append(errs, r.node) \in Seq(Nodes)
    BY <1>4, <1>5, SMT
  <1>7. taken' \in Seq(Nodes) /\ errs' \in Seq(Nodes)
    BY <1>3, <1>5, <1>6 DEF Collects
  <1>8. pc' \in {"recv", "done"}
    BY <1>3 DEF Collects
  <1>9. result' \in {"none", "ok", "error", "incomplete", "sendfailure", "ctx"}
    BY <1>3 DEF Collects, TypeOK
  <1>10. /\ level' \in {LevelNotSet} \cup Nat
         /\ watch' \in [Watchers -> {"none", "open", "closed"}]
    <2>1. CASE UNCHANGED <<level, watch>>
      BY <2>1 DEF TypeOK
    <2>2. CASE ~UNCHANGED <<level, watch>>
      <3>1. PICK d \in BOOLEAN : update(Len(taken'), d)
        BY <1>3, <2>2 DEF Collects
      <3>2. Len(taken') \in Nat
        BY <1>7, SMT
      <3> QED  BY <3>1, <3>2, UpdateFacts
    <2> QED  BY <2>1, <2>2
  <1> QED  BY <1>1, <1>2, <1>3, <1>7, <1>8, <1>9, <1>10

\* TypeOK is inductive.
LEMMA TypeInit == Init => TypeOK
  <1> SUFFICES ASSUME Init PROVE TypeOK
    OBVIOUS
  <1>1. call \in Calls
    BY DEF Init
  <1>2. Cardinality(call.members) \in Nat
    BY <1>1, CallFacts
  <1>3. /\ answers \in [Nodes -> Seq(Values)]
        /\ replyChan \in Seq(Resps) /\ Len(replyChan) = 0
        /\ taken \in Seq(Nodes) /\ errs \in Seq(Nodes)
    BY SMT DEF Init
  <1>4. ReplyCap \in Nat
    BY <1>2, CallAssumption, SMT DEF ReplyCap, Size
  <1>5. Len(replyChan) <= ReplyCap /\ yielded \in 0..Size
    BY <1>2, <1>3, <1>4, SMT DEF Init, Size
  <1>6. todo \subseteq call.members /\ pending \subseteq call.members \ todo
    BY DEF Init
  <1>7. watch \in [Watchers -> {"none", "open", "closed"}] /\ level \in {LevelNotSet} \cup Nat
    BY DEF Init
  <1> QED  BY <1>1, <1>3, <1>5, <1>6, <1>7 DEF Init, TypeOK, Values, Resps

\* Every step keeps the types.
LEMMA TypeStep == TypeOK /\ [Next]_vars => TypeOK'
  <1> SUFFICES ASSUME TypeOK, [Next]_vars PROVE TypeOK'
    OBVIOUS
  <1>0. /\ call' = call => ReplyCap' = ReplyCap /\ Size' = Size
        /\ todo \subseteq call.members /\ call.members \subseteq Nodes
        /\ pending \subseteq call.members
    BY CallFacts DEF ReplyCap, Size, TypeOK
  <1>1. ASSUME NEW n \in Nodes, SendTo(n) PROVE TypeOK'
    <2>1. call' = call /\ todo' \subseteq call.members
      BY <1>0, <1>1 DEF SendTo, HandOver
    <2>2. /\ pending' \subseteq call.members \ todo'
          /\ blocked' \subseteq todo' /\ expired' \subseteq call.members
      BY <1>0, <1>1 DEF SendTo, HandOver, TypeOK
    <2>3. \/ UNCHANGED <<answers, replyChan>>
          \/ \E v \in Values : Reply(n, v)
      BY <1>1 DEF SendTo, SkipNode, reportNodeError, Values
    <2>4. /\ answers' \in [Nodes -> Seq(Values)] /\ replyChan' \in Seq(Resps)
          /\ Len(replyChan') <= ReplyCap
      <3>1. CASE UNCHANGED <<answers, replyChan>>
        BY <3>1 DEF TypeOK, Values, Resps
      <3> QED  BY <2>3, <3>1, ReplyStep
    <2> QED  BY <1>0, <1>1, <2>1, <2>2, <2>4 DEF SendTo, TypeOK, Values, Resps
  <1>11. ASSUME NEW n \in Nodes, Unblocked(n) PROVE TypeOK'
    <2>1. /\ call' = call /\ todo' \subseteq call.members
          /\ pending' \subseteq call.members \ todo'
          /\ blocked' \subseteq todo' /\ expired' \subseteq call.members
      BY <1>0, <1>11 DEF Unblocked, HandOver, TypeOK
    <2> QED  BY <1>0, <1>11, <2>1 DEF Unblocked, TypeOK
  <1>2. CASE MarshalFails
    BY <1>0, <1>2 DEF MarshalFails, TypeOK
  <1>3. CASE Sent
    BY <1>0, <1>3 DEF Sent, TypeOK
  <1>4. ASSUME NEW n \in Nodes, NodeAnswers(n) PROVE TypeOK'
    <2>1. call' = call /\ todo' = todo /\ pending' \subseteq pending
      BY <1>4 DEF NodeAnswers
    <2>2. \E v \in Values : Reply(n, v)
      BY <1>4 DEF NodeAnswers, Values
    <2>3. /\ answers' \in [Nodes -> Seq(Values)] /\ replyChan' \in Seq(Resps)
          /\ Len(replyChan') <= ReplyCap
      BY <2>2, ReplyStep
    <2> QED  BY <1>0, <1>4, <2>1, <2>3 DEF NodeAnswers, TypeOK, Values, Resps
  <1>5. ASSUME NEW n \in Nodes, AnswerDropped(n) PROVE TypeOK'
    BY <1>0, <1>5 DEF AnswerDropped, TypeOK
  <1>6. CASE Cancel
    BY <1>0, <1>6 DEF Cancel, TypeOK
  <1>7. CASE Recv
    <2>1. /\ replyChan \in Seq(Resps) /\ replyChan # <<>> /\ replyChan' = Tail(replyChan)
          /\ taken' \in Seq(Nodes) /\ errs' \in Seq(Nodes)
          /\ level' \in {LevelNotSet} \cup Nat
          /\ watch' \in [Watchers -> {"none", "open", "closed"}]
          /\ pc' \in {"send", "recv", "done"}
          /\ result' \in {"none", "ok", "error", "incomplete", "sendfailure", "ctx"}
      BY <1>7, RecvStep
    <2>2. replyChan' \in Seq(Resps) /\ Len(replyChan') <= ReplyCap
      BY <2>1, TailFacts, CapFacts, SMT DEF TypeOK
    <2>3. yielded' \in 0..Size
      BY <1>7, CapFacts, SMT DEF Recv, TypeOK
    <2> QED  BY <1>0, <1>7, <2>1, <2>2, <2>3 DEF Recv, TypeOK, Values, Resps
  <1>8. CASE Exhausted
    <2>1. level' \in {LevelNotSet} \cup Nat /\ watch' \in [Watchers -> {"none", "open", "closed"}]
      <3>1. CASE UNCHANGED <<level, watch>>
        BY <3>1 DEF TypeOK
      <3>2. CASE update(Len(taken), TRUE)
        <4>1. Len(taken) \in Nat
          BY SMT DEF TypeOK
        <4> QED  BY <3>2, <4>1, UpdateFacts
      <3> QED  BY <1>8, <3>1, <3>2 DEF Exhausted
    <2>2. result' \in {"none", "ok", "error", "incomplete", "sendfailure", "ctx"}
      BY <1>8 DEF Exhausted
    <2> QED  BY <1>0, <1>8, <2>1, <2>2 DEF Exhausted, TypeOK
  <1>9. ASSUME NEW w \in Watchers, Watch(w) PROVE TypeOK'
    <2>1. watch' \in [Watchers -> {"none", "open", "closed"}]
      BY <1>9 DEF Watch, TypeOK
    <2> QED  BY <1>0, <1>9, <2>1 DEF Watch, TypeOK
  <1>10. CASE UNCHANGED vars
    BY <1>0, <1>10 DEF vars, TypeOK
  <1> QED  BY <1>1, <1>2, <1>3, <1>4, <1>5, <1>6, <1>7, <1>8, <1>9, <1>10, <1>11 DEF Next, Terminal

-----------------------------------------------------------------------------
(* The books are kept *)

\* The sets that Balance counts.
LEMMA SetFacts ==
  ASSUME TypeOK
  PROVE  /\ IsFiniteSet(todo) /\ IsFiniteSet(pending)
         /\ Cardinality(todo) \in Nat /\ Cardinality(pending) \in Nat
         /\ \A n \in todo : Cardinality(todo \ {n}) = Cardinality(todo) - 1
         /\ \A n \in pending : Cardinality(pending \ {n}) = Cardinality(pending) - 1
         /\ \A n \in todo : Cardinality(pending \cup {n}) = Cardinality(pending) + 1
         /\ Len(replyChan) \in Nat /\ yielded \in Nat /\ Size \in Nat
         /\ call.members \subseteq Nodes
         /\ \A n \in todo : n \notin pending
  <1>1. IsFiniteSet(call.members) /\ call.members \subseteq Nodes
    BY CallFacts DEF TypeOK
  <1>2. todo \subseteq call.members /\ pending \subseteq call.members \ todo
    BY DEF TypeOK
  <1>3. IsFiniteSet(todo) /\ IsFiniteSet(pending)
    BY <1>1, <1>2, FS_Subset
  <1>4. Cardinality(todo) \in Nat /\ Cardinality(pending) \in Nat
    BY <1>3, FS_CardinalityType
  <1>5. /\ \A n \in todo : Cardinality(todo \ {n}) = Cardinality(todo) - 1
        /\ \A n \in pending : Cardinality(pending \ {n}) = Cardinality(pending) - 1
    BY <1>3, FS_RemoveElement
  <1>6. \A n \in todo : Cardinality(pending \cup {n}) = Cardinality(pending) + 1
    BY <1>2, <1>3, FS_AddElement
  <1>7. Len(replyChan) \in Nat
    BY SMT DEF TypeOK
  <1>8. yielded \in Nat /\ Size \in Nat
    BY CapFacts, SMT DEF TypeOK
  <1> QED  BY <1>1, <1>2, <1>3, <1>4, <1>5, <1>6, <1>7, <1>8

\* A node that has not answered answers or is reported.
LEMMA ReplyBooks ==
  ASSUME TypeOK, Books, NEW n \in todo \cup pending, NEW v \in Values,
         v = "garbled" => call.method # "Multicast",
         Reply(n, v), todo' = todo \ {n}, pending' = pending \ {n},
         UNCHANGED <<call, yielded, taken, errs>>
  PROVE  Books'
  <1>1. n \in Nodes /\ n \in call.members /\ call.members \subseteq Nodes
    BY SetFacts DEF TypeOK
  <1> DEFINE k == Len(replyChan) + 1
  <1>2. /\ Len(replyChan') = k
        /\ answers'[n] = Append(answers[n], v)
        /\ \A m \in Nodes \ {n} : answers'[m] = answers[m]
        /\ DOMAIN replyChan' = DOMAIN replyChan \cup {k}
        /\ k \notin DOMAIN replyChan
        /\ \A i \in DOMAIN replyChan : replyChan'[i] = replyChan[i]
        /\ replyChan'[k].node = n /\ replyChan'[k].res = v
    BY <1>1, ReplyStep
  <1>3. answers[n] = <<>>
    BY DEF Books, Ledger
  <1>4. answers'[n] = <<v>> /\ Len(answers'[n]) = 1 /\ answers'[n] # <<>>
    BY <1>2, <1>3, SMT
  <1>5. Len(replyChan) \in Nat
    BY SetFacts
  <1>6. \A i \in DOMAIN replyChan : replyChan[i].node # n /\ replyChan[i].node \in Nodes
    BY <1>1 DEF Books, Ledger
  <1> HIDE DEF k
  <1>7. Queue' = Queue \cup {n}
    BY <1>2, SMT DEF Queue
  <1>8. todo' \cup pending' \cup Queue' = todo \cup pending \cup Queue
    BY <1>7
  <1>9. Ledger'
    <2>1. ASSUME NEW m \in Nodes PROVE Len(answers'[m]) <= 1
      <3>1. CASE m = n
        BY <3>1, <1>4, SMT
      <3>2. CASE m # n
        BY <3>2, <1>2 DEF Books, Ledger
      <3> QED  BY <3>1, <3>2
    <2>2. \A m \in todo' \cup pending' : answers'[m] = <<>>
      BY <1>1, <1>2 DEF Books, Ledger, TypeOK
    <2>3. ASSUME NEW i \in DOMAIN replyChan'
          PROVE  /\ replyChan'[i].node \in call'.members \ (todo' \cup pending')
                 /\ answers'[replyChan'[i].node] = <<replyChan'[i].res>>
      <3>1. CASE i = k
        BY <3>1, <1>1, <1>2, <1>4
      <3>2. CASE i \in DOMAIN replyChan
        <4>1. /\ replyChan[i].node \in call.members \ (todo \cup pending)
              /\ answers[replyChan[i].node] = <<replyChan[i].res>>
          BY <3>2 DEF Books, Ledger
        <4>2. replyChan'[i] = replyChan[i] /\ replyChan[i].node \in Nodes \ {n}
          BY <3>2, <1>2, <1>6
        <4>3. answers'[replyChan[i].node] = answers[replyChan[i].node]
          BY <1>2, <4>2
        <4> QED  BY <4>1, <4>2, <4>3
      <3> QED  BY <2>3, <3>1, <3>2, <1>2
    <2>4. \A i, j \in DOMAIN replyChan' : replyChan'[i].node = replyChan'[j].node => i = j
      BY <1>2, <1>6 DEF Books, Ledger
    <2>5. call'.method = "Multicast" => \A m \in Nodes : answers'[m] # <<"garbled">>
      BY <1>2, <1>4, SMT DEF Books, Ledger
    <2> QED  BY <2>1, <2>2, <2>3, <2>4, <2>5 DEF Ledger
  <1>10. Counted'
    BY <1>8 DEF Books, Counted
  <1>11. Collected'
    <2> SUFFICES ASSUME ~Forgets(call), NEW m \in call.members \ (todo \cup pending \cup Queue)
                 PROVE  /\ answers'[m] # <<>>
                        /\ m \in Range(taken) <=> TakesOf(call, mapToCallResponse(answers'[m][1]))
                        /\ m \in Range(errs) <=> RecordsOf(call, mapToCallResponse(answers'[m][1]))
      BY <1>8 DEF Collected
    <2>1. answers'[m] = answers[m]
      BY <1>1, <1>2
    <2> QED  BY <2>1 DEF Books, Collected
  <1>12. Balance'
    <2>1. /\ Cardinality(todo) \in Nat /\ Cardinality(pending) \in Nat
          /\ Len(replyChan) \in Nat /\ yielded \in Nat
      BY SetFacts
    <2>2. Len(replyChan') = Len(replyChan) + 1
      BY <1>2 DEF k
    <2>3. Cardinality(todo') + Cardinality(pending') = Cardinality(todo) + Cardinality(pending) - 1
      <3>1. CASE n \in todo
        <4>1. pending' = pending /\ todo' = todo \ {n}
          BY <3>1, SetFacts
        <4>2. Cardinality(todo') = Cardinality(todo) - 1 /\ Cardinality(pending') = Cardinality(pending)
          BY <3>1, <4>1, SetFacts
        <4> QED  BY <2>1, <4>2, SMT
      <3>2. CASE n \in pending
        <4>1. todo' = todo /\ pending' = pending \ {n}
          BY <3>2, SetFacts
        <4>2. Cardinality(pending') = Cardinality(pending) - 1 /\ Cardinality(todo') = Cardinality(todo)
          BY <3>2, <4>1, SetFacts
        <4> QED  BY <2>1, <4>2
      <3> QED  BY <3>1, <3>2
    <2>4. \/ Forgets(call)
          \/ Cardinality(todo) + Cardinality(pending) + Len(replyChan) + yielded
                = Cardinality(call.members)
      BY DEF Books, Balance
    <2>5. Cardinality(todo') + Cardinality(pending') + Len(replyChan') + yielded'
            = Cardinality(todo) + Cardinality(pending) + Len(replyChan) + yielded
      BY <2>1, <2>2, <2>3, SMT
    <2> QED  BY <2>4, <2>5 DEF Balance
  <1> QED  BY <1>9, <1>10, <1>11, <1>12 DEF Books

\* A request is given to a channel, or forgotten.
LEMMA SendBooks ==
  ASSUME TypeOK, Books, NEW n \in todo, todo' = todo \ {n},
         pending' = IF FireAndForget THEN pending ELSE pending \cup {n},
         UNCHANGED <<call, answers, replyChan, yielded, taken, errs>>
  PROVE  Books'
  <1>1. Queue' = Queue /\ (FireAndForget <=> Forgets(call)) /\ n \notin pending
    BY SetFacts DEF Queue, FireAndForget, OneWayCall, Forgets
  <1>2. CASE Forgets(call)
    <2>1. todo' \cup pending' \subseteq todo \cup pending
      BY <1>1, <1>2
    <2>2. Ledger'
      BY <2>1 DEF Books, Ledger
    <2>3. Counted'
      BY <1>1, <2>1 DEF Books, Counted
    <2> QED  BY <1>2, <2>2, <2>3 DEF Books, Collected, Balance
  <1>3. CASE ~Forgets(call)
    <2>1. todo' \cup pending' = todo \cup pending /\ pending' = pending \cup {n}
      BY <1>1, <1>3
    <2>2. Ledger'
      BY <2>1 DEF Books, Ledger
    <2>3. Counted'
      BY <1>1, <2>1 DEF Books, Counted
    <2>4. Collected'
      BY <1>1, <2>1 DEF Books, Collected
    <2>5. Balance'
      <3>1. Cardinality(todo') = Cardinality(todo) - 1 /\ Cardinality(pending') = Cardinality(pending) + 1
        BY <2>1, SetFacts
      <3> QED  BY <3>1, SetFacts, SMT DEF Books, Balance, Size
    <2> QED  BY <2>2, <2>3, <2>4, <2>5 DEF Books
  <1> QED  BY <1>2, <1>3

\* Steps that leave the books alone.
LEMMA StillBooks ==
  ASSUME Books, UNCHANGED <<call, todo, pending, answers, replyChan, yielded, taken, errs>>
  PROVE  Books'
  <1>1. Queue' = Queue
    BY DEF Queue
  <1>2. Ledger'
    BY DEF Books, Ledger
  <1>3. Counted'
    BY <1>1 DEF Books, Counted
  <1>4. Collected'
    BY <1>1 DEF Books, Collected
  <1>5. Balance'
    BY DEF Books, Balance
  <1> QED  BY <1>2, <1>3, <1>4, <1>5 DEF Books

\* What a method counts it does not record.
LEMMA TakesIs ==
  /\ \A v : (Takes(v) <=> TakesOf(call, v)) /\ (Records(v) <=> RecordsOf(call, v))
  /\ \A v : ~(TakesOf(call, v) /\ RecordsOf(call, v))
  <1>1. \A v : Takes(v) <=> TakesOf(call, v)
    BY DEF Takes, TakesOf
  <1>2. \A v : Records(v) <=> RecordsOf(call, v)
    BY <1>1 DEF Records, RecordsOf
  <1>3. \A v : ~(TakesOf(call, v) /\ RecordsOf(call, v))
    BY DEF TakesOf, RecordsOf
  <1> QED  BY <1>1, <1>2, <1>3

\* Recv enters one response.
LEMMA RecvBooks ==
  ASSUME TypeOK, Books, ~call.streaming, Recv
  PROVE  Books'
  <1>1. PICK r \in Resps : r = Head(replyChan) /\ Collects(r)
    BY RecvStep
  <1>2. /\ replyChan \in Seq(Resps) /\ replyChan # <<>> /\ replyChan' = Tail(replyChan)
        /\ UNCHANGED <<call, todo, pending, answers>> /\ yielded' = yielded + 1
    BY RecvStep DEF Recv
  <1>3. /\ r = replyChan[1] /\ 1 \in DOMAIN replyChan
        /\ Len(replyChan') = Len(replyChan) - 1 /\ Len(replyChan) \in Nat \ {0}
        /\ \A i \in DOMAIN replyChan' :
              i \in Nat \ {0} /\ i + 1 \in DOMAIN replyChan /\ replyChan'[i] = replyChan[i + 1]
        /\ \A i \in DOMAIN replyChan : i \in Nat /\ (i # 1 => i - 1 \in DOMAIN replyChan')
    BY <1>1, <1>2, TailFacts, SMT
  <1>4. /\ r.node \in call.members \ (todo \cup pending) /\ answers[r.node] = <<r.res>>
        /\ r.node \in Queue /\ r.node \in Nodes
    BY <1>3 DEF Books, Ledger, Queue, Resps
  <1>5. \A i \in DOMAIN replyChan' : replyChan'[i].node # r.node /\ replyChan'[i].node \in Queue
    <2> SUFFICES ASSUME NEW i \in DOMAIN replyChan'
                 PROVE  replyChan'[i].node # r.node /\ replyChan'[i].node \in Queue
      OBVIOUS
    <2>1. i + 1 \in DOMAIN replyChan /\ i + 1 # 1 /\ replyChan'[i] = replyChan[i + 1]
      BY <1>3, SMT
    <2> QED  BY <1>3, <2>1 DEF Books, Ledger, Queue
  <1>6. Queue' = Queue \ {r.node}
    <2>1. \A i \in DOMAIN replyChan : i # 1 => replyChan[i] = replyChan'[i - 1] /\ i - 1 \in DOMAIN replyChan'
      <3> SUFFICES ASSUME NEW i \in DOMAIN replyChan, i # 1
                   PROVE  replyChan[i] = replyChan'[i - 1] /\ i - 1 \in DOMAIN replyChan'
        OBVIOUS
      <3>1. i \in Nat /\ i - 1 \in DOMAIN replyChan'
        BY <1>3
      <3>2. (i - 1) + 1 = i
        BY <3>1, SMT
      <3> QED  BY <1>3, <3>1, <3>2
    <2>2. \A m \in Queue \ {r.node} : m \in Queue'
      BY <1>3, <2>1, SMT DEF Queue
    <2>3. \A m \in Queue' : m \in Queue \ {r.node}
      BY <1>5 DEF Queue
    <2> QED  BY <2>2, <2>3
  <1>7. r.node \notin Range(taken) /\ r.node \notin Range(errs)
    BY <1>4 DEF Books, Counted
  <1>8. PICK v : v = mapToCallResponse(r.res)
    OBVIOUS
  <1>9. /\ taken' = IF TakesOf(call, v) THEN Append(taken, r.node) ELSE taken
        /\ errs' = IF RecordsOf(call, v) THEN Append(errs, r.node) ELSE errs
    BY <1>1, <1>8, TakesIs DEF Collects
  <1>10. taken \in Seq(Nodes) /\ errs \in Seq(Nodes)
    BY DEF TypeOK
  <1>11. /\ Range(taken') = IF TakesOf(call, v) THEN Range(taken) \cup {r.node} ELSE Range(taken)
         /\ Range(errs') = IF RecordsOf(call, v) THEN Range(errs) \cup {r.node} ELSE Range(errs)
    <2>1. /\ Range(Append(taken, r.node)) = Range(taken) \cup {r.node}
          /\ Range(Append(errs, r.node)) = Range(errs) \cup {r.node}
      BY <1>4, <1>10, AppendFacts, SMT
    <2> QED  BY <1>9, <2>1
  <1>12. Ledger'
    <2>1. \A i \in DOMAIN replyChan' :
             /\ replyChan'[i].node \in call.members \ (todo \cup pending)
             /\ answers[replyChan'[i].node] = <<replyChan'[i].res>>
      <3> SUFFICES ASSUME NEW i \in DOMAIN replyChan'
                   PROVE  /\ replyChan'[i].node \in call.members \ (todo \cup pending)
                          /\ answers[replyChan'[i].node] = <<replyChan'[i].res>>
        OBVIOUS
      <3>1. PICK j \in DOMAIN replyChan : replyChan'[i] = replyChan[j]
        BY <1>3
      <3> QED  BY <3>1 DEF Books, Ledger
    <2>2. ASSUME NEW i \in DOMAIN replyChan', NEW j \in DOMAIN replyChan',
                 replyChan'[i].node = replyChan'[j].node
          PROVE  i = j
      <3>1. /\ i + 1 \in DOMAIN replyChan /\ j + 1 \in DOMAIN replyChan /\ i \in Nat /\ j \in Nat
            /\ replyChan[i + 1].node = replyChan[j + 1].node
        BY <1>3, <2>2
      <3>2. i + 1 = j + 1
        BY <3>1 DEF Books, Ledger
      <3> QED  BY <3>1, <3>2, SMT
    <2> QED  BY <1>2, <2>1, <2>2 DEF Books, Ledger
  <1>13. Counted'
    <2>1. /\ Range(taken') \cup Range(errs') \subseteq call.members
          /\ \A n \in Range(taken') \cup Range(errs') : n \notin todo \cup pending \cup Queue'
      BY <1>4, <1>6, <1>11 DEF Books, Counted
    <2>2. IsInjective(taken') /\ IsInjective(errs')
      BY <1>4, <1>7, <1>9, <1>10, AppendFacts DEF Books, Counted
    <2>3. \A n \in Range(taken') : n \notin Range(errs')
      BY <1>7, <1>11, TakesIs DEF Books, Counted
    <2>4. Len(taken') = Cardinality(Range(taken'))
      <3>1. IsFiniteSet(call.members) /\ Range(taken) \subseteq call.members
        BY CallFacts DEF Books, Counted, TypeOK
      <3>2. IsFiniteSet(Range(taken))
        BY <3>1, FS_Subset
      <3>3. Cardinality(Range(taken) \cup {r.node}) = Cardinality(Range(taken)) + 1
        BY <1>7, <3>2, FS_AddElement
      <3>4. Len(taken') = IF TakesOf(call, v) THEN Len(taken) + 1 ELSE Len(taken)
        BY <1>4, <1>9, <1>10, AppendFacts
      <3>5. Len(taken) = Cardinality(Range(taken))
        BY DEF Books, Counted
      <3> QED  BY <1>11, <3>3, <3>4, <3>5
    <2> QED  BY <1>2, <2>1, <2>2, <2>3, <2>4 DEF Counted
  <1>14. Collected'
    <2> SUFFICES ASSUME ~Forgets(call), NEW m \in call.members \ (todo \cup pending \cup Queue')
                 PROVE  /\ answers[m] # <<>>
                        /\ m \in Range(taken') <=> TakesOf(call, mapToCallResponse(answers[m][1]))
                        /\ m \in Range(errs') <=> RecordsOf(call, mapToCallResponse(answers[m][1]))
      BY <1>2 DEF Collected
    <2>1. CASE m = r.node
      <3>1. answers[m] # <<>> /\ answers[m][1] = r.res
        BY <1>4, <2>1, SMT
      <3> QED  BY <1>7, <1>8, <1>11, <2>1, <3>1
    <2>2. CASE m # r.node
      <3>1. m \in call.members \ (todo \cup pending \cup Queue)
        BY <1>6, <2>2
      <3>2. (m \in Range(taken') <=> m \in Range(taken)) /\ (m \in Range(errs') <=> m \in Range(errs))
        BY <1>11, <2>2
      <3> QED  BY <3>1, <3>2 DEF Books, Collected
    <2> QED  BY <2>1, <2>2
  <1>15. Balance'
    <2>1. Len(replyChan') + yielded' = Len(replyChan) + yielded
      BY <1>2, <1>3, SetFacts, SMT
    <2>2. Cardinality(todo) \in Nat /\ Cardinality(pending) \in Nat /\ Len(replyChan) \in Nat
          /\ yielded \in Nat /\ Len(replyChan') \in Int /\ yielded' \in Nat
      BY <1>2, <1>3, SetFacts, SMT
    <2>3. \/ Forgets(call)
          \/ Cardinality(todo) + Cardinality(pending) + Len(replyChan) + yielded
                = Cardinality(call.members)
      BY DEF Books, Balance
    <2>4. Cardinality(todo) + Cardinality(pending) + Len(replyChan') + yielded'
            = Cardinality(todo) + Cardinality(pending) + Len(replyChan) + yielded
      BY <2>1, <2>2, SMTT(60)
    <2> QED  BY <1>2, <2>3, <2>4 DEF Balance
  <1> QED  BY <1>12, <1>13, <1>14, <1>15 DEF Books

-----------------------------------------------------------------------------
(* What the method knows when it returns *)

\* When every response was yielded, no node is left.
LEMMA AllYieldedIn ==
  ASSUME TypeOK, Books, AllYielded, ~Forgets(call)
  PROVE  AllIn
  <1>1. /\ Cardinality(todo) \in Nat /\ Cardinality(pending) \in Nat
        /\ Len(replyChan) \in Nat /\ yielded \in Nat /\ Cardinality(call.members) \in Nat
        /\ IsFiniteSet(todo) /\ IsFiniteSet(pending)
    BY SetFacts DEF Size
  <1>2. yielded >= Cardinality(call.members)
    BY DEF AllYielded, Size
  <1>3. Cardinality(todo) + Cardinality(pending) + Len(replyChan) + yielded
          = Cardinality(call.members)
    BY DEF Books, Balance
  <1>4. Cardinality(todo) = 0 /\ Cardinality(pending) = 0 /\ Len(replyChan) = 0
    BY <1>1, <1>2, <1>3, SMT
  <1>5. todo = {} /\ pending = {}
    BY <1>1, <1>4, FS_EmptySet
  <1>6. replyChan = <<>>
    BY <1>4, SMT DEF TypeOK
  <1> QED  BY <1>5, <1>6 DEF AllIn

\* A pending node finds room on the reply channel.
LEMMA RoomWhilePending ==
  ASSUME TypeOK, Books, ~call.streaming, ~Forgets(call), pending # {}
  PROVE  ReplyHasRoom
  <1>1. /\ Cardinality(todo) \in Nat /\ Cardinality(pending) \in Nat
        /\ Len(replyChan) \in Nat /\ yielded \in Nat /\ IsFiniteSet(pending)
    BY SetFacts
  <1>2. Cardinality(pending) # 0
    BY <1>1, FS_EmptySet
  <1>3. Cardinality(todo) + Cardinality(pending) + Len(replyChan) + yielded = Size
    BY DEF Books, Balance, Size
  <1>4. Size \in Nat /\ ReplyCap = Size
    BY CapFacts
  <1> QED  BY <1>1, <1>2, <1>3, <1>4, SMT DEF ReplyHasRoom

\* The result of Recv.
LEMMA RecvOutcome ==
  ASSUME TypeOK, Books, Books', TooFew, ~call.streaming, Recv
  PROVE  TooFew' /\ Outcome'
  <1>1. PICK r \in Resps : Collects(r)
    BY RecvStep
  <1>2. call' = call /\ pc = "recv"
    BY DEF Recv
  <1>3. PICK v : v = mapToCallResponse(r.res)
    OBVIOUS
  <1>4. PICK t : t = IF Takes(v) THEN Append(taken, r.node) ELSE taken
    OBVIOUS
  <1>5. PICK stop \in BOOLEAN : stop = (Enough(t) /\ (Takes(v) \/ Single))
    OBVIOUS
  <1>6. /\ taken' = t /\ pc' = IF stop THEN "done" ELSE "recv"
        /\ stop => result' = IF Single /\ v = "error" THEN "error" ELSE "ok"
    BY <1>1, <1>3, <1>4, <1>5 DEF Collects
  <1>7. call.threshold \in Nat
    BY CallFacts DEF TypeOK
  <1>8. Len(t) \in Nat /\ Len(taken) \in Nat /\ (Takes(v) => Len(t) = Len(taken) + 1)
    <2>1. taken \in Seq(Nodes) /\ r.node \in Nodes
      BY DEF TypeOK, Resps
    <2> QED  BY <1>4, <2>1, SMT
  <1>9. CASE call.method \in {"Threshold", "Correctable"}
    <2>1. ~Single /\ (Enough(t) <=> Len(t) >= call.threshold)
      BY <1>9 DEF Single, Enough
    <2>2. CASE Takes(v)
      <3>1. stop <=> Len(t) >= call.threshold
        BY <1>5, <2>1, <2>2
      <3>2. CASE stop
        <4>1. Len(t) >= Need(call)
          <5>1. Len(t) >= call.threshold
            BY <3>1, <3>2
          <5> QED  BY <1>7, <1>8, <2>2, <5>1, SMT DEF Need
        <4>2. result' = "ok" /\ pc' = "done"
          BY <1>6, <2>1, <3>2
        <4> QED  BY <1>2, <1>6, <1>9, <4>1, <4>2 DEF TooFew, Outcome
      <3>3. CASE ~stop
        <4>1. Len(t) < Need(call)
          <5>1. ~(Len(t) >= call.threshold)
            BY <3>1, <3>3
          <5> QED  BY <1>7, <1>8, <5>1, SMT DEF Need
        <4> QED  BY <1>2, <1>6, <3>3, <4>1 DEF TooFew, Outcome
      <3> QED  BY <3>2, <3>3
    <2>3. CASE ~Takes(v)
      <3>1. ~stop /\ t = taken
        BY <1>4, <1>5, <2>1, <2>3
      <3> QED  BY <1>2, <1>6, <3>1 DEF TooFew, Outcome
    <2> QED  BY <2>2, <2>3
  <1>10. CASE call.method = "Collect"
    <2>1. stop => Len(taken') >= call.threshold
      <3>1. Enough(t) <=> Cardinality(Range(t)) >= call.threshold
        BY <1>10 DEF Enough
      <3>2. Len(taken') = Cardinality(Range(taken'))
        BY DEF Books, Counted
      <3> QED  BY <1>5, <1>6, <3>1, <3>2
    <2> QED  BY <1>2, <1>6, <1>10, <2>1 DEF TooFew, Outcome
  <1>11. CASE call.method \notin {"Threshold", "Correctable", "Collect"}
    <2>1. call.method = "Multicast" => ~stop
      BY <1>5 DEF Enough
    <2> QED  BY <1>2, <1>6, <1>11, <2>1 DEF TooFew, Outcome
  <1> QED  BY <1>9, <1>10, <1>11

\* The result of a call that runs out of responses.
LEMMA ExhaustedOutcome ==
  ASSUME TypeOK, Books, TooFew, ~call.streaming, Exhausted
  PROVE  TooFew' /\ Outcome'
  <1>1. /\ UNCHANGED <<call, todo, pending, replyChan, taken, errs, ctxDone>>
        /\ pc = "recv" /\ pc' = "done" /\ (AllYielded \/ ctxDone)
    BY DEF Exhausted
  <1>2. (AllIn' <=> AllIn) /\ (AllYielded /\ ~Forgets(call) => AllIn)
    BY <1>1, AllYieldedIn DEF AllIn
  <1>3. CASE call.method \in {"Threshold", "Correctable"}
    <2>1. result' = "incomplete" /\ ~Forgets(call)
      BY <1>3 DEF Exhausted, Forgets
    <2>2. Len(taken) < Need(call)
      BY <1>1, <1>3 DEF TooFew
    <2> QED  BY <1>1, <1>2, <1>3, <2>1, <2>2 DEF TooFew, Outcome
  <1>4. CASE call.method = "Collect"
    <2>1. ~Forgets(call)
      BY <1>4 DEF Forgets
    <2> QED  BY <1>1, <1>2, <1>4, <2>1 DEF TooFew, Outcome
  <1>5. CASE call.method = "Multicast"
    <2>1. result' = IF AllYielded THEN (IF errs = <<>> THEN "ok" ELSE "sendfailure") ELSE "ctx"
      BY <1>5 DEF Exhausted
    <2>2. ~call.ignore => ~Forgets(call)
      BY DEF Forgets
    <2> QED  BY <1>1, <1>2, <1>5, <2>1, <2>2 DEF TooFew, Outcome
  <1>6. CASE call.method \notin {"Threshold", "Correctable", "Collect", "Multicast"}
    BY <1>1, <1>6 DEF TooFew, Outcome
  <1> QED  BY <1>3, <1>4, <1>5, <1>6

\* The accounts are inductive, given the types.
LEMMA AccountsInit == Init => Accounts
  <1> SUFFICES ASSUME Init PROVE Books /\ TooFew /\ Outcome
    BY DEF Accounts
  <1>0. /\ call \in Calls /\ todo = call.members /\ pending = {} /\ answers = [n \in Nodes |-> <<>>]
        /\ replyChan = <<>> /\ yielded = 0 /\ taken = <<>> /\ errs = <<>> /\ pc = "send"
    BY DEF Init
  <1>1. call.members \subseteq Nodes /\ Cardinality(call.members) \in Nat /\ call.threshold \in Nat
    BY <1>0, CallFacts
  <1>2. /\ DOMAIN replyChan = {} /\ Len(replyChan) = 0 /\ Queue = {} /\ Len(<<>>) = 0
        /\ Range(taken) = {} /\ Range(errs) = {} /\ Len(taken) = 0
        /\ IsInjective(taken) /\ IsInjective(errs)
    BY <1>0, SMT DEF Queue, Range, IsInjective
  <1>3. Cardinality({}) = 0
    BY FS_EmptySet
  <1>4. Ledger
    <2>1. <<>> # <<"garbled">>
      OBVIOUS
    <2> QED  BY <1>0, <1>1, <1>2, <2>1, SMT DEF Ledger
  <1>5. Counted
    BY <1>0, <1>2, <1>3 DEF Counted
  <1>6. Collected
    BY <1>0 DEF Collected
  <1>7. Balance
    BY <1>0, <1>1, <1>2, <1>3, SMT DEF Balance
  <1>8. TooFew /\ Outcome
    BY <1>0, <1>1, <1>2, SMT DEF TooFew, Outcome, Need
  <1> QED  BY <1>4, <1>5, <1>6, <1>7, <1>8 DEF Books

\* Every step keeps the books of the call.
LEMMA AccountsStep == TypeOK /\ Accounts /\ [Next]_vars => Accounts'
  <1> SUFFICES ASSUME TypeOK, ~call.streaming, Books, TooFew, Outcome, [Next]_vars
               PROVE  Books' /\ TooFew' /\ Outcome'
    <2>1. ASSUME [Next]_vars PROVE call' = call
      BY <2>1 DEF Next, Terminal, vars, SendTo, MarshalFails, Sent, Recv, Exhausted, Cancel,
                  Unblocked, NodeAnswers, AnswerDropped, Watch
    <2> QED  BY <2>1 DEF Accounts
  <1>1. ASSUME NEW n \in Nodes, SendTo(n) PROVE Books' /\ TooFew' /\ Outcome'
    <2>1. /\ n \in todo /\ n \notin pending /\ pc = "send"
          /\ UNCHANGED <<call, pc, yielded, taken, errs, result, ctxDone>>
      BY <1>1, SetFacts DEF SendTo
    <2>2. CASE /\ todo' = todo \ {n} /\ pending' = pending
               /\ \E v \in {"skip", "error"} : Reply(n, v)
      <3>1. PICK v \in {"skip", "error"} : Reply(n, v)
        BY <2>2
      <3>2. pending' = pending \ {n} /\ v \in Values /\ v # "garbled"
        BY <2>1, <2>2 DEF Values
      <3>3. Books'
        BY <2>1, <2>2, <3>1, <3>2, ReplyBooks
      <3> QED  BY <2>1, <3>3 DEF TooFew, Outcome
    <2>3. CASE /\ todo' = todo \ {n}
               /\ pending' = IF FireAndForget THEN pending ELSE pending \cup {n}
               /\ UNCHANGED <<replyChan, answers>>
      <3>1. Books'
        BY <2>1, <2>3, SendBooks
      <3> QED  BY <2>1, <3>1 DEF TooFew, Outcome
    <2>4. CASE UNCHANGED <<todo, pending, replyChan, answers>>
      <3>1. Books'
        BY <2>1, <2>4, StillBooks
      <3> QED  BY <2>1, <3>1 DEF TooFew, Outcome
    <2> QED  BY <1>1, <2>2, <2>3, <2>4 DEF SendTo, HandOver, SkipNode, reportNodeError
  <1>11. ASSUME NEW n \in Nodes, Unblocked(n) PROVE Books' /\ TooFew' /\ Outcome'
    <2>1. /\ n \in todo /\ todo' = todo \ {n}
          /\ pending' = IF FireAndForget THEN pending ELSE pending \cup {n}
          /\ UNCHANGED <<call, answers, replyChan, pc, yielded, taken, errs, result, ctxDone>>
      BY <1>11 DEF Unblocked, HandOver, TypeOK
    <2>2. Books'
      BY <2>1, SendBooks
    <2> QED  BY <2>1, <2>2 DEF TooFew, Outcome, AllIn
  <1>2. CASE MarshalFails
    <2>1. Books'
      BY <1>2, StillBooks DEF MarshalFails
    <2> QED  BY <1>2, <2>1 DEF MarshalFails, Single, TooFew, Outcome
  <1>3. CASE Sent
    <2>1. Books'
      BY <1>3, StillBooks DEF Sent
    <2> QED  BY <1>3, <2>1 DEF Sent, FireAndForget, OneWayCall, TooFew, Outcome
  <1>4. ASSUME NEW n \in Nodes, NodeAnswers(n) PROVE Books' /\ TooFew' /\ Outcome'
    <2>1. /\ n \in pending /\ n \notin todo /\ pending' = pending \ {n}
          /\ UNCHANGED <<call, todo, pc, yielded, taken, errs, result, ctxDone>>
      BY <1>4, SetFacts DEF NodeAnswers, MoreToCome
    <2>2. PICK v \in Values : Reply(n, v) /\ (v = "garbled" => call.method # "Multicast")
      BY <1>4 DEF NodeAnswers, OneWayCall, Values
    <2>3. Books'
      BY <2>1, <2>2, ReplyBooks
    <2> QED  BY <2>1, <2>3 DEF TooFew, Outcome, AllIn
  <1>5. ASSUME NEW n \in Nodes, AnswerDropped(n) PROVE Books' /\ TooFew' /\ Outcome'
    <2>1. /\ n \in pending /\ pending' = pending \ {n}
          /\ UNCHANGED <<call, todo, answers, replyChan, pc, yielded, taken, errs, result, ctxDone>>
      BY <1>5 DEF AnswerDropped
    <2>2. Forgets(call)
      BY <1>5, RoomWhilePending DEF AnswerDropped
    <2>3. Books'
      <3>1. Ledger'
        BY <2>1 DEF Books, Ledger
      <3>2. Counted'
        BY <2>1 DEF Books, Counted, Queue
      <3> QED  BY <2>1, <2>2, <3>1, <3>2 DEF Books, Collected, Balance
    <2> QED  BY <2>1, <2>3 DEF TooFew, Outcome, AllIn
  <1>6. CASE Cancel
    <2>1. Books'
      BY <1>6, StillBooks DEF Cancel
    <2> QED  BY <1>6, <2>1 DEF Cancel, TooFew, Outcome, AllIn
  <1>7. CASE Recv
    BY <1>7, RecvBooks, RecvOutcome
  <1>8. CASE Exhausted
    <2>1. Books'
      BY <1>8, StillBooks DEF Exhausted
    <2> QED  BY <1>8, <2>1, ExhaustedOutcome
  <1>9. ASSUME NEW w \in Watchers, Watch(w) PROVE Books' /\ TooFew' /\ Outcome'
    <2>1. Books'
      BY <1>9, StillBooks DEF Watch
    <2> QED  BY <1>9, <2>1 DEF Watch, TooFew, Outcome, AllIn
  <1>10. CASE UNCHANGED vars
    <2>1. Books'
      BY <1>10, StillBooks DEF vars
    <2> QED  BY <1>10, <2>1 DEF vars, TooFew, Outcome, AllIn
  <1> QED  BY <1>1, <1>2, <1>3, <1>4, <1>5, <1>6, <1>7, <1>8, <1>9, <1>10, <1>11 DEF Next, Terminal

-----------------------------------------------------------------------------
(* Watchers *)

Watched == WatchState /\ WatchersNotified

\* What a step may do to the level and to the watchers.
Notifies ==
    /\ level' >= level
    /\ pc = "done" => UNCHANGED <<level, taken, errs, result>>
    /\ pc = "recv" /\ pc' = "done" => \A w \in Watchers : watch'[w] # "open"

\* Steps that leave the watchers alone.
LEMMA StillWatched ==
  ASSUME TypeOK, Watched, UNCHANGED <<call, taken, level, watch>>
  PROVE  Watched' /\ level' >= level
  BY SMT DEF TypeOK, LevelNotSet, Watched, WatchState, WatchersNotified

\* update wakes the watchers whose level is reached, and all of them in the end.
LEMMA UpdateWatched ==
  ASSUME TypeOK, Watched, call' = call, call.method = "Correctable",
         NEW d \in BOOLEAN, update(Len(taken'), d), Len(taken') \in Nat, Len(taken') >= Len(taken)
  PROVE  /\ Watched' /\ level' >= level
         /\ d => \A w \in Watchers : watch'[w] # "open"
  <1>1. /\ level' = Len(taken')
        /\ \A w \in Watchers : watch'[w] = "open" => ~d /\ WatchLevel[w] > Len(taken')
    BY UpdateFacts
  <1>2. level \in Int /\ Len(taken) \in Nat /\ level <= Len(taken)
    BY SMT DEF TypeOK, LevelNotSet, Watched, WatchState
  <1>3. level' >= level /\ level' <= Len(taken')
    BY <1>1, <1>2, SMT
  <1> QED  BY <1>1, <1>3 DEF Watched, WatchState, WatchersNotified

\* Every step keeps the watchers served, and changes a Correctable only as it may.
LEMMA WatchStep == TypeOK /\ Watched /\ [Next]_vars => Watched' /\ (Notifies \/ UNCHANGED vars)
  <1> SUFFICES ASSUME TypeOK, Watched, [Next]_vars
               PROVE  Watched' /\ (Notifies \/ UNCHANGED vars)
    OBVIOUS
  <1>1. ASSUME NEW n \in Nodes, SendTo(n) PROVE Watched' /\ Notifies
    BY <1>1, StillWatched DEF SendTo, Notifies
  <1>2. CASE MarshalFails
    BY <1>2, StillWatched DEF MarshalFails, Notifies
  <1>3. CASE Sent
    BY <1>3, StillWatched DEF Sent, Notifies
  <1>4. ASSUME NEW n \in Nodes, NodeAnswers(n) PROVE Watched' /\ Notifies
    BY <1>4, StillWatched DEF NodeAnswers, Notifies
  <1>5. ASSUME NEW n \in Nodes, AnswerDropped(n) PROVE Watched' /\ Notifies
    BY <1>5, StillWatched DEF AnswerDropped, Notifies
  <1>11. ASSUME NEW n \in Nodes, Unblocked(n) PROVE Watched' /\ Notifies
    BY <1>11, StillWatched DEF Unblocked, Notifies
  <1>6. CASE Cancel
    BY <1>6, StillWatched DEF Cancel, Notifies
  <1>7. CASE Recv
    <2>1. PICK r \in Resps : Collects(r)
      BY <1>7, RecvStep
    <2>2. call' = call /\ pc = "recv"
      BY <1>7 DEF Recv
    <2>3. PICK v : v = mapToCallResponse(r.res)
      OBVIOUS
    <2>4. PICK stop \in BOOLEAN : stop <=> Enough(taken') /\ (Takes(v) \/ Single)
      OBVIOUS
    <2>5. /\ taken' = IF Takes(v) THEN Append(taken, r.node) ELSE taken
          /\ pc' = IF stop THEN "done" ELSE "recv"
          /\ IF call.method = "Correctable" /\ Takes(v) THEN update(Len(taken'), stop)
             ELSE UNCHANGED <<level, watch>>
      BY <2>1, <2>3, <2>4 DEF Collects
    <2>6. taken \in Seq(Nodes) /\ r.node \in Nodes
      BY DEF TypeOK, Resps
    <2>7. Len(taken') \in Nat /\ Len(taken') >= Len(taken) /\ Len(taken) \in Nat
      BY <2>5, <2>6, SMT
    <2>8. CASE call.method = "Correctable" /\ Takes(v)
      <3>1. Watched' /\ level' >= level /\ (stop => \A w \in Watchers : watch'[w] # "open")
        BY <2>2, <2>5, <2>7, <2>8, UpdateWatched
      <3> QED  BY <2>2, <2>5, <3>1 DEF Notifies
    <2>9. CASE ~(call.method = "Correctable" /\ Takes(v))
      <3>1. UNCHANGED <<level, watch>>
        BY <2>5, <2>9
      <3>2. level \in Int /\ level <= Len(taken)
        BY SMT DEF TypeOK, LevelNotSet, Watched, WatchState
      <3>3. Watched' /\ level' >= level
        BY <2>2, <2>7, <3>1, <3>2, SMT DEF Watched, WatchState, WatchersNotified
      <3>4. pc' = "done" => call.method # "Correctable"
        BY <2>4, <2>5, <2>9 DEF Single
      <3>5. pc' = "done" => \A w \in Watchers : watch'[w] # "open"
        BY <3>1, <3>4 DEF Watched, WatchState
      <3> QED  BY <2>2, <3>3, <3>5 DEF Notifies
    <2> QED  BY <2>8, <2>9
  <1>8. CASE Exhausted
    <2>1. call' = call /\ pc = "recv" /\ taken' = taken /\ Len(taken) \in Nat
      BY <1>8, SMT DEF Exhausted, TypeOK
    <2>2. CASE call.method = "Correctable"
      <3>1. update(Len(taken'), TRUE)
        BY <1>8, <2>1, <2>2 DEF Exhausted
      <3>2. Len(taken') >= Len(taken) /\ Len(taken') \in Nat
        BY <2>1, SMT
      <3>3. Watched' /\ level' >= level /\ \A w \in Watchers : watch'[w] # "open"
        BY <2>1, <2>2, <3>1, <3>2, UpdateWatched
      <3> QED  BY <2>1, <3>3 DEF Notifies
    <2>3. CASE call.method # "Correctable"
      <3>1. UNCHANGED <<level, watch>>
        BY <1>8, <2>3 DEF Exhausted
      <3>2. Watched' /\ level' >= level
        BY <2>1, <3>1, StillWatched
      <3>3. \A w \in Watchers : watch'[w] # "open"
        BY <2>3, <3>1 DEF Watched, WatchState
      <3> QED  BY <2>1, <3>2, <3>3 DEF Notifies
    <2> QED  BY <2>2, <2>3
  <1>9. ASSUME NEW w \in Watchers, Watch(w) PROVE Watched' /\ Notifies
    <2>1. /\ call.method = "Correctable"
          /\ UNCHANGED <<call, pc, taken, errs, result, level>>
      BY <1>9 DEF Watch
    <2>2. \A u \in Watchers : watch'[u] =
             IF u = w THEN (IF WatchLevel[w] <= level THEN "closed" ELSE "open") ELSE watch[u]
      BY <1>9 DEF Watch, TypeOK
    <2>3. level \in Int /\ \A u \in Watchers : WatchLevel[u] \in Nat
      BY CallAssumption, SMT DEF TypeOK, LevelNotSet
    <2>4. ASSUME NEW u \in Watchers, watch'[u] = "open" PROVE WatchLevel[u] > level
      BY <2>2, <2>3, <2>4, SMT DEF Watched, WatchersNotified
    <2>5. Watched' /\ level' >= level
      BY <2>1, <2>3, <2>4, SMT DEF Watched, WatchState, WatchersNotified
    <2> QED  BY <2>1, <2>5 DEF Notifies
  <1>10. CASE UNCHANGED vars
    BY <1>10, StillWatched DEF vars
  <1> QED  BY <1>1, <1>2, <1>3, <1>4, <1>5, <1>6, <1>7, <1>8, <1>9, <1>10, <1>11 DEF Next, Terminal

-----------------------------------------------------------------------------
(* The theorems *)

\* A node's only answer.
LEMMA OneAnswerFacts ==
  ASSUME TypeOK, Books
  PROVE  \A n \in Nodes : /\ \A i \in DOMAIN answers[n] : i = 1
                          /\ answers[n] # <<>> => /\ 1 \in DOMAIN answers[n]
                                                  /\ answers[n] = <<answers[n][1]>>
  <1> SUFFICES ASSUME NEW n \in Nodes
               PROVE  /\ \A i \in DOMAIN answers[n] : i = 1
                      /\ answers[n] # <<>> => /\ 1 \in DOMAIN answers[n]
                                              /\ answers[n] = <<answers[n][1]>>
    OBVIOUS
  <1>1. PICK s : s = answers[n]
    OBVIOUS
  <1>2. s \in Seq(Values) /\ Len(s) <= 1
    BY <1>1 DEF TypeOK, Values, Books, Ledger
  <1>3. \A i \in DOMAIN s : i = 1
    BY <1>2, SMT
  <1>4. s # <<>> => 1 \in DOMAIN s /\ Len(s) = 1
    BY <1>2, SMT
  <1>5. s # <<>> => s = <<s[1]>>
    BY <1>2, <1>4, SMT
  <1> QED  BY <1>1, <1>3, <1>4, <1>5

Good == Answered("value") \cup (IF call.method = "Threshold" THEN Answered("skip") ELSE {})

\* A response that is counted is a good answer, and all are when all are in.
LEMMA GoodFacts ==
  ASSUME TypeOK, Books, call.method \in {"Threshold", "Correctable"}
  PROVE  /\ Len(taken) \in Nat /\ Cardinality(Good) \in Nat /\ Len(taken) <= Cardinality(Good)
         /\ AllIn => Len(taken) = Cardinality(Good)
  <1>1. ~Forgets(call) /\ call.members \subseteq Nodes /\ IsFiniteSet(call.members)
    BY CallFacts DEF Forgets, TypeOK
  <1>2. Good \subseteq call.members
    BY DEF Good, Answered
  <1>3. \A n \in Range(taken) : n \in Good
    <2> SUFFICES ASSUME NEW n \in Range(taken) PROVE n \in Good
      OBVIOUS
    <2>1. n \in call.members \ (todo \cup pending \cup Queue)
      BY DEF Books, Counted
    <2>2. answers[n] # <<>> /\ TakesOf(call, mapToCallResponse(answers[n][1]))
      BY <1>1, <2>1 DEF Books, Collected
    <2>3. 1 \in DOMAIN answers[n]
      BY <1>1, <2>1, <2>2, OneAnswerFacts
    <2>4. answers[n][1] = "value" \/ (call.method = "Threshold" /\ answers[n][1] = "skip")
      BY <2>2 DEF TakesOf, mapToCallResponse
    <2> QED  BY <2>1, <2>3, <2>4 DEF Good, Answered
  <1>4. ASSUME AllIn, NEW n \in Good PROVE n \in Range(taken)
    <2>1. Queue = {}
      BY <1>4, SMT DEF AllIn, Queue
    <2>2. n \in call.members \ (todo \cup pending \cup Queue) /\ n \in Nodes
      BY <1>1, <1>2, <1>4, <2>1 DEF AllIn
    <2>3. PICK i \in DOMAIN answers[n] :
             answers[n][i] = "value" \/ (call.method = "Threshold" /\ answers[n][i] = "skip")
      BY <1>4 DEF Good, Answered
    <2>4. i = 1
      BY <2>2, OneAnswerFacts
    <2>5. TakesOf(call, mapToCallResponse(answers[n][1]))
      BY <2>3, <2>4 DEF TakesOf, mapToCallResponse
    <2> QED  BY <1>1, <2>2, <2>5 DEF Books, Collected
  <1>5. IsFiniteSet(Good) /\ Cardinality(Good) \in Nat
    BY <1>1, <1>2, FS_Subset, FS_CardinalityType
  <1>6. Len(taken) \in Nat /\ Len(taken) = Cardinality(Range(taken))
    <2>1. taken \in Seq(Nodes)
      BY DEF TypeOK
    <2>2. Len(taken) = Cardinality(Range(taken))
      BY DEF Books, Counted
    <2> QED  BY <2>1, <2>2, SMT
  <1>7. Cardinality(Range(taken)) <= Cardinality(Good)
    BY <1>3, <1>5, FS_Subset
  <1>8. AllIn => Range(taken) = Good
    BY <1>3, <1>4
  <1> QED  BY <1>5, <1>6, <1>7, <1>8

\* Every node was heard, and the errors recorded are those of the nodes.
LEMMA HeardFacts ==
  ASSUME TypeOK, Books, AllIn, ~Forgets(call)
  PROVE  /\ \A n \in call.members : answers[n] # <<>>
         /\ call.method = "Multicast" => Answered("error") = Range(errs)
  <1>1. Queue = {}
    BY SMT DEF AllIn, Queue
  <1>2. \A n \in call.members :
           /\ answers[n] # <<>>
           /\ n \in Range(errs) <=> RecordsOf(call, mapToCallResponse(answers[n][1]))
    BY <1>1 DEF AllIn, Books, Collected
  <1>3. ASSUME call.method = "Multicast", NEW n \in call.members
        PROVE  n \in Answered("error") <=> n \in Range(errs)
    <2>1. n \in Nodes
      BY SetFacts
    <2>2. answers[n] # <<>> /\ answers[n] # <<"garbled">>
      BY <1>2, <1>3, <2>1 DEF Books, Ledger
    <2>3. /\ 1 \in DOMAIN answers[n] /\ answers[n] = <<answers[n][1]>>
          /\ \A i \in DOMAIN answers[n] : i = 1
      BY <2>1, <2>2, OneAnswerFacts
    <2>4. n \in Answered("error") <=> answers[n][1] = "error"
      BY <2>3 DEF Answered
    <2>5. answers[n][1] # "garbled"
      BY <2>2, <2>3
    <2>6. RecordsOf(call, mapToCallResponse(answers[n][1])) <=> answers[n][1] = "error"
      BY <1>3, <2>5 DEF RecordsOf, mapToCallResponse
    <2> QED  BY <1>2, <2>4, <2>6
  <1>4. Answered("error") \subseteq call.members /\ Range(errs) \subseteq call.members
    BY DEF Answered, Books, Counted
  <1> QED  BY <1>2, <1>3, <1>4

\* The accounts justify the result.
LEMMA ResultFacts == TypeOK /\ Accounts => ResultJustified
  <1> SUFFICES ASSUME TypeOK, Books, Outcome, ~call.streaming, pc = "done" PROVE ResultJustified
    BY DEF Accounts, ResultJustified
  <1> DEFINE heard == \A n \in call.members : answers[n] # <<>>
  <1>0. AllIn /\ ~Forgets(call) => heard
    BY HeardFacts
  <1>1. ASSUME call.method \in {"Threshold", "Correctable"}
        PROVE  IF result = "ok" THEN Cardinality(Good) >= Need(call)
               ELSE ctxDone \/ (heard /\ Cardinality(Good) < Need(call))
    <2>1. Need(call) \in Nat /\ ~Forgets(call)
      BY <1>1, CallFacts DEF TypeOK, Need, Forgets
    <2>2. CASE result = "ok"
      <3>1. Len(taken) >= Need(call)
        BY <1>1, <2>2 DEF Outcome
      <3> QED  BY <1>1, <2>1, <2>2, <3>1, GoodFacts, SMT
    <2>3. CASE result # "ok" /\ ~ctxDone
      <3>1. AllIn /\ Len(taken) < Need(call)
        BY <1>1, <2>3 DEF Outcome
      <3>2. Len(taken) = Cardinality(Good)
        BY <1>1, <3>1, GoodFacts
      <3> QED  BY <1>0, <2>1, <2>3, <3>1, <3>2
    <2> QED  BY <2>2, <2>3
  <1>2. ASSUME call.method = "Collect"
        PROVE  Cardinality(Range(taken)) >= call.threshold \/ heard \/ ctxDone
    <2>1. ~Forgets(call) /\ Len(taken) = Cardinality(Range(taken))
      BY <1>2 DEF Forgets, Books, Counted
    <2> QED  BY <1>0, <1>2, <2>1 DEF Outcome
  <1>3. ASSUME call.method = "Multicast", ~call.ignore
        PROVE  CASE result = "ok" -> heard /\ Answered("error") = {}
                 [] result = "sendfailure" -> Answered("error") = Range(errs)
                 [] OTHER -> ctxDone
    <2>1. ~Forgets(call)
      BY <1>3 DEF Forgets
    <2>2. CASE result = "ok"
      <3>1. AllIn /\ errs = <<>>
        BY <1>3, <2>2 DEF Outcome
      <3>2. Range(errs) = {}
        BY <3>1, SMT DEF Range
      <3>3. heard /\ Answered("error") = Range(errs)
        BY <1>3, <2>1, <3>1, HeardFacts
      <3> QED  BY <2>2, <3>2, <3>3
    <2>3. CASE result = "sendfailure"
      <3>1. AllIn
        BY <1>3, <2>3 DEF Outcome
      <3> QED  BY <1>3, <2>1, <2>3, <3>1, HeardFacts
    <2>4. CASE result \notin {"ok", "sendfailure"}
      BY <1>3, <2>4 DEF Outcome
    <2> QED  BY <2>2, <2>3, <2>4
  <1> QED  BY <1>1, <1>2, <1>3 DEF ResultJustified, Good, Need

\* The invariants of a run together.
LEMMA QInvHolds == Spec => [](TypeOK /\ Accounts /\ Watched)
  <1>1. Init => Watched
    BY SMT DEF Init, Watched, WatchState, WatchersNotified, LevelNotSet
  <1> QED  BY <1>1, TypeInit, TypeStep, AccountsInit, AccountsStep, WatchStep, PTL DEF Spec

\* Types hold: the reply channel never holds more than its capacity and the
\* iterator never yields more than one response per node (client_interceptor.go).
THEOREM CallTypes == Spec => []TypeOK
  BY QInvHolds, PTL

\* RoomForAnswers: in a call that is not streaming a node's receiver never
\* blocks on the reply channel, however late it answers.
THEOREM RoomKept == Spec => []RoomForAnswers
  <1>1. TypeOK /\ Accounts => RoomForAnswers
    <2> SUFFICES ASSUME TypeOK, Books, ~call.streaming, ~FireAndForget
                 PROVE  Len(replyChan) + Cardinality(pending) + Cardinality(todo) <= ReplyCap
      BY DEF Accounts, RoomForAnswers
    <2>1. ReplyCap = Size /\ Size \in Nat
      BY CapFacts
    <2>2. /\ Cardinality(todo) \in Nat /\ Cardinality(pending) \in Nat
          /\ Len(replyChan) \in Nat /\ yielded \in Nat
      BY SetFacts
    <2>3. Cardinality(todo) + Cardinality(pending) + Len(replyChan) + yielded = Size
      BY DEF Books, Balance, Size, Forgets, FireAndForget, OneWayCall
    <2> QED  BY <2>1, <2>2, <2>3, SMT
  <1> QED  BY <1>1, QInvHolds, PTL

\* CountedOnce: the terminal methods count or blame a node at most once, and
\* never both.
THEOREM NodesCountedOnce == Spec => []CountedOnce
  <1>1. TypeOK /\ Accounts => CountedOnce
    <2> SUFFICES ASSUME TypeOK, Books PROVE IsInjective(taken \o errs)
      BY DEF Accounts, CountedOnce
    <2>1. taken \in Seq(Nodes) /\ errs \in Seq(Nodes)
      BY DEF TypeOK
    <2>2. IsInjective(taken) /\ IsInjective(errs) /\ Range(taken) \cap Range(errs) = {}
      BY DEF Books, Counted
    <2> QED  BY <2>1, <2>2, ConcatInjective
  <1> QED  BY <1>1, QInvHolds, PTL

\* ResultJustified: what Threshold, Correctable, CollectN and Multicast report
\* is what the nodes did, whatever the answers, their order and the moment the
\* context is cancelled.
THEOREM ResultsJustified == Spec => []ResultJustified
  BY ResultFacts, QInvHolds, PTL

\* WatchersNotified: no watcher of a Correctable waits for a level reached.
THEOREM WatchersServed == Spec => []WatchersNotified
  <1>1. Watched => WatchersNotified
    BY DEF Watched
  <1> QED  BY <1>1, QInvHolds, PTL

\* CorrectableProgress: the level never goes down, a finished call stays as it
\* is, and the step that finishes it leaves no watcher waiting.
THEOREM LevelsProgress == Spec => CorrectableProgress
  <1>1. TypeOK /\ Watched /\ [Next]_vars => [Notifies]_vars
    BY WatchStep
  <1> QED  BY <1>1, QInvHolds, PTL DEF Spec, CorrectableProgress, Notifies

=============================================================================
