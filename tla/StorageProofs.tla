---------------------------- MODULE StorageProofs ----------------------------
(***************************************************************************)
(* Proofs about Storage, for any servers, clients, keys, commands and      *)
(* number of faults: a write that WriteQC reported stays on a majority, a  *)
(* read of enough of its nodes sees it, servers that handled the same      *)
(* writes agree, and a refused key is stored nowhere.                      *)
(***************************************************************************)
EXTENDS Storage, FiniteSetTheorems, TLAPS

\* The prover of every leaf that names no other.
USE Zenon

-----------------------------------------------------------------------------
(* Types *)

Ops == ReadOps \cup WriteOps

CallIDs == [client : Clients, num : Nat, via : Servers \cup {None}, copy : Nat]

Requests ==
    [call : CallIDs, op : Ops, to : Servers, key : Keys, value : Values \cup {None},
     time : Times \cup {0}, copy : Nat, sent : BOOLEAN]

Responses ==
    [call : CallIDs, node : Servers, err : BOOLEAN, isNew : BOOLEAN, st : States,
     read : SUBSET Servers]

Nested == [call : CallIDs, req : Requests, cfg : SUBSET Servers, got : SUBSET Responses]

Acks == [key : Keys, cfg : SUBSET Servers, time : Times, value : Values]

Cmds ==
    [op : Ops \cup {"none"}, cfg : SUBSET Servers, key : Keys \cup {None},
     value : Values \cup {None}, time : Times \cup {0}, seen : SUBSET Acks,
     res : {"idle", "running", "ok", "old", "error"}]

Types ==
    /\ store \in [Servers -> [Keys -> States]]
    /\ cmd \in [Clients -> Cmds] /\ got \in [Clients -> SUBSET Responses]
    /\ net \subseteq Requests /\ replies \subseteq Responses /\ nested \subseteq Nested
    /\ input \in [Clients -> Seq(Commands)] /\ issued \in [Clients -> Nat]
    /\ acked \subseteq Acks /\ handled \in [Servers -> SUBSET Writes]

-----------------------------------------------------------------------------
(* The parts of the inductive invariant *)

\* A command that runs has a key, and a write has a time and a value.
CmdOK(c) ==
    Running(c) =>
        /\ cmd[c].key \in Keys
        /\ cmd[c].op \in WriteOps => cmd[c].time \in Times /\ cmd[c].value \in Values

\* A request belongs to a command that was issued; if that runs, it asks for the
\* same, unless a handler made it.
ReqOK(m) ==
    LET c == m.call.client
    IN /\ m.call.num <= issued[c]
       /\ m.call.via # None => m.op \in {"ReadQC", "WriteMulticast"}
       /\ m.op \in WriteOps => m.time \in Times /\ m.value \in Values
       /\ Running(c) /\ m.call.num = issued[c] =>
             /\ m.key = cmd[c].key
             /\ m.call.via = None =>
                   m.op = cmd[c].op /\ m.time = cmd[c].time /\ m.to \in cmd[c].cfg

NestOK(h) ==
    /\ ReqOK(h.req) /\ h.req.op \in NestedOps
    /\ h.call.client = h.req.call.client /\ h.call.num = h.req.call.num /\ h.call.via # None

\* A server that says it updated its value holds it, or one at least as recent.
RespOK(r) ==
    LET c == r.call.client
    IN /\ r.call.num <= issued[c]
       /\ Running(c) /\ cmd[c].op = "WriteQC" /\ r.call = Call(c) /\ ~r.err /\ r.isNew =>
             r.node \in cmd[c].cfg /\ store[r.node][cmd[c].key].time >= cmd[c].time

GotOK(c) == \A r \in got[c] : Running(c) /\ r.call = Call(c) /\ RespOK(r)

Flow ==
    /\ \A c \in Clients : CmdOK(c) /\ GotOK(c)
    /\ \A m \in net : ReqOK(m)
    /\ \A r \in replies : RespOK(r)
    /\ \A h \in nested : NestOK(h)

Mine(call, c) == call.client = c /\ call.num = issued[c]

\* The responses to the command of c and to the calls made for it.
AnswersOf(c) ==
    got[c] \cup {r \in replies : Mine(r.call, c)}
           \cup UNION {h.got : h \in {h \in nested : Mine(h.call, c)}}

\* A majority of a write's nodes hold it, and who read one of them saw it.
Seen(c, w) ==
    \E Q \in SUBSET w.cfg :
        /\ IsQuorum(Q, w.cfg)
        /\ \A n \in Q : store[n][w.key].time >= w.time
        /\ \A n \in Q, r \in AnswersOf(c) : n \in r.read => r.st.time >= w.time

Fresh ==
    \A c \in Clients :
        Running(c) => \A w \in cmd[c].seen : w.key = cmd[c].key => Seen(c, w)

\* What a server stores is the latest of the writes it handled.
Latest ==
    \A n \in Servers, k \in Keys :
        LET W == {w \in handled[n] : w.key = k}
        IN /\ W = {} => store[n][k] = Absent
           /\ W # {} => \E w \in W : store[n][k] = [value |-> w.value, time |-> w.time]
           /\ \A w \in W : w.time <= store[n][k].time

Unstored == \A n \in Filtering : Foo \in Keys => store[n][Foo] = Absent

SInv == Types /\ Flow /\ Fresh /\ AckedWritesStay /\ Latest /\ Unstored

-----------------------------------------------------------------------------
(* Constructors *)

\* Timestamps are numbers.
LEMMA TimeFacts ==
  /\ \A t \in Times \cup {0} : t \in Nat
  /\ \A t \in Times : t > 0
  /\ \A st \in States : st.time \in Times \cup {0}
  /\ Absent \in States /\ Absent.time = 0
  /\ \A t \in Times, v \in Values : /\ [value |-> v, time |-> t] \in States
                                    /\ [value |-> v, time |-> t] # Absent
  <1>1. \A t \in Times : t \in Nat /\ t > 0
    BY StorageAssumption, SMT
  <1>2. Absent \in States /\ Absent.time = 0
    BY DEF Absent, States
  <1>3. \A st \in States : st.time \in Times \cup {0}
    BY <1>2 DEF States
  <1>4. ASSUME NEW t \in Times, NEW v \in Values
        PROVE  [value |-> v, time |-> t] \in States /\ [value |-> v, time |-> t] # Absent
    <2>1. [value |-> v, time |-> t] \in States
      BY DEF States
    <2>2. [value |-> v, time |-> t].time = t /\ t # 0
      BY <1>1, SMT
    <2> QED  BY <1>2, <2>1, <2>2
  <1> QED  BY <1>1, <1>2, <1>3, <1>4, SMT

\* The fields of a call, a request and a response.
LEMMA CallFields ==
  ASSUME NEW c \in Clients, NEW i \in Nat, NEW via \in Servers \cup {None}, NEW copy \in Nat
  PROVE  /\ CallID(c, i, via, copy) \in CallIDs
         /\ CallID(c, i, via, copy).client = c /\ CallID(c, i, via, copy).num = i
         /\ CallID(c, i, via, copy).via = via
  BY DEF CallID, CallIDs

\* What a request holds.
LEMMA RequestFields ==
  ASSUME NEW id \in CallIDs, NEW op \in Ops, NEW n \in Servers, NEW k \in Keys,
         NEW v \in Values \cup {None}, NEW t \in Times \cup {0},
         NEW m, m = Request(id, op, n, k, v, t)
  PROVE  /\ m \in Requests
         /\ m.call = id /\ m.op = op /\ m.to = n /\ m.key = k /\ m.value = v /\ m.time = t
  BY DEF Request, Requests, OneWayOps

\* What a response holds.
LEMMA ResponseFields ==
  ASSUME NEW m \in Requests, NEW err \in BOOLEAN, NEW new \in BOOLEAN, NEW st \in States,
         NEW read \in SUBSET Servers, NEW r, r = Response(m, err, new, st, read)
  PROVE  /\ r \in Responses
         /\ r.call = m.call /\ r.node = m.to /\ r.err = err /\ r.isNew = new
         /\ r.st = st /\ r.read = read
  <1>1. m.call \in CallIDs /\ m.to \in Servers
    BY DEF Requests
  <1> QED  BY <1>1 DEF Response, Responses

\* What a failure holds.
LEMMA FailureFields ==
  ASSUME NEW m \in Requests
  PROVE  /\ Failure(m) \in Responses /\ Failure(m).call = m.call
         /\ Failure(m).err = TRUE /\ Failure(m).read = {}
  <1>1. m.call \in CallIDs /\ m.to \in Servers /\ Absent \in States
    BY TimeFacts DEF Requests
  <1> QED  BY <1>1 DEF Failure, Response, Responses

\* Requests that differ only in how often or whether they were sent.
Same(x, m) ==
    /\ x \in Requests /\ x.call = m.call /\ x.op = m.op /\ x.to = m.to /\ x.key = m.key
    /\ x.value = m.value /\ x.time = m.time

\* A request that is sent again, or was sent, is the same request.
LEMMA CopyFields ==
  ASSUME NEW m \in Requests
  PROVE  Same([m EXCEPT !.copy = @ + 1], m) /\ Same([m EXCEPT !.sent = TRUE], m)
  <1>1. m.copy + 1 \in Nat
    BY SMT DEF Requests
  <1>2. PICK i \in Nat : i = m.copy + 1
    BY <1>1
  <1>3. Same([m EXCEPT !.copy = i], m)
    BY DEF Same, Requests
  <1>4. Same([m EXCEPT !.sent = TRUE], m)
    BY DEF Same, Requests
  <1> QED  BY <1>2, <1>3, <1>4

\* What holds of a request holds of its copies.
LEMMA SameOK ==
  ASSUME NEW x, NEW m, Same(x, m), ReqOK(m)
  PROVE  ReqOK(x)
  BY DEF Same, ReqOK

\* What answering a request adds.
LEMMA RespondEffect ==
  ASSUME NEW m \in Requests, NEW rest \in SUBSET Requests, NEW r \in Responses,
         replies \subseteq Responses, Respond(m, rest, r)
  PROVE  /\ net' \subseteq Requests /\ replies' \subseteq Responses
         /\ \A x \in net' : x \in rest \/ Same(x, m)
         /\ \A x \in replies' : x \in replies \/ x = r \/ x = Failure(m)
  <1>1. Failure(m) \in Responses
    BY FailureFields
  <1>2. \A x \in net' : x \in rest \/ x = [m EXCEPT !.copy = @ + 1]
    BY DEF Respond
  <1>3. \A x \in replies' : x \in replies \/ x = r \/ x = Failure(m)
    BY DEF Respond
  <1>4. \A x \in net' : x \in rest \/ Same(x, m)
    BY <1>2, CopyFields
  <1>5. net' \subseteq Requests
    BY <1>4 DEF Same
  <1> QED  BY <1>1, <1>3, <1>4, <1>5

\* Whom a response reaches.
LEMMA DeliverEffect ==
  ASSUME Types, NEW r \in Responses, Deliver(r)
  PROVE  /\ got' \in [Clients -> SUBSET Responses] /\ nested' \subseteq Nested
         /\ \A c \in Clients : \A x \in got'[c] :
               x \in got[c] \/ (x = r /\ Running(c) /\ r.call = Call(c))
         /\ \A h \in nested' : \E g \in nested :
               /\ h.call = g.call /\ h.req = g.req /\ h.cfg = g.cfg
               /\ \A x \in h.got : x \in g.got \/ (x = r /\ h.call = r.call)
  <1>1. r.call.client \in Clients
    BY DEF Responses, CallIDs
  <1>2. got \in [Clients -> SUBSET Responses] /\ nested \subseteq Nested
    BY DEF Types
  <1>3. CASE r.call.via = None
    <2>1. nested' = nested
      BY <1>3 DEF Deliver
    <2>2. CASE got' = got
      BY <1>2, <2>1, <2>2
    <2>3. CASE /\ Running(r.call.client) /\ r.call = Call(r.call.client)
               /\ got' = [got EXCEPT ![r.call.client] = @ \cup {r}]
      <3>1. \A c \in Clients : got'[c] = IF c = r.call.client THEN got[c] \cup {r} ELSE got[c]
        BY <1>1, <1>2, <2>3
      <3>2. got' \in [Clients -> SUBSET Responses]
        BY <1>1, <1>2, <2>3
      <3> QED  BY <1>2, <2>1, <2>3, <3>1, <3>2
    <2> QED  BY <1>3, <2>2, <2>3 DEF Deliver, Pending
  <1>4. CASE r.call.via # None
    <2>1. /\ got' = got
          /\ nested' = {IF h.call = r.call /\ Accepts(h.got, r)
                        THEN [h EXCEPT !.got = @ \cup {r}] ELSE h : h \in nested}
      BY <1>4 DEF Deliver
    <2>2. ASSUME NEW h \in nested'
          PROVE  /\ h \in Nested
                 /\ \E g \in nested :
                      /\ h.call = g.call /\ h.req = g.req /\ h.cfg = g.cfg
                      /\ \A x \in h.got : x \in g.got \/ (x = r /\ h.call = r.call)
      <3>1. PICK g \in nested : h = IF g.call = r.call /\ Accepts(g.got, r)
                                    THEN [g EXCEPT !.got = @ \cup {r}] ELSE g
        BY <2>1, <2>2
      <3>2. g \in Nested
        BY <1>2
      <3>3. CASE h = g
        BY <3>2, <3>3
      <3>4. CASE g.call = r.call /\ h = [g EXCEPT !.got = @ \cup {r}]
        <4>1. /\ h \in Nested /\ h.call = g.call /\ h.req = g.req /\ h.cfg = g.cfg
              /\ h.got = g.got \cup {r}
          BY <3>2, <3>4 DEF Nested
        <4> QED  BY <3>4, <4>1
      <3> QED  BY <3>1, <3>3, <3>4
    <2> QED  BY <1>2, <2>1, <2>2
  <1> QED  BY <1>3, <1>4

-----------------------------------------------------------------------------
(* Steps of the network and of the servers *)

\* A response that shows no less than what it was made from.
Justified(c, r) ==
    \A n \in r.read :
        \/ r.st.time >= store[n][cmd[c].key].time
        \/ \E q \in AnswersOf(c) : n \in q.read /\ r.st.time >= q.st.time

Later == \A n \in Servers, k \in Keys : store'[n][k].time >= store[n][k].time

\* What such a step may do.
Exchange ==
    /\ UNCHANGED <<cmd, issued, acked>>
    /\ Later
    /\ \A m \in net' : ReqOK(m)
    /\ \A h \in nested' : NestOK(h)
    /\ \A r \in replies' : r \in replies \/ RespOK(r)'
    /\ \A c \in Clients : \A r \in got'[c] :
          r \in got[c] \/ (Running(c) /\ r.call = Call(c) /\ RespOK(r)')
    /\ \A c \in Clients : Running(c) => \A r \in AnswersOf(c)' : Justified(c, r)

\* Times in the map of a server.
LEMMA StoreTimes ==
  ASSUME Types, NEW n \in Servers, NEW k \in Keys
  PROVE  store[n][k] \in States /\ store[n][k].time \in Nat
  <1>1. store[n][k] \in States
    BY DEF Types
  <1> QED  BY <1>1, TimeFacts

\* Responses to c are typed.
LEMMA AnswerTypes ==
  ASSUME Types, NEW c \in Clients, NEW r \in AnswersOf(c)
  PROVE  r \in Responses /\ r.st.time \in Nat
  <1>1. r \in Responses
    BY DEF AnswersOf, Types, Nested
  <1>2. r.st \in States
    BY <1>1 DEF Responses
  <1> QED  BY <1>1, <1>2, TimeFacts

\* A response that was there shows what it shows.
LEMMA OldJustified ==
  ASSUME Types, NEW c \in Clients, NEW r \in AnswersOf(c)
  PROVE  Justified(c, r)
  <1>1. r.st.time >= r.st.time
    BY AnswerTypes, SMT
  <1> QED  BY <1>1 DEF Justified

\* A majority that holds a write, and was seen to, stays one.
LEMMA SeenStep ==
  ASSUME Types, Types', Later, NEW c \in Clients, NEW w \in Acks, w.key = cmd[c].key, Seen(c, w),
         \A r \in AnswersOf(c)' : Justified(c, r)
  PROVE  Seen(c, w)'
  <1>1. PICK Q \in SUBSET w.cfg :
           /\ IsQuorum(Q, w.cfg)
           /\ \A n \in Q : store[n][w.key].time >= w.time
           /\ \A n \in Q, r \in AnswersOf(c) : n \in r.read => r.st.time >= w.time
    BY DEF Seen
  <1>2. w.key \in Keys /\ w.cfg \subseteq Servers /\ w.time \in Nat
    BY TimeFacts DEF Acks
  <1>3. \A n \in Q : store'[n][w.key].time >= w.time
    <2> SUFFICES ASSUME NEW n \in Q PROVE store'[n][w.key].time >= w.time
      OBVIOUS
    <2>1. n \in Servers
      BY <1>2
    <2>2. store[n][w.key].time \in Nat
      BY <1>2, <2>1, StoreTimes
    <2>3. store'[n][w.key].time \in Nat
      <3>1. store'[n][w.key] \in States
        BY <1>2, <2>1, SMT DEF Types
      <3> QED  BY <3>1, TimeFacts
    <2>4. store'[n][w.key].time >= store[n][w.key].time
      BY <1>2, <2>1 DEF Later
    <2> QED  BY <1>1, <1>2, <2>2, <2>3, <2>4, SMT
  <1>4. ASSUME NEW n \in Q, NEW r \in AnswersOf(c)', n \in r.read PROVE r.st.time >= w.time
    <2>1. n \in Servers
      BY <1>2
    <2>2. r.st.time \in Nat
      <3>1. r \in Responses
        BY SMT DEF AnswersOf, Types, Nested
      <3>2. r.st \in States
        BY <3>1 DEF Responses
      <3> QED  BY <3>2, TimeFacts
    <2>3. CASE r.st.time >= store[n][cmd[c].key].time
      <3>1. store[n][w.key].time \in Nat /\ store[n][w.key].time >= w.time
        BY <1>1, <1>2, <2>1, StoreTimes
      <3> QED  BY <1>2, <2>2, <2>3, <3>1, SMT
    <2>4. CASE \E q \in AnswersOf(c) : n \in q.read /\ r.st.time >= q.st.time
      <3>1. PICK q \in AnswersOf(c) : n \in q.read /\ r.st.time >= q.st.time
        BY <2>4
      <3>2. q.st.time \in Nat /\ q.st.time >= w.time
        BY <1>1, <3>1, AnswerTypes
      <3> QED  BY <1>2, <2>2, <3>1, <3>2, SMT
    <2> QED  BY <1>4, <2>3, <2>4 DEF Justified
  <1> QED  BY <1>1, <1>3, <1>4 DEF Seen

\* The order of times is transitive.
LEMMA AtLeast == \A a, b, d \in Nat : a >= b /\ b >= d => a >= d
  BY SMT

\* A response stays true when the map only moves on.
LEMMA RespStep ==
  ASSUME Types, Types', Flow, UNCHANGED <<cmd, issued>>, Later, NEW r \in Responses, RespOK(r)
  PROVE  RespOK(r)'
  <1> DEFINE c == r.call.client
  <1>1. c \in Clients /\ r.node \in Servers
    BY DEF Responses, CallIDs
  <1>2. /\ issued'[c] = issued[c] /\ cmd'[c] = cmd[c] /\ (Running(c)' <=> Running(c))
        /\ Call(c)' = Call(c)
    <2>1. cmd' = cmd /\ issued' = issued
      OBVIOUS
    <2>2. Running(c)' <=> Running(c)
      BY <2>1 DEF Running
    <2>3. Call(c)' = Call(c)
      BY <2>1 DEF Call
    <2> QED  BY <2>1, <2>2, <2>3
  <1>3. ASSUME Running(c), cmd[c].op = "WriteQC",
               store[r.node][cmd[c].key].time >= cmd[c].time
        PROVE  store'[r.node][cmd[c].key].time >= cmd[c].time
    <2>1. cmd[c].key \in Keys /\ cmd[c].time \in Times
      BY <1>1, <1>3 DEF Flow, CmdOK, WriteOps
    <2>2. cmd[c].time \in Nat /\ store[r.node][cmd[c].key].time \in Nat
      BY <1>1, <2>1, StoreTimes, TimeFacts
    <2>3. store'[r.node][cmd[c].key].time \in Nat
      <3>1. store'[r.node][cmd[c].key] \in States
        BY <1>1, <2>1 DEF Types
      <3> QED  BY <3>1, TimeFacts
    <2>4. store'[r.node][cmd[c].key].time >= store[r.node][cmd[c].key].time
      BY <1>1, <2>1 DEF Later
    <2> QED  BY <1>3, <2>2, <2>3, <2>4, AtLeast
  <1> QED  BY <1>2, <1>3 DEF RespOK

\* Acknowledged writes stay when the map only moves on.
LEMMA AckedStep ==
  ASSUME Types, Types', AckedWritesStay, Later, NEW w \in acked
  PROVE  \E Q \in SUBSET w.cfg : IsQuorum(Q, w.cfg) /\ \A n \in Q : store'[n][w.key].time >= w.time
  <1>1. PICK Q \in SUBSET w.cfg :
           IsQuorum(Q, w.cfg) /\ \A n \in Q : store[n][w.key].time >= w.time
    BY DEF AckedWritesStay
  <1>2. w.key \in Keys /\ w.cfg \subseteq Servers /\ w.time \in Nat
    BY TimeFacts DEF Acks, Types
  <1>3. ASSUME NEW n \in Q PROVE store'[n][w.key].time >= w.time
    <2>1. n \in Servers
      BY <1>2
    <2>2. store[n][w.key].time \in Nat
      BY <1>2, <2>1, StoreTimes
    <2>3. store'[n][w.key].time \in Nat
      <3>1. store'[n][w.key] \in States
        BY <1>2, <2>1, SMT DEF Types
      <3> QED  BY <3>1, TimeFacts
    <2>4. store'[n][w.key].time >= store[n][w.key].time
      BY <1>2, <2>1 DEF Later
    <2> QED  BY <1>1, <1>2, <2>2, <2>3, <2>4, SMT
  <1> QED  BY <1>1, <1>3

\* Moving messages keeps their meaning and the acknowledged writes.
LEMMA ExchangeStep ==
  ASSUME Types, Types', Flow, Fresh, AckedWritesStay, Exchange
  PROVE  Flow' /\ Fresh' /\ AckedWritesStay'
  <1>1. UNCHANGED <<cmd, issued, acked>> /\ Later
    BY DEF Exchange
  <1>2. \A r \in Responses : RespOK(r) => RespOK(r)'
    BY <1>1, RespStep
  <1>3. \A m : ReqOK(m)' <=> ReqOK(m)
    BY <1>1 DEF ReqOK, Running
  <1>4. \A h : NestOK(h)' <=> NestOK(h)
    BY <1>3 DEF NestOK
  <1>5. \A c \in Clients : CmdOK(c)'
    BY <1>1 DEF Flow, CmdOK, Running
  <1>6. ASSUME NEW c \in Clients PROVE GotOK(c)'
    <2>1. (Running(c)' <=> Running(c)) /\ Call(c)' = Call(c)
      BY <1>1 DEF Running, Call
    <2>2. ASSUME NEW r \in got'[c] PROVE Running(c) /\ r.call = Call(c) /\ RespOK(r)'
      <3>1. CASE r \in got[c]
        <4>1. r \in Responses
          BY <3>1 DEF Types
        <4>2. Running(c) /\ r.call = Call(c) /\ RespOK(r)
          BY <3>1 DEF Flow, GotOK
        <4> QED  BY <1>2, <4>1, <4>2
      <3>2. CASE r \notin got[c]
        BY <2>2, <3>2 DEF Exchange
      <3> QED  BY <3>1, <3>2
    <2> QED  BY <2>1, <2>2 DEF GotOK
  <1>7. ASSUME NEW r \in replies' PROVE RespOK(r)'
    <2>1. CASE r \in replies
      BY <1>2, <2>1 DEF Flow, Types
    <2>2. CASE r \notin replies
      BY <1>7, <2>2 DEF Exchange
    <2> QED  BY <2>1, <2>2
  <1>8. Flow'
    BY <1>3, <1>4, <1>5, <1>6, <1>7 DEF Flow, Exchange
  <1>9. Fresh'
    <2> SUFFICES ASSUME NEW c \in Clients, Running(c), NEW w \in cmd[c].seen, w.key = cmd[c].key
                 PROVE  Seen(c, w)'
      BY <1>1 DEF Fresh, Running
    <2>1. w \in Acks
      BY DEF Types, Cmds
    <2>2. Seen(c, w)
      BY DEF Fresh
    <2>3. \A r \in AnswersOf(c)' : Justified(c, r)
      BY DEF Exchange
    <2> QED  BY <1>1, <2>1, <2>2, <2>3, SeenStep
  <1>10. AckedWritesStay'
    BY <1>1, AckedStep DEF AckedWritesStay
  <1> QED  BY <1>8, <1>9, <1>10

\* The responses to c after a step come from somewhere.
LEMMA AnswersFrom ==
  ASSUME NEW c \in Clients, issued' = issued, NEW r \in AnswersOf(c)'
  PROVE  \/ r \in got'[c]
         \/ r \in replies' /\ Mine(r.call, c)
         \/ \E h \in nested' : Mine(h.call, c) /\ r \in h.got
  BY DEF AnswersOf, Mine

\* A request is answered by its handler.
LEMMA RespondExchange ==
  ASSUME Types, Flow, NEW m \in Requests, ReqOK(m), NEW rest \in SUBSET Requests,
         \A x \in rest : ReqOK(x), NEW r \in Responses, r.call = m.call, Respond(m, rest, r),
         UNCHANGED <<cmd, got, issued, acked>>, Later, nested' \subseteq nested, RespOK(r)',
         \A c \in Clients : Running(c) /\ Mine(r.call, c) => Justified(c, r)
  PROVE  Exchange /\ net' \subseteq Requests /\ replies' \subseteq Responses
  <1>1. /\ net' \subseteq Requests /\ replies' \subseteq Responses
        /\ \A x \in net' : x \in rest \/ Same(x, m)
        /\ \A x \in replies' : x \in replies \/ x = r \/ x = Failure(m)
    BY RespondEffect DEF Types
  <1>2. \A x \in net' : ReqOK(x)
    BY <1>1, SameOK
  <1>3. \A h \in nested' : NestOK(h)
    BY DEF Flow
  <1>4. /\ Failure(m).call = m.call /\ Failure(m).err = TRUE /\ Failure(m).read = {}
    BY FailureFields
  <1>6. \A x \in replies' : x \in replies \/ RespOK(x)'
    <2> SUFFICES ASSUME NEW x \in replies', x \notin replies PROVE RespOK(x)'
      OBVIOUS
    <2>1. CASE x = r
      BY <2>1
    <2>2. CASE x = Failure(m)
      BY <1>4, <2>2 DEF RespOK, ReqOK
    <2> QED  BY <1>1, <2>1, <2>2
  <1>7. ASSUME NEW c \in Clients, Running(c), NEW x \in AnswersOf(c)' PROVE Justified(c, x)
    <2>1. CASE x \in AnswersOf(c)
      BY <2>1, OldJustified
    <2>2. CASE x \in replies' /\ Mine(x.call, c) /\ x \notin replies
      <3>1. CASE x = r
        BY <1>7, <2>2, <3>1
      <3>2. CASE x = Failure(m)
        BY <1>4, <3>2 DEF Justified
      <3> QED  BY <1>1, <2>2, <3>1, <3>2
    <2> QED  BY <1>7, <2>1, <2>2, AnswersFrom DEF AnswersOf
  <1> QED  BY <1>1, <1>2, <1>3, <1>6, <1>7 DEF Exchange

\* A response, or an error of the channel, reaches its call.
LEMMA DeliverExchange ==
  ASSUME Types, Flow, NEW r \in Responses, Deliver(r), RespOK(r), r \in replies \/ r.read = {},
         UNCHANGED <<store, cmd, issued, acked>>, replies' \subseteq replies,
         \A m \in net' : ReqOK(m)
  PROVE  /\ Exchange
         /\ got' \in [Clients -> SUBSET Responses] /\ nested' \subseteq Nested
  <1>1. /\ got' \in [Clients -> SUBSET Responses] /\ nested' \subseteq Nested
        /\ \A c \in Clients : \A x \in got'[c] :
              x \in got[c] \/ (x = r /\ Running(c) /\ r.call = Call(c))
        /\ \A h \in nested' : \E g \in nested :
              /\ h.call = g.call /\ h.req = g.req /\ h.cfg = g.cfg
              /\ \A x \in h.got : x \in g.got \/ (x = r /\ h.call = r.call)
    BY DeliverEffect
  <1>2. Later
    <2>1. \A n \in Servers, k \in Keys : store[n][k].time \in Nat
      BY StoreTimes
    <2> QED  BY <2>1, SMT DEF Later
  <1>3. \A h \in nested' : NestOK(h)
    BY <1>1, SMT DEF Flow, NestOK
  <1>4. RespOK(r)'
    BY DEF RespOK, Running, Call
  <1>5. \A c \in Clients : \A x \in got'[c] :
           x \in got[c] \/ (Running(c) /\ x.call = Call(c) /\ RespOK(x)')
    BY <1>1, <1>4
  <1>6. ASSUME NEW c \in Clients, Mine(r.call, c) PROVE Justified(c, r)
    <2>1. CASE r \in replies
      <3>1. r \in AnswersOf(c)
        BY <1>6, <2>1 DEF AnswersOf
      <3> QED  BY <3>1, OldJustified
    <2>2. CASE r.read = {}
      BY <2>2 DEF Justified
    <2> QED  BY <2>1, <2>2
  <1>7. ASSUME NEW c \in Clients, Running(c), NEW x \in AnswersOf(c)' PROVE Justified(c, x)
    <2>1. CASE x \in AnswersOf(c)
      BY <2>1, OldJustified
    <2>2. CASE x \in got'[c] /\ x \notin got[c]
      <3>1. x = r /\ r.call = Call(c) /\ issued[c] \in Nat
        BY <1>1, <2>2 DEF Types
      <3>2. Mine(r.call, c)
        BY <3>1, SMT DEF Call, CallID, Mine
      <3> QED  BY <1>6, <3>1, <3>2
    <2>3. ASSUME NEW h \in nested', Mine(h.call, c), x \in h.got, x \notin AnswersOf(c)
          PROVE  Justified(c, x)
      <3>1. PICK g \in nested : /\ h.call = g.call
                                /\ x \in g.got \/ (x = r /\ h.call = r.call)
        BY <1>1, <2>3
      <3>2. x \notin g.got
        BY <2>3, <3>1 DEF AnswersOf
      <3> QED  BY <1>6, <2>3, <3>1, <3>2
    <2>4. CASE x \in replies' /\ Mine(x.call, c)
      <3>1. x \in AnswersOf(c)
        BY <2>4 DEF AnswersOf
      <3> QED  BY <3>1, <2>1
    <2>5. x \in got[c] => x \in AnswersOf(c)
      BY DEF AnswersOf
    <2> QED  BY <1>7, <2>1, <2>2, <2>3, <2>4, <2>5, AnswersFrom
  <1> QED  BY <1>1, <1>2, <1>3, <1>5, <1>7 DEF Exchange

\* The map does not change.
LEMMA StoreStill ==
  ASSUME Types, store' = store
  PROVE  Later
  <1>1. \A n \in Servers, k \in Keys : store[n][k].time \in Nat
    BY StoreTimes
  <1> QED  BY <1>1, SMT DEF Later

\* The transport only moves messages.
LEMMA TransportStep ==
  ASSUME Types, Flow, Transport
  PROVE  Types' /\ Exchange /\ UNCHANGED <<store, handled>>
  <1>1. ASSUME NEW r \in replies, Receive(r) PROVE Types' /\ Exchange /\ UNCHANGED <<store, handled>>
    <2>1. /\ replies' = replies \ {r} /\ Deliver(r)
          /\ UNCHANGED <<store, cmd, net, input, issued, faults, acked, handled>>
      BY <1>1 DEF Receive
    <2>2. r \in Responses /\ RespOK(r) /\ \A m \in net' : ReqOK(m)
      BY <2>1 DEF Types, Flow
    <2>3. Exchange /\ got' \in [Clients -> SUBSET Responses] /\ nested' \subseteq Nested
      BY <2>1, <2>2, DeliverExchange
    <2> QED  BY <2>1, <2>3 DEF Types
  <1>2. ASSUME NEW m \in net, Transmit(m) PROVE Types' /\ Exchange /\ UNCHANGED <<store, handled>>
    <2>1. PICK r : r = Response(m, FALSE, FALSE, Absent, {})
      OBVIOUS
    <2>2. /\ net' = (net \ {m}) \cup {[m EXCEPT !.sent = TRUE]} /\ Deliver(r)
          /\ UNCHANGED <<store, cmd, replies, input, issued, acked, handled>>
      BY <1>2, <2>1 DEF Transmit
    <2>3. m \in Requests /\ ReqOK(m)
      BY DEF Types, Flow
    <2>4. /\ r \in Responses /\ r.call = m.call /\ r.isNew = FALSE /\ r.read = {}
      <3>1. m.call \in CallIDs /\ m.to \in Servers /\ Absent \in States
        BY <2>3, TimeFacts DEF Requests
      <3> QED  BY <2>1, <3>1 DEF Response, Responses
    <2>5. RespOK(r)
      BY <2>3, <2>4 DEF RespOK, ReqOK
    <2>6. \A x \in net' : x \in net \/ Same(x, m)
      BY <2>2, <2>3, CopyFields
    <2>7. (\A x \in net' : ReqOK(x)) /\ net' \subseteq Requests
      BY <2>3, <2>6, SameOK DEF Flow, Types, Same
    <2>8. Exchange /\ got' \in [Clients -> SUBSET Responses] /\ nested' \subseteq Nested
      BY <2>2, <2>4, <2>5, <2>7, DeliverExchange
    <2> QED  BY <2>2, <2>7, <2>8 DEF Types
  <1>3. ASSUME NEW m \in net, SendFails(m) PROVE Types' /\ Exchange /\ UNCHANGED <<store, handled>>
    <2>1. /\ net' = net \ {m} /\ Deliver(Failure(m))
          /\ UNCHANGED <<store, cmd, replies, input, issued, acked, handled>>
      BY <1>3 DEF SendFails
    <2>2. m \in Requests /\ ReqOK(m) /\ (\A x \in net' : ReqOK(x)) /\ net' \subseteq Requests
      BY <2>1 DEF Types, Flow
    <2>3. PICK r : r = Failure(m)
      OBVIOUS
    <2>4. r \in Responses /\ r.call = m.call /\ r.err = TRUE /\ r.read = {} /\ Deliver(r)
      BY <2>1, <2>2, <2>3, FailureFields
    <2>5. RespOK(r)
      BY <2>2, <2>4 DEF RespOK, ReqOK
    <2>6. Exchange /\ got' \in [Clients -> SUBSET Responses] /\ nested' \subseteq Nested
      BY <2>1, <2>2, <2>4, <2>5, DeliverExchange
    <2> QED  BY <2>1, <2>2, <2>6 DEF Types
  <1> QED  BY <1>1, <1>2, <1>3 DEF Transport

\* Write moves the map of its server on, and keeps the latest write.
LEMMA WriteStep ==
  ASSUME Types, Flow, NEW m \in net, Write(m)
  PROVE  /\ Types' /\ Exchange
         /\ Latest => Latest'
         /\ Unstored => Unstored'
  <1>0. m \in Requests /\ ReqOK(m)
    BY DEF Types, Flow
  <1>1. /\ m.to \in Servers /\ m.key \in Keys /\ m.call \in CallIDs
        /\ m.op \in WriteOps /\ m.time \in Times /\ m.value \in Values
    BY <1>0 DEF Requests, Write, WriteOps, ReqOK
  <1>2. PICK st : st = [value |-> m.value, time |-> m.time]
    OBVIOUS
  <1>3. PICK wr : wr = [key |-> m.key, value |-> m.value, time |-> m.time]
    OBVIOUS
  <1>4. /\ st \in States /\ st.time = m.time /\ m.time \in Nat
        /\ wr \in Writes /\ wr.key = m.key /\ wr.time = m.time /\ wr.value = m.value
    BY <1>1, <1>2, <1>3, TimeFacts DEF Writes
  <1>5. PICK old \in BOOLEAN : old <=> store[m.to][m.key].time > m.time
    OBVIOUS
  <1>6. PICK r : r = Response(m, FALSE, ~old, Absent, {})
    OBVIOUS
  <1>7. /\ store' = IF old THEN store ELSE [store EXCEPT ![m.to][m.key] = st]
        /\ handled' = [handled EXCEPT ![m.to] = @ \cup {wr}]
        /\ UNCHANGED <<cmd, got, nested, input, issued, acked>>
    BY <1>2, <1>3, <1>5 DEF Write, TooOld
  <1>8. Respond(m, net \ {m}, r)
    <2>1. TooOld(m) <=> old
      BY <1>5 DEF TooOld
    <2>2. Respond(m, net \ {m}, Response(m, FALSE, ~TooOld(m), Absent, {}))
      BY DEF Write
    <2>3. (~TooOld(m)) = ~old
      BY <2>1 DEF TooOld
    <2> QED  BY <1>6, <2>2, <2>3
  <1>9. \A n \in Servers, k \in Keys :
           store'[n][k] = IF ~old /\ n = m.to /\ k = m.key THEN st ELSE store[n][k]
    BY <1>1, <1>7 DEF Types
  <1>10. store' \in [Servers -> [Keys -> States]]
    BY <1>1, <1>4, <1>7 DEF Types
  <1>11. handled' \in [Servers -> SUBSET Writes]
    BY <1>1, <1>4, <1>7 DEF Types
  <1>12. Later
    <2> SUFFICES ASSUME NEW n \in Servers, NEW k \in Keys
                 PROVE  store'[n][k].time >= store[n][k].time
      BY DEF Later
    <2>1. store[n][k].time \in Nat
      BY StoreTimes
    <2>2. CASE ~old /\ n = m.to /\ k = m.key
      BY <1>4, <1>5, <1>9, <2>1, <2>2, SMT
    <2>3. CASE ~(~old /\ n = m.to /\ k = m.key)
      BY <1>9, <2>1, <2>3, SMT
    <2> QED  BY <2>2, <2>3
  <1>13. /\ r \in Responses /\ r.call = m.call /\ r.node = m.to /\ r.isNew = ~old /\ r.read = {}
    <2>1. PICK new \in BOOLEAN : new = ~old
      OBVIOUS
    <2>2. Absent \in States
      BY TimeFacts
    <2> QED  BY <1>1, <1>6, <2>1, <2>2 DEF Response, Responses
  <1>14. RespOK(r)'
    <2> DEFINE c == m.call.client
    <2>1. c \in Clients
      BY <1>1 DEF CallIDs
    <2>2. m.call.num <= issued'[c]
      BY <1>0, <1>7 DEF ReqOK
    <2>3. ASSUME Running(c)', cmd'[c].op = "WriteQC", m.call = Call(c)', ~old
          PROVE  m.to \in cmd'[c].cfg /\ store'[m.to][cmd'[c].key].time >= cmd'[c].time
      <3>1. Running(c) /\ m.call.num = issued[c] /\ m.call.via = None
        BY <1>7, <2>3, SMT DEF Running, Call, CallID
      <3>2. m.key = cmd[c].key /\ m.time = cmd[c].time /\ m.to \in cmd[c].cfg
        BY <1>0, <3>1 DEF ReqOK
      <3>3. store'[m.to][m.key] = st
        BY <1>1, <1>9, <2>3
      <3> QED  BY <1>4, <1>7, <3>2, <3>3, SMT
    <2> QED  BY <1>13, <2>2, <2>3 DEF RespOK
  <1>15. Exchange /\ net' \subseteq Requests /\ replies' \subseteq Responses
    <2>1. net \ {m} \in SUBSET Requests /\ \A x \in net \ {m} : ReqOK(x)
      BY DEF Types, Flow
    <2>2. \A c \in Clients : Justified(c, r)
      BY <1>13 DEF Justified
    <2>3. nested' \subseteq nested /\ UNCHANGED <<cmd, got, issued, acked>>
      BY <1>7
    <2> QED  BY <1>0, <1>8, <1>12, <1>13, <1>14, <2>1, <2>2, <2>3, RespondExchange
  <1>16. Types'
    BY <1>7, <1>10, <1>11, <1>15 DEF Types
  <1>17. ASSUME Latest PROVE Latest'
    <2> SUFFICES ASSUME NEW n \in Servers, NEW k \in Keys
                 PROVE  LET W == {w \in handled'[n] : w.key = k}
                        IN /\ W = {} => store'[n][k] = Absent
                           /\ W # {} => \E w \in W : store'[n][k] = [value |-> w.value, time |-> w.time]
                           /\ \A w \in W : w.time <= store'[n][k].time
      BY DEF Latest
    <2> DEFINE V == {w \in handled[n] : w.key = k}
               W == {w \in handled'[n] : w.key = k}
    <2>1. /\ V = {} => store[n][k] = Absent
          /\ V # {} => \E w \in V : store[n][k] = [value |-> w.value, time |-> w.time]
          /\ \A w \in V : w.time <= store[n][k].time
      BY <1>17 DEF Latest
    <2>2. handled'[n] = IF n = m.to THEN handled[n] \cup {wr} ELSE handled[n]
      BY <1>1, <1>7 DEF Types
    <2>3. store[n][k].time \in Nat /\ \A w \in V : w.time \in Nat
      <3>1. \A w \in V : w \in Writes
        BY DEF Types
      <3> QED  BY <3>1, StoreTimes, TimeFacts DEF Writes
    <2>4. CASE ~(n = m.to /\ k = m.key)
      <3>1. W = V
        BY <1>4, <2>2, <2>4
      <3>2. store'[n][k] = store[n][k]
        BY <1>9, <2>4
      <3> HIDE DEF V, W
      <3>3. /\ W = {} => store'[n][k] = Absent
            /\ W # {} => \E w \in W : store'[n][k] = [value |-> w.value, time |-> w.time]
            /\ \A w \in W : w.time <= store'[n][k].time
        BY <2>1, <3>1, <3>2
      <3> QED  BY <3>3 DEF W
    <2>5. CASE n = m.to /\ k = m.key
      <3>1. W = V \cup {wr}
        BY <1>4, <2>2, <2>5
      <3> HIDE DEF V, W
      <3>2. CASE old
        <4>1. store'[n][k] = store[n][k] /\ store[n][k].time > m.time
          BY <1>5, <1>9, <2>5, <3>2
        <4>2. V # {}
          <5>1. store[n][k] # Absent
            BY <1>4, <2>3, <4>1, TimeFacts, SMT
          <5> QED  BY <2>1, <5>1
        <4>3. \A w \in W : w.time <= store'[n][k].time
          BY <1>4, <2>1, <2>3, <3>1, <4>1, SMT
        <4>4. \E w \in W : store'[n][k] = [value |-> w.value, time |-> w.time]
          BY <2>1, <3>1, <4>1, <4>2
        <4> QED  BY <4>3, <4>4 DEF W
      <3>3. CASE ~old
        <4>1. store'[n][k] = st /\ store[n][k].time <= m.time
          BY <1>4, <1>5, <1>9, <2>3, <2>5, <3>3, SMT
        <4>2. \A w \in W : w.time <= store'[n][k].time
          <5>1. \A w \in V : w.time <= m.time
            BY <1>4, <2>1, <2>3, <4>1, SMT
          <5> QED  BY <1>4, <3>1, <4>1, <5>1, SMT
        <4>3. wr \in W /\ store'[n][k] = [value |-> wr.value, time |-> wr.time]
          BY <1>2, <1>4, <3>1, <4>1
        <4> QED  BY <4>2, <4>3 DEF W
      <3> QED  BY <3>2, <3>3
    <2> QED  BY <2>4, <2>5
  <1>18. ASSUME Unstored PROVE Unstored'
    <2> SUFFICES ASSUME NEW n \in Filtering, Foo \in Keys PROVE store'[n][Foo] = Absent
      BY DEF Unstored
    <2>1. n \in Servers
      BY StorageAssumption
    <2>2. ~(n = m.to /\ Foo = m.key)
      BY <1>1 DEF Write, Rejected
    <2>3. store'[n][Foo] = store[n][Foo]
      BY <1>9, <2>1, <2>2
    <2> QED  BY <1>18, <2>3 DEF Unstored
  <1> QED  BY <1>15, <1>16, <1>17, <1>18

\* The response of a nested handler shows no less than those it got.
LEMMA NestedResponse ==
  ASSUME Types, Flow, NEW h \in nested, NEW r \in NestedResponses(h)
  PROVE  /\ h.req \in Requests /\ ReqOK(h.req)
         /\ r \in Responses /\ r.call = h.req.call
         /\ issued' = issued /\ cmd' = cmd => RespOK(r)'
         /\ \A c \in Clients : Mine(r.call, c) => Justified(c, r)
  <1>1. h \in Nested /\ NestOK(h)
    BY DEF Types, Flow
  <1>2. h.req \in Requests /\ ReqOK(h.req) /\ h.got \subseteq Responses
    BY <1>1 DEF Nested, NestOK
  <1>3. h.req.call \in CallIDs /\ h.req.to \in Servers /\ Absent \in States
    BY <1>2, TimeFacts DEF Requests
  <1>4. ReadFrom(h.got) \subseteq Servers /\ newestValue(h.got) \subseteq States
    BY <1>2 DEF ReadFrom, newestValue, Successes, Responses
  <1>5. CASE r = Failure(h.req)
    <2>1. r \in Responses /\ r.call = h.req.call /\ r.err = TRUE /\ r.read = {}
      BY <1>2, <1>5, FailureFields
    <2> QED  BY <1>2, <2>1 DEF RespOK, ReqOK, Justified
  <1>6. CASE r = Response(h.req, FALSE, TRUE, Absent, {})
    <2>1. r \in Responses /\ r.call = h.req.call /\ r.read = {}
      BY <1>3, <1>6 DEF Response, Responses
    <2>2. ASSUME issued' = issued, cmd' = cmd PROVE RespOK(r)'
      <3> DEFINE c == h.req.call.client
      <3>1. h.req.call.num <= issued[c]
        BY <1>2 DEF ReqOK
      <3>2. ASSUME Running(c), cmd[c].op = "WriteQC", h.req.call = Call(c) PROVE FALSE
        <4>1. h.req.call.num = issued[c] /\ h.req.call.via = None
          BY <3>2, SMT DEF Call, CallID
        <4>2. h.req.op = cmd[c].op
          BY <1>2, <3>2, <4>1 DEF ReqOK
        <4> QED  BY <1>1, <3>2, <4>2 DEF NestOK, NestedOps
      <3> QED  BY <2>1, <2>2, <3>1, <3>2 DEF RespOK, Running, Call
    <2> QED  BY <1>2, <2>1, <2>2 DEF Justified
  <1>7. ASSUME NEW st \in newestValue(h.got), r = Response(h.req, FALSE, FALSE, st, ReadFrom(h.got))
        PROVE  /\ r \in Responses /\ r.call = h.req.call
               /\ issued' = issued => RespOK(r)'
               /\ \A c \in Clients : Mine(r.call, c) => Justified(c, r)
    <2>1. /\ r \in Responses /\ r.call = h.req.call /\ r.isNew = FALSE /\ r.st = st
          /\ r.read = ReadFrom(h.got)
      BY <1>3, <1>4, <1>7 DEF Response, Responses
    <2>2. issued' = issued => RespOK(r)'
      BY <1>2, <2>1 DEF RespOK, ReqOK
    <2>3. ASSUME NEW c \in Clients, Mine(r.call, c) PROVE Justified(c, r)
      <3>1. Mine(h.call, c)
        BY <1>1, <2>1, <2>3 DEF NestOK, Mine
      <3>2. h.got \subseteq AnswersOf(c)
        BY <3>1 DEF AnswersOf
      <3>3. \A q \in Successes(h.got) : st.time >= q.st.time
        BY DEF newestValue
      <3>4. \A n \in r.read : \E q \in Successes(h.got) : n \in q.read
        BY <2>1 DEF ReadFrom
      <3>5. Successes(h.got) \subseteq h.got
        BY DEF Successes
      <3> QED  BY <2>1, <3>2, <3>3, <3>4, <3>5 DEF Justified
    <2> QED  BY <2>1, <2>2, <2>3
  <1> QED  BY <1>2, <1>5, <1>6, <1>7 DEF NestedResponses

\* Handlers answer what they stored and only replace older states.
LEMMA ServerStep ==
  ASSUME Types, Flow, Server
  PROVE  /\ Types' /\ Exchange
         /\ Latest => Latest'
         /\ Unstored => Unstored'
  <1>0. UNCHANGED <<store, handled>> => (Latest => Latest') /\ (Unstored => Unstored')
    BY SMT DEF Latest, Unstored
  <1>1. ASSUME NEW m \in net, HandleRejected(m) PROVE Types' /\ Exchange /\ UNCHANGED <<store, handled>>
    <2>1. /\ Respond(m, net \ {m}, Failure(m))
          /\ UNCHANGED <<store, cmd, got, nested, input, issued, acked, handled>>
      BY <1>1 DEF HandleRejected
    <2>2. /\ m \in Requests /\ ReqOK(m) /\ net \ {m} \in SUBSET Requests
          /\ \A x \in net \ {m} : ReqOK(x)
      BY DEF Types, Flow
    <2>3. PICK r : r = Failure(m)
      OBVIOUS
    <2>4. r \in Responses /\ r.call = m.call /\ r.err = TRUE /\ r.read = {}
      BY <2>2, <2>3, FailureFields
    <2>5. RespOK(r)'
      BY <2>1, <2>2, <2>4 DEF RespOK, ReqOK
    <2>6. \A c \in Clients : Justified(c, r)
      BY <2>4 DEF Justified
    <2>7. Later /\ nested' \subseteq nested /\ Respond(m, net \ {m}, r)
      BY <2>1, <2>3, StoreStill
    <2>8. Exchange /\ net' \subseteq Requests /\ replies' \subseteq Responses
      BY <2>1, <2>2, <2>4, <2>5, <2>6, <2>7, RespondExchange
    <2> QED  BY <2>1, <2>8 DEF Types
  <1>2. ASSUME NEW m \in net, Read(m) PROVE Types' /\ Exchange /\ UNCHANGED <<store, handled>>
    <2>1. PICK r : r = Response(m, FALSE, FALSE, store[m.to][m.key], {m.to})
      OBVIOUS
    <2>2. /\ Respond(m, net \ {m}, r)
          /\ UNCHANGED <<store, cmd, got, nested, input, issued, acked, handled>>
      BY <1>2, <2>1 DEF Read
    <2>3. /\ m \in Requests /\ ReqOK(m) /\ net \ {m} \in SUBSET Requests
          /\ \A x \in net \ {m} : ReqOK(x)
      BY DEF Types, Flow
    <2>4. /\ m.call \in CallIDs /\ m.to \in Servers /\ m.key \in Keys
      BY <2>3 DEF Requests
    <2>5. store[m.to][m.key] \in States /\ store[m.to][m.key].time \in Nat
      BY <2>4, StoreTimes
    <2>6. /\ r \in Responses /\ r.call = m.call /\ r.isNew = FALSE
          /\ r.st = store[m.to][m.key] /\ r.read = {m.to}
      BY <2>1, <2>4, <2>5 DEF Response, Responses
    <2>7. RespOK(r)'
      BY <2>2, <2>3, <2>6 DEF RespOK, ReqOK
    <2>8. ASSUME NEW c \in Clients, Running(c), Mine(r.call, c) PROVE Justified(c, r)
      <3>1. m.key = cmd[c].key
        BY <2>3, <2>6, <2>8 DEF ReqOK, Mine
      <3> QED  BY <2>5, <2>6, <3>1, SMT DEF Justified
    <2>9. Later /\ nested' \subseteq nested
      BY <2>2, StoreStill
    <2>10. Exchange /\ net' \subseteq Requests /\ replies' \subseteq Responses
      BY <2>2, <2>3, <2>6, <2>7, <2>8, <2>9, RespondExchange
    <2> QED  BY <2>2, <2>10 DEF Types
  <1>3. ASSUME NEW m \in net, NEW cfg \in PeerConfigs, StartNested(m, cfg)
        PROVE  Types' /\ Exchange /\ UNCHANGED <<store, handled>>
    <2>1. UNCHANGED <<store, cmd, got, input, issued, acked, handled>> /\ m.op \in NestedOps
      BY <1>3 DEF StartNested
    <2>2. /\ m \in Requests /\ ReqOK(m) /\ net \ {m} \in SUBSET Requests
          /\ \A x \in net \ {m} : ReqOK(x)
      BY DEF Types, Flow
    <2>3. Later
      BY <2>1, StoreStill
    <2>4. CASE cfg = {}
      <3>1. Respond(m, net \ {m}, Failure(m)) /\ nested' = nested
        BY <1>3, <2>4 DEF StartNested
      <3>2. PICK r : r = Failure(m)
        OBVIOUS
      <3>3. r \in Responses /\ r.call = m.call /\ r.err = TRUE /\ r.read = {}
        BY <2>2, <3>2, FailureFields
      <3>4. RespOK(r)'
        BY <2>1, <2>2, <3>3 DEF RespOK, ReqOK
      <3>5. \A c \in Clients : Justified(c, r)
        BY <3>3 DEF Justified
      <3>6. Exchange /\ net' \subseteq Requests /\ replies' \subseteq Responses
        BY <2>1, <2>2, <2>3, <3>1, <3>2, <3>3, <3>4, <3>5, RespondExchange
      <3> QED  BY <2>1, <3>1, <3>6 DEF Types
    <2>5. CASE cfg # {}
      <3>1. PICK id : id = CallID(m.call.client, m.call.num, m.to, m.copy)
        OBVIOUS
      <3>2. PICK g : g = [call |-> id, req |-> m, cfg |-> cfg, got |-> {}]
        OBVIOUS
      <3>3. /\ net' = (net \ {m}) \cup
                      {Request(id, InnerOp(m.op), n, m.key, m.value, m.time) : n \in cfg}
            /\ nested' = nested \cup {g} /\ replies' = replies
        BY <1>3, <2>5, <3>1, <3>2 DEF StartNested
      <3>4. /\ m.call \in CallIDs /\ m.call.client \in Clients /\ m.call.num \in Nat
            /\ m.to \in Servers /\ m.copy \in Nat /\ m.key \in Keys
            /\ m.value \in Values \cup {None} /\ m.time \in Times \cup {0}
        BY <2>2 DEF Requests, CallIDs
      <3>5. /\ id \in CallIDs /\ id.client = m.call.client /\ id.num = m.call.num
            /\ id.via = m.to /\ id.via # None
        BY <3>1, <3>4, CallFields, StorageAssumption, SMT
      <3>6. cfg \subseteq Servers
        BY StorageAssumption
      <3>7. /\ InnerOp(m.op) \in {"ReadQC", "WriteMulticast"} /\ InnerOp(m.op) \in Ops
            /\ InnerOp(m.op) \in WriteOps => m.op \in WriteOps
        BY <2>1 DEF InnerOp, NestedOps, Ops, ReadOps, WriteOps
      <3>8. ASSUME NEW n \in cfg, NEW x, x = Request(id, InnerOp(m.op), n, m.key, m.value, m.time)
            PROVE  x \in Requests /\ ReqOK(x)
        <4>1. /\ x \in Requests /\ x.call = id /\ x.op = InnerOp(m.op) /\ x.key = m.key
              /\ x.value = m.value /\ x.time = m.time
          BY <3>4, <3>5, <3>6, <3>7, <3>8, RequestFields, SMT
        <4> QED  BY <2>2, <3>5, <3>7, <4>1 DEF ReqOK
      <3>9. net' \subseteq Requests /\ \A x \in net' : ReqOK(x)
        BY <2>2, <3>3, <3>8
      <3>10. /\ g \in Nested /\ g.call = id /\ g.req = m /\ g.got = {}
        BY <2>2, <3>2, <3>5, <3>6 DEF Nested
      <3>11. nested' \subseteq Nested /\ \A h \in nested' : NestOK(h)
        BY <2>1, <2>2, <3>3, <3>5, <3>10 DEF Types, Flow, NestOK
      <3>12. ASSUME NEW c \in Clients, NEW x \in AnswersOf(c)' PROVE Justified(c, x)
        <4>1. x \in AnswersOf(c)
          BY <2>1, <3>3, <3>10, <3>12, AnswersFrom, SMT DEF AnswersOf
        <4> QED  BY <4>1, OldJustified
      <3>13. Exchange
        BY <2>1, <2>3, <3>3, <3>9, <3>11, <3>12 DEF Exchange
      <3> QED  BY <2>1, <3>3, <3>9, <3>11, <3>13 DEF Types
    <2> QED  BY <2>1, <2>4, <2>5
  <1>4. ASSUME NEW h \in nested, EndNested(h) PROVE Types' /\ Exchange /\ UNCHANGED <<store, handled>>
    <2>1. PICK r \in NestedResponses(h) : Respond(h.req, net, r)
      BY <1>4 DEF EndNested
    <2>2. /\ nested' = nested \ {h}
          /\ UNCHANGED <<store, cmd, got, input, issued, acked, handled>>
      BY <1>4 DEF EndNested
    <2>3. /\ h.req \in Requests /\ ReqOK(h.req)
          /\ r \in Responses /\ r.call = h.req.call /\ RespOK(r)'
          /\ \A c \in Clients : Mine(r.call, c) => Justified(c, r)
      BY <2>2, NestedResponse
    <2>4. net \in SUBSET Requests /\ (\A x \in net : ReqOK(x)) /\ nested' \subseteq nested
      BY <2>2 DEF Types, Flow
    <2>5. Later
      BY <2>2, StoreStill
    <2>6. Exchange /\ net' \subseteq Requests /\ replies' \subseteq Responses
      BY <2>1, <2>2, <2>3, <2>4, <2>5, RespondExchange
    <2> QED  BY <2>2, <2>6 DEF Types
  <1> QED  BY <1>0, <1>1, <1>2, <1>3, <1>4, WriteStep DEF Server

-----------------------------------------------------------------------------
(* Steps of the clients *)

\* Majority votes overlap.
LEMMA Overlap ==
  ASSUME NEW S, IsFiniteSet(S), NEW A \in SUBSET S, NEW B \in SUBSET S,
         Cardinality(A) + Cardinality(B) > Cardinality(S)
  PROVE  A \cap B # {}
  <1> SUFFICES ASSUME A \cap B = {} PROVE FALSE
    OBVIOUS
  <1>1. IsFiniteSet(A) /\ IsFiniteSet(B) /\ IsFiniteSet(A \cup B) /\ A \cup B \subseteq S
    BY FS_Subset
  <1>2. Cardinality(A \cup B) <= Cardinality(S)
    BY <1>1, FS_Subset
  <1>3. Cardinality(A \cup B) = Cardinality(A) + Cardinality(B) - Cardinality(A \cap B)
    BY <1>1, FS_Union
  <1>4. Cardinality(A \cap B) = 0
    BY FS_EmptySet
  <1>5. /\ Cardinality(A) \in Nat /\ Cardinality(B) \in Nat /\ Cardinality(S) \in Nat
        /\ Cardinality(A \cup B) \in Nat
    BY <1>1, FS_CardinalityType
  <1> QED  BY <1>2, <1>3, <1>4, <1>5, SMT

\* A new command starts without responses, behind all writes reported so far.
LEMMA IssueStep ==
  ASSUME Types, Flow, Fresh, AckedWritesStay, NEW c \in Clients, NEW t \in Times, Issue(c, t)
  PROVE  Types' /\ Flow' /\ Fresh' /\ AckedWritesStay' /\ UNCHANGED <<store, handled>>
  <1>1. PICK m : m = Head(input[c])
    OBVIOUS
  <1>2. PICK i : i = issued[c] + 1
    OBVIOUS
  <1>3. PICK value : value = IF m.op \in WriteOps THEN <<c, i>> ELSE None
    OBVIOUS
  <1>4. PICK time : time = IF m.op \in WriteOps THEN t ELSE 0
    OBVIOUS
  <1>5. PICK k : k = [op |-> m.op, cfg |-> m.cfg, key |-> m.key, value |-> value, time |-> time,
                      seen |-> acked, res |-> "running"]
    OBVIOUS
  <1>6. PICK id : id = CallID(c, i, None, 0)
    OBVIOUS
  <1>7. /\ ~Running(c) /\ input[c] # <<>> /\ input' = [input EXCEPT ![c] = Tail(@)]
        /\ cmd' = [cmd EXCEPT ![c] = k] /\ got' = [got EXCEPT ![c] = {}]
        /\ net' = net \cup {Request(id, m.op, n, m.key, value, time) : n \in m.cfg}
        /\ issued' = [issued EXCEPT ![c] = i]
        /\ UNCHANGED <<store, replies, nested, acked, handled>>
    BY <1>1, <1>2, <1>3, <1>4, <1>5, <1>6 DEF Issue
  <1>8. m \in Commands /\ Tail(input[c]) \in Seq(Commands)
    BY <1>1, <1>7, SMT DEF Types
  <1>9. m.op \in Ops /\ m.cfg \in SUBSET Servers /\ m.key \in Keys
    BY <1>8 DEF Commands, Ops
  <1>10. issued[c] \in Nat /\ i \in Nat /\ i > issued[c]
    BY <1>2, SMT DEF Types
  <1>11. /\ value \in Values \cup {None} /\ time \in Times \cup {0}
         /\ m.op \in WriteOps => value \in Values /\ time \in Times
    BY <1>3, <1>4, <1>10 DEF Values
  <1>12. /\ k \in Cmds /\ k.op = m.op /\ k.cfg = m.cfg /\ k.key = m.key /\ k.time = time
         /\ k.value = value /\ k.seen = acked /\ k.res = "running"
    BY <1>5, <1>9, <1>11 DEF Cmds, Types
  <1>13. id \in CallIDs /\ id.client = c /\ id.num = i /\ id.via = None
    BY <1>6, <1>10, CallFields, SMT
  <1>14. ASSUME NEW n \in m.cfg, NEW x, x = Request(id, m.op, n, m.key, value, time)
         PROVE  /\ x \in Requests /\ x.call = id /\ x.op = m.op /\ x.to = n /\ x.key = m.key
                /\ x.value = value /\ x.time = time
    BY <1>9, <1>11, <1>13, <1>14, RequestFields, SMTT(60)
  <1>15. Types'
    <2>1. net' \subseteq Requests
      BY <1>7, <1>14, SMT DEF Types
    <2>2. cmd' \in [Clients -> Cmds] /\ got' \in [Clients -> SUBSET Responses]
      BY <1>7, <1>12 DEF Types
    <2>3. input' \in [Clients -> Seq(Commands)] /\ issued' \in [Clients -> Nat]
      BY <1>7, <1>8, <1>10 DEF Types
    <2> QED  BY <1>7, <2>1, <2>2, <2>3 DEF Types
  <1>16. /\ cmd'[c] = k /\ issued'[c] = i /\ got'[c] = {} /\ Running(c)'
         /\ \A d \in Clients \ {c} : cmd'[d] = cmd[d] /\ issued'[d] = issued[d] /\ got'[d] = got[d]
    BY <1>7, <1>12 DEF Types, Running
  <1>17. \A d \in Clients \ {c} : (Running(d)' <=> Running(d)) /\ Call(d)' = Call(d)
    BY <1>16 DEF Running, Call
  <1>18. ASSUME NEW x \in Requests, ReqOK(x) PROVE ReqOK(x)'
    <2>1. x.call.client \in Clients /\ x.call.num \in Nat
      BY DEF Requests, CallIDs
    <2>2. CASE x.call.client = c
      <3>1. x.call.num <= issued[c]
        BY <1>18, <2>2 DEF ReqOK
      <3>2. x.call.num <= i /\ x.call.num # i
        BY <1>10, <2>1, <3>1, SMT
      <3> QED  BY <1>16, <1>18, <2>2, <3>2 DEF ReqOK
    <2>3. CASE x.call.client # c
      BY <1>16, <1>17, <1>18, <2>1, <2>3 DEF ReqOK
    <2> QED  BY <2>2, <2>3
  <1>19. ASSUME NEW r \in Responses, RespOK(r) PROVE RespOK(r)'
    <2>1. r.call.client \in Clients /\ r.call.num \in Nat
      BY DEF Responses, CallIDs
    <2>2. CASE r.call.client = c
      <3>1. r.call.num <= issued[c]
        BY <1>19, <2>2 DEF RespOK
      <3>2. r.call.num <= i /\ r.call.num # i
        BY <1>10, <2>1, <3>1, SMT
      <3>3. r.call # Call(c)'
        BY <1>16, <3>2, SMT DEF Call, CallID
      <3> QED  BY <1>16, <2>2, <3>2, <3>3 DEF RespOK
    <2>3. CASE r.call.client # c
      BY <1>7, <1>16, <1>17, <1>19, <2>1, <2>3 DEF RespOK
    <2> QED  BY <2>2, <2>3
  <1>20. Flow'
    <2>1. \A d \in Clients : CmdOK(d)'
      <3>1. CmdOK(c)'
        BY <1>9, <1>11, <1>12, <1>16 DEF CmdOK
      <3>2. \A d \in Clients \ {c} : CmdOK(d)'
        BY <1>16, <1>17 DEF Flow, CmdOK
      <3> QED  BY <3>1, <3>2
    <2>2. \A d \in Clients : GotOK(d)'
      <3>1. GotOK(c)'
        BY <1>16 DEF GotOK
      <3>2. ASSUME NEW d \in Clients \ {c}, NEW r \in got[d]
            PROVE  Running(d)' /\ r.call = Call(d)' /\ RespOK(r)'
        BY <1>17, <1>19, <3>2 DEF Flow, GotOK, Types
      <3> QED  BY <1>16, <3>1, <3>2 DEF GotOK
    <2>3. \A x \in net' : ReqOK(x)'
      <3>1. \A x \in net : ReqOK(x)'
        BY <1>18 DEF Flow, Types
      <3>2. ASSUME NEW n \in m.cfg, NEW x, x = Request(id, m.op, n, m.key, value, time)
            PROVE  ReqOK(x)'
        <4>1. /\ x.call = id /\ x.op = m.op /\ x.to = n /\ x.key = m.key
              /\ x.value = value /\ x.time = time
          BY <1>14, <3>2
        <4> QED  BY <1>10, <1>11, <1>12, <1>13, <1>16, <4>1, SMT DEF ReqOK
      <3> QED  BY <1>7, <3>1, <3>2
    <2>4. \A r \in replies' : RespOK(r)'
      BY <1>7, <1>19 DEF Flow, Types
    <2>5. \A h \in nested' : NestOK(h)'
      BY <1>7, <1>18 DEF Flow, Types, NestOK, Nested
    <2> QED  BY <2>1, <2>2, <2>3, <2>4, <2>5 DEF Flow
  <1>21. AckedWritesStay'
    BY <1>7 DEF AckedWritesStay
  <1>22. ASSUME NEW w \in acked PROVE Seen(c, w)'
    <2>1. AnswersOf(c)' = {}
      <3>1. \A r \in replies : ~(r.call.client = c /\ r.call.num = i)
        BY <1>10, SMT DEF Flow, RespOK, Types, Responses, CallIDs
      <3>2. \A h \in nested : ~(h.call.client = c /\ h.call.num = i)
        BY <1>10, SMT DEF Flow, NestOK, ReqOK, Types, Nested, Requests, CallIDs
      <3> QED  BY <1>7, <1>16, <3>1, <3>2, SMTT(60) DEF AnswersOf, Mine
    <2>2. PICK Q \in SUBSET w.cfg :
             IsQuorum(Q, w.cfg) /\ \A n \in Q : store[n][w.key].time >= w.time
      BY DEF AckedWritesStay
    <2> QED  BY <1>7, <2>1, <2>2 DEF Seen
  <1>23. ASSUME NEW d \in Clients \ {c}, NEW w, Seen(d, w) PROVE Seen(d, w)'
    <2>1. AnswersOf(d)' = AnswersOf(d)
      BY <1>7, <1>16, SMT DEF AnswersOf, Mine
    <2> QED  BY <1>7, <1>23, <2>1 DEF Seen
  <1>24. Fresh'
    <2>1. ASSUME NEW d \in Clients, Running(d)', NEW w \in cmd'[d].seen, w.key = cmd'[d].key
          PROVE  Seen(d, w)'
      <3>1. CASE d = c
        BY <1>12, <1>16, <1>22, <2>1, <3>1
      <3>2. CASE d # c
        <4>1. Seen(d, w)
          BY <1>16, <1>17, <2>1, <3>2 DEF Fresh
        <4> QED  BY <1>23, <3>2, <4>1
      <3> QED  BY <3>1, <3>2
    <2> QED  BY <2>1 DEF Fresh
  <1> QED  BY <1>7, <1>15, <1>20, <1>21, <1>24

\* A command that returns is forgotten.
LEMMA ReturnStep ==
  ASSUME Types, Flow, Fresh, NEW c \in Clients, NEW res \in {"ok", "old", "error"}, Return(c, res),
         UNCHANGED <<store, nested, input, issued, handled>>, acked' \subseteq Acks
  PROVE  Types' /\ Flow' /\ Fresh'
  <1>1. PICK k : k = [Idle EXCEPT !.res = res]
    OBVIOUS
  <1>2. k \in Cmds /\ k.res = res
    <2>1. 0 \in Times \cup {0} /\ None \in Keys \cup {None} /\ None \in Values \cup {None}
      OBVIOUS
    <2> QED  BY <1>1, <2>1 DEF Idle, Cmds
  <1>3. /\ cmd' = [cmd EXCEPT ![c] = k] /\ got' = [got EXCEPT ![c] = {}]
        /\ replies' \subseteq replies /\ net' \subseteq net
    BY <1>1 DEF Return
  <1>4. Types'
    BY <1>2, <1>3 DEF Types
  <1>5. /\ ~Running(c)' /\ got'[c] = {}
        /\ \A d \in Clients \ {c} : cmd'[d] = cmd[d] /\ got'[d] = got[d] /\ (Running(d)' <=> Running(d))
        /\ \A d \in Clients : Call(d)' = Call(d)
    BY <1>2, <1>3 DEF Types, Running, Call
  <1>6. ASSUME NEW x \in Requests, ReqOK(x) PROVE ReqOK(x)'
    <2>1. x.call.client \in Clients
      BY DEF Requests, CallIDs
    <2> QED  BY <1>5, <1>6, <2>1 DEF ReqOK
  <1>7. ASSUME NEW r \in Responses, RespOK(r) PROVE RespOK(r)'
    <2>1. r.call.client \in Clients
      BY DEF Responses, CallIDs
    <2> QED  BY <1>5, <1>7, <2>1 DEF RespOK
  <1>8. Flow'
    <2>1. \A d \in Clients : CmdOK(d)'
      BY <1>5 DEF Flow, CmdOK
    <2>2. \A d \in Clients : GotOK(d)'
      <3>1. ASSUME NEW d \in Clients \ {c}, NEW r \in got[d]
            PROVE  Running(d)' /\ r.call = Call(d)' /\ RespOK(r)'
        BY <1>5, <1>7, <3>1 DEF Flow, GotOK, Types
      <3> QED  BY <1>5, <3>1 DEF GotOK
    <2>3. \A x \in net' : ReqOK(x)'
      BY <1>3, <1>6 DEF Flow, Types
    <2>4. \A r \in replies' : RespOK(r)'
      BY <1>3, <1>7 DEF Flow, Types
    <2>5. \A h \in nested' : NestOK(h)'
      BY <1>6 DEF Flow, Types, NestOK, Nested
    <2> QED  BY <2>1, <2>2, <2>3, <2>4, <2>5 DEF Flow
  <1>9. Fresh'
    <2>1. ASSUME NEW d \in Clients, Running(d)', NEW w \in cmd'[d].seen, w.key = cmd'[d].key
          PROVE  Seen(d, w)'
      <3>1. d # c
        BY <1>5, <2>1
      <3>2. Seen(d, w)
        BY <1>5, <2>1, <3>1 DEF Fresh
      <3>3. AnswersOf(d)' \subseteq AnswersOf(d)
        BY <1>3, <1>5, <3>1 DEF AnswersOf, Mine
      <3> QED  BY <3>2, <3>3 DEF Seen
    <2> QED  BY <2>1 DEF Fresh
  <1> QED  BY <1>4, <1>8, <1>9

\* More than half, in whole numbers.
LEMMA MoreThanHalf ==
  ASSUME NEW x \in Nat, NEW y \in Nat, y > x \div 2
  PROVE  2 * y > x
  BY SMT

\* A write is reported as done by a majority that holds it.
LEMMA FinishStep ==
  ASSUME Types, Flow, Fresh, AckedWritesStay, NEW c \in Clients, Running(c), Finish(c)
  PROVE  Types' /\ Flow' /\ Fresh' /\ AckedWritesStay' /\ UNCHANGED <<store, handled>>
  <1>1. /\ Return(c, Outcome(c)) /\ UNCHANGED <<store, nested, input, issued, handled>>
        /\ acked' = IF cmd[c].op = "WriteQC" /\ Outcome(c) = "ok"
                    THEN acked \cup {Reported(c)} ELSE acked
    BY DEF Finish
  <1>2. Outcome(c) \in {"ok", "old", "error"}
    BY DEF Outcome
  <1>3. PICK w : w = Reported(c)
    OBVIOUS
  <1>4. cmd[c] \in Cmds
    BY DEF Types
  <1>5. cmd[c].cfg \subseteq Servers
    BY <1>4 DEF Cmds
  <1>6. /\ w.key = cmd[c].key /\ w.cfg = cmd[c].cfg /\ w.time = cmd[c].time
        /\ cmd[c].op = "WriteQC" => w \in Acks
    <2>1. cmd[c].op = "WriteQC" =>
             cmd[c].key \in Keys /\ cmd[c].time \in Times /\ cmd[c].value \in Values
      BY DEF Flow, CmdOK, WriteOps
    <2> QED  BY <1>3, <1>5, <2>1 DEF Reported, Acks
  <1>7. acked' \subseteq Acks
    BY <1>1, <1>3, <1>6 DEF Types
  <1>8. Types' /\ Flow' /\ Fresh'
    BY <1>1, <1>2, <1>7, ReturnStep
  <1>9. ASSUME cmd[c].op = "WriteQC", Outcome(c) = "ok"
        PROVE  \E Q \in SUBSET w.cfg : IsQuorum(Q, w.cfg) /\ \A n \in Q : store[n][w.key].time >= w.time
    <2> DEFINE Q == Updated(got[c])
    <2>1. Cardinality(Q) > Size(c) \div 2
      BY <1>9 DEF Outcome, numUpdated
    <2>2. ASSUME NEW n \in Q
          PROVE  n \in cmd[c].cfg /\ store[n][cmd[c].key].time >= cmd[c].time
      <3>1. PICK r \in got[c] : ~r.err /\ r.isNew /\ r.node = n
        BY DEF Updated, Successes
      <3>2. r.call = Call(c) /\ RespOK(r)
        BY DEF Flow, GotOK
      <3>3. r.call.client = c
        BY <3>2, SMT DEF Call, CallID
      <3> QED  BY <1>9, <3>1, <3>2, <3>3 DEF RespOK
    <2> HIDE DEF Q
    <2>3. Q \in SUBSET cmd[c].cfg
      BY <2>2
    <2>4. IsFiniteSet(cmd[c].cfg)
      BY <1>5, StorageAssumption, FS_Subset
    <2>5. Cardinality(Q) \in Nat /\ Size(c) \in Nat
      <3>1. IsFiniteSet(Q)
        BY <2>3, <2>4, FS_Subset
      <3> QED  BY <2>4, <3>1, FS_CardinalityType DEF Size
    <2>6. IsQuorum(Q, cmd[c].cfg)
      <3>1. 2 * Cardinality(Q) > Size(c)
        BY <2>1, <2>5, MoreThanHalf
      <3> QED  BY <2>3, <3>1 DEF IsQuorum, Size
    <2> QED  BY <1>6, <2>2, <2>3, <2>6
  <1>10. AckedWritesStay'
    <2>1. ASSUME NEW v \in acked'
          PROVE  \E Q \in SUBSET v.cfg : IsQuorum(Q, v.cfg) /\ \A n \in Q : store[n][v.key].time >= v.time
      <3>1. CASE v \in acked
        BY <3>1 DEF AckedWritesStay
      <3>2. CASE v \notin acked
        BY <1>1, <1>3, <1>9, <2>1, <3>2
      <3> QED  BY <3>1, <3>2
    <2> QED  BY <1>1, <2>1 DEF AckedWritesStay
  <1> QED  BY <1>1, <1>8, <1>10

\* Clients issue, finish and acknowledge commands.
LEMMA ClientStep ==
  ASSUME Types, Flow, Fresh, AckedWritesStay, NEW c \in Clients, Client(c)
  PROVE  Types' /\ Flow' /\ Fresh' /\ AckedWritesStay' /\ UNCHANGED <<store, handled>>
  <1>1. ASSUME UNCHANGED <<store, cmd, got, net, replies, nested, input, issued, acked, handled>>
        PROVE  Types' /\ Flow' /\ Fresh' /\ AckedWritesStay'
    <2>1. Types' /\ AckedWritesStay'
      BY <1>1, SMTT(60) DEF Types, AckedWritesStay
    <2>2. Flow'
      BY <1>1, ZenonT(40) DEF Flow, CmdOK, GotOK, ReqOK, RespOK, NestOK, Running, Call
    <2>3. Fresh'
      BY <1>1, SMTT(60) DEF Fresh, Seen, AnswersOf, Mine, Running
    <2> QED  BY <2>1, <2>2, <2>3
  <1>2. CASE Complete(c) \/ Timeout(c)
    BY <1>2, FinishStep DEF Complete, Timeout
  <1>3. CASE Expire(c) \/ WatchLevel(c)
    BY <1>1, <1>3 DEF Expire, WatchLevel
  <1>4. CASE GetLevel(c)
    <2>1. UNCHANGED <<store, nested, input, issued, faults, acked, handled>>
      BY <1>4 DEF GetLevel
    <2>2. \/ \E res \in {"ok", "old", "error"} : Return(c, res)
          \/ UNCHANGED <<cmd, got, net, replies>>
      BY <1>4 DEF GetLevel
    <2>3. CASE \E res \in {"ok", "old", "error"} : Return(c, res)
      <3>1. acked' \subseteq Acks
        BY <2>1 DEF Types
      <3>2. Types' /\ Flow' /\ Fresh'
        BY <2>1, <2>3, <3>1, ReturnStep
      <3> QED  BY <2>1, <3>2 DEF AckedWritesStay
    <2>4. CASE UNCHANGED <<cmd, got, net, replies>>
      BY <1>1, <2>1, <2>4
    <2> QED  BY <2>2, <2>3, <2>4
  <1> QED  BY <1>2, <1>3, <1>4, IssueStep DEF Client, Proceed

-----------------------------------------------------------------------------
(* The theorems *)

\* The invariant is inductive.
LEMMA SInvInit == Init => SInv
  <1> SUFFICES ASSUME Init PROVE SInv
    OBVIOUS
  <1>1. Absent \in States /\ Absent.time = 0
    BY TimeFacts
  <1>2. Idle \in Cmds
    <2>1. 0 \in Times \cup {0} /\ None \in Keys \cup {None} /\ None \in Values \cup {None}
      OBVIOUS
    <2> QED  BY <2>1 DEF Idle, Cmds
  <1>3. input \in [Clients -> Seq(Commands)]
    BY StorageAssumption DEF Init
  <1>4. Types
    BY <1>1, <1>2, <1>3 DEF Init, Types
  <1>5. \A c \in Clients : ~Running(c) /\ got[c] = {}
    BY DEF Init, Running, Idle
  <1>6. Flow
    BY <1>5 DEF Init, Flow, CmdOK, GotOK
  <1>7. Fresh
    BY <1>5 DEF Fresh
  <1>8. AckedWritesStay
    BY DEF Init, AckedWritesStay
  <1>9. Latest
    BY DEF Init, Latest
  <1>10. Unstored
    BY StorageAssumption DEF Init, Unstored
  <1> QED  BY <1>4, <1>6, <1>7, <1>8, <1>9, <1>10 DEF SInv

\* Every step keeps the invariant.
LEMMA SInvNext == SInv /\ [Next]_vars => SInv'
  <1> SUFFICES ASSUME Types, Flow, Fresh, AckedWritesStay, Latest, Unstored, [Next]_vars
               PROVE  SInv'
    BY DEF SInv
  <1>0. UNCHANGED <<store, handled>> => Latest' /\ Unstored'
    BY SMT DEF Latest, Unstored
  <1>1. ASSUME NEW c \in Clients, Client(c) PROVE SInv'
    BY <1>0, <1>1, ClientStep DEF SInv
  <1>2. CASE Transport
    <2>1. Types' /\ Exchange /\ UNCHANGED <<store, handled>>
      BY <1>2, TransportStep
    <2>2. Flow' /\ Fresh' /\ AckedWritesStay'
      BY <2>1, ExchangeStep
    <2> QED  BY <1>0, <2>1, <2>2 DEF SInv
  <1>3. CASE Server
    <2>1. Types' /\ Exchange /\ Latest' /\ Unstored'
      BY <1>3, ServerStep
    <2>2. Flow' /\ Fresh' /\ AckedWritesStay'
      BY <2>1, ExchangeStep
    <2> QED  BY <2>1, <2>2 DEF SInv
  <1>4. CASE UNCHANGED vars
    <2>1. Types' /\ AckedWritesStay' /\ Latest' /\ Unstored'
      BY <1>0, <1>4, ZenonT(40) DEF vars, Types, AckedWritesStay
    <2>2. Flow'
      BY <1>4, ZenonT(40) DEF vars, Flow, CmdOK, GotOK, ReqOK, RespOK, NestOK, Running, Call
    <2>3. Fresh'
      BY <1>4, SMT DEF vars, Fresh, Seen, AnswersOf, Mine, Running
    <2> QED  BY <2>1, <2>2, <2>3 DEF SInv
  <1> QED  BY <1>1, <1>2, <1>3, <1>4 DEF Next

\* The invariant always holds.
LEMMA SInvHolds == Spec => []SInv
  BY SInvInit, SInvNext, PTL DEF Spec

\* AckedWritesStay: what WriteQC reported as done stays on a majority of the
\* nodes it was written to, with requests delayed, sent again and overtaken.
THEOREM WritesStay == Spec => []AckedWritesStay
  <1>1. SInv => AckedWritesStay
    BY DEF SInv
  <1> QED  BY <1>1, SInvHolds, PTL

\* ReadsAreFresh: newestValue over responses from half of the nodes of a write
\* that was reported before the read, or more, is no older than that write.
THEOREM FreshReads == Spec => []ReadsAreFresh
  <1>1. SInv => ReadsAreFresh
    <2> SUFFICES ASSUME Types, Flow, Fresh, NEW c \in Clients, NEW w \in cmd[c].seen,
                        NEW st \in newestValue(got[c]), w.key = cmd[c].key,
                        2 * Cardinality(ReadFrom(got[c]) \cap w.cfg) >= Cardinality(w.cfg)
                 PROVE  st.time >= w.time
      BY DEF SInv, ReadsAreFresh
    <2>1. PICK p \in Successes(got[c]) :
             st = p.st /\ \A q \in Successes(got[c]) : p.st.time >= q.st.time
      BY DEF newestValue
    <2>2. p \in got[c] /\ Running(c)
      BY <2>1 DEF Successes, Flow, GotOK
    <2>3. PICK Q \in SUBSET w.cfg :
             /\ IsQuorum(Q, w.cfg)
             /\ \A n \in Q, r \in AnswersOf(c) : n \in r.read => r.st.time >= w.time
      BY <2>2 DEF Fresh, Seen
    <2>4. w \in Acks
      BY DEF Types, Cmds
    <2>5. w.cfg \subseteq Servers /\ w.time \in Nat
      BY <2>4, TimeFacts DEF Acks
    <2>6. IsFiniteSet(w.cfg)
      BY <2>5, StorageAssumption, FS_Subset
    <2> DEFINE R == ReadFrom(got[c]) \cap w.cfg
    <2>7. R \in SUBSET w.cfg /\ 2 * Cardinality(R) >= Cardinality(w.cfg)
      OBVIOUS
    <2>8. \A n \in R : n \in ReadFrom(got[c])
      OBVIOUS
    <2> HIDE DEF R
    <2>9. Cardinality(R) \in Nat /\ Cardinality(Q) \in Nat /\ Cardinality(w.cfg) \in Nat
      <3>1. IsFiniteSet(R) /\ IsFiniteSet(Q)
        BY <2>6, <2>7, FS_Subset
      <3> QED  BY <2>6, <3>1, FS_CardinalityType
    <2>10. Cardinality(R) + Cardinality(Q) > Cardinality(w.cfg)
      <3>1. 2 * Cardinality(Q) > Cardinality(w.cfg)
        BY <2>3 DEF IsQuorum
      <3> QED  BY <2>7, <2>9, <3>1, SMT
    <2>11. R \cap Q # {}
      BY <2>6, <2>7, <2>10, Overlap
    <2>12. PICK n \in Q : n \in ReadFrom(got[c])
      BY <2>8, <2>11
    <2>13. PICK q \in Successes(got[c]) : n \in q.read
      BY <2>12 DEF ReadFrom
    <2>14. q \in AnswersOf(c) /\ p \in AnswersOf(c)
      BY <2>2, <2>13 DEF AnswersOf, Successes
    <2>15. q.st.time \in Nat /\ p.st.time \in Nat /\ q.st.time >= w.time
      BY <2>3, <2>12, <2>13, <2>14, AnswerTypes
    <2>16. p.st.time >= q.st.time
      BY <2>1, <2>13
    <2> QED  BY <2>1, <2>5, <2>15, <2>16, SMT
  <1> QED  BY <1>1, SInvHolds, PTL

\* OrderDoesNotMatter: servers that handled the same writes of a key agree.
THEOREM ServersAgree == Spec => []OrderDoesNotMatter
  <1>1. SInv => OrderDoesNotMatter
    <2> SUFFICES ASSUME Types, Latest, NEW n \in Servers, NEW p \in Servers, NEW k \in Keys,
                        {w \in handled[n] : w.key = k} = {w \in handled[p] : w.key = k},
                        \A v, w \in {w \in handled[n] : w.key = k} : v.time = w.time => v = w
                 PROVE  store[n][k] = store[p][k]
      BY SMT DEF SInv, OrderDoesNotMatter
    <2>1. PICK W : W = {w \in handled[n] : w.key = k}
      OBVIOUS
    <2>2. /\ W = {} => store[n][k] = Absent /\ store[p][k] = Absent
          /\ W # {} => /\ \E w \in W : store[n][k] = [value |-> w.value, time |-> w.time]
                       /\ \E w \in W : store[p][k] = [value |-> w.value, time |-> w.time]
          /\ \A w \in W : w.time <= store[n][k].time /\ w.time <= store[p][k].time
      BY <2>1, SMT DEF Latest
    <2>3. CASE W = {}
      BY <2>2, <2>3
    <2>4. CASE W # {}
      <3>1. PICK v \in W : store[n][k] = [value |-> v.value, time |-> v.time]
        BY <2>2, <2>4
      <3>2. PICK w \in W : store[p][k] = [value |-> w.value, time |-> w.time]
        BY <2>2, <2>4
      <3>3. store[n][k].time = v.time /\ store[p][k].time = w.time
        BY <3>1, <3>2, SMT
      <3>4. v.time \in Nat /\ w.time \in Nat
        <4>1. v \in Writes /\ w \in Writes
          BY <2>1 DEF Types
        <4> QED  BY <4>1, TimeFacts DEF Writes
      <3>5. v.time = w.time
        BY <2>2, <3>3, <3>4, SMT
      <3>6. v = w
        BY <2>1, <3>5
      <3> QED  BY <3>1, <3>2, <3>6
    <2> QED  BY <2>3, <2>4
  <1> QED  BY <1>1, SInvHolds, PTL

\* RefusedKeyNotStored: the interceptor keeps the key it refuses out of the maps
\* of its servers, and a majority of them keeps its writes from being reported.
THEOREM RefusedKey == Spec => []RefusedKeyNotStored
  <1>1. SInv => RefusedKeyNotStored
    <2> SUFFICES ASSUME Types, AckedWritesStay, Unstored
                 PROVE  RefusedKeyNotStored
      BY DEF SInv
    <2>1. ASSUME NEW w \in acked, w.key = Foo
          PROVE  2 * Cardinality(w.cfg \cap Filtering) < Cardinality(w.cfg)
      <3>1. w \in Acks
        BY DEF Types
      <3>2. w.cfg \subseteq Servers /\ w.key \in Keys /\ w.time \in Nat /\ w.time > 0
        BY <3>1, TimeFacts DEF Acks
      <3>3. PICK Q \in SUBSET w.cfg :
               IsQuorum(Q, w.cfg) /\ \A n \in Q : store[n][w.key].time >= w.time
        BY DEF AckedWritesStay
      <3>4. PICK F : F = w.cfg \cap Filtering
        OBVIOUS
      <3>5. \A n \in Q : n \notin F
        <4> SUFFICES ASSUME NEW n \in Q, n \in F PROVE FALSE
          OBVIOUS
        <4>1. store[n][Foo] = Absent
          BY <2>1, <3>2, <3>4 DEF Unstored
        <4>2. store[n][Foo].time = 0
          BY <4>1, TimeFacts
        <4>3. store[n][Foo].time >= w.time
          BY <2>1, <3>3
        <4> QED  BY <3>2, <4>2, <4>3, SMT
      <3>6. IsFiniteSet(w.cfg)
        BY <3>2, StorageAssumption, FS_Subset
      <3>7. Cardinality(F) \in Nat /\ Cardinality(Q) \in Nat /\ Cardinality(w.cfg) \in Nat
        <4>1. IsFiniteSet(F) /\ IsFiniteSet(Q)
          BY <3>4, <3>6, FS_Subset
        <4> QED  BY <3>6, <4>1, FS_CardinalityType
      <3>8. ~(Cardinality(F) + Cardinality(Q) > Cardinality(w.cfg))
        BY <3>4, <3>5, <3>6, Overlap, SMT
      <3>9. 2 * Cardinality(Q) > Cardinality(w.cfg)
        BY <3>3 DEF IsQuorum
      <3>10. 2 * Cardinality(F) < Cardinality(w.cfg)
        BY <3>7, <3>8, <3>9, SMT
      <3> QED  BY <3>4, <3>10
    <2> QED  BY <2>1 DEF RefusedKeyNotStored, Unstored
  <1> QED  BY <1>1, SInvHolds, PTL

=============================================================================
