------------------------- MODULE InboundCallsProofs -------------------------
(***************************************************************************)
(* Proofs about InboundPeers and InboundCalls, for any calls, peers,       *)
(* clients, streams and waiters.  What is proved of the streams alone      *)
(* holds of the composition, which takes their steps.                      *)
(***************************************************************************)
EXTENDS InboundCalls, TLAPS

\* The prover of every leaf that names no other.
USE Zenon

-----------------------------------------------------------------------------
(* The parts of the inductive invariant *)

\* The channel of a node belongs to a stream of that node that is served.
ChannelsServed ==
    \A id \in Peers \cup ClientIDs :
        channel[id] # None =>
            /\ channel[id] \in Conns
            /\ nodeOf[channel[id]] = id
            /\ connPc[channel[id]] \in {"replace", "open"}

\* What is known of a stream from where its goroutine is.
StreamPhases ==
    \A c \in Conns :
        /\ connPc[c] \in {"idle", "accept", "register", "client"} =>
              nodeOf[c] = None /\ c \notin closedChans
        /\ connPc[c] = "register" => announced[c] \in Peers
        /\ connPc[c] = "replace" => nodeOf[c] \in Peers /\ channel[nodeOf[c]] = c
        /\ nodeOf[c] \in Peers \cup ClientIDs \cup {None}

OneReplaces == \A c, d \in Conns : connPc[c] = "replace" /\ connPc[d] = "replace" => c = d

\* A peer without a channel has seen the end of its last stream, and a peer
\* with one has the channel of its last stream.
LastRegistered ==
    \A p \in Peers :
        /\ lastOf[p] # None => nodeOf[lastOf[p]] = p
        /\ channel[p] # None => channel[p] = lastOf[p]
        /\ channel[p] = None /\ lastOf[p] # None => connPc[lastOf[p]] = "ended"

\* A client's node is made for one stream and goes with it.
ClientStreams ==
    /\ \A c \in Conns : nodeOf[c] \in ClientIDs =>
          /\ nodeOf[c] < nextClientID
          /\ connPc[c] \in {"open", "ended"}
          /\ connPc[c] = "open" => channel[nodeOf[c]] = c /\ nodeOf[c] \in nodes
    /\ \A c, d \in Conns : nodeOf[c] = nodeOf[d] /\ nodeOf[c] \in ClientIDs => c = d
    /\ \A id \in ClientIDs : nextClientID <= id => channel[id] = None
    /\ \A id \in ClientIDs : channel[id] # None => id \in nodes

\* rebuildConfig ran after every change that matters to it.
ConfigsBuilt ==
    /\ config = KnownConfig(nodes, channel) /\ notified = config
    /\ clientConfig = ClientConfig(nodes, channel)

\* ConfigFollowsStreams and ClientsHaveOwnNodes speak of streams, rebuildConfig
\* of channels: the other conjuncts tie the two together.
Inv ==
    /\ TypeOK /\ ChannelsServed /\ StreamPhases /\ OneReplaces /\ DetachedIsClosed
    /\ LastRegistered /\ ClientStreams /\ ConfigsBuilt /\ NoMissedChange

-----------------------------------------------------------------------------
(* Types *)

\* The kinds of node ID are disjoint.
LEMMA KindsOfId ==
    /\ \A id \in ClientIDs : id \notin Peers /\ id # Self /\ id \in IDs /\ id \in Nat
                             /\ FirstClient <= id /\ id < LastClient
    /\ \A p \in Peers : p # Self /\ p \in IDs /\ p < FirstClient /\ p \in Nat
    /\ Self \in IDs /\ Self < FirstClient /\ Self \in Nat
    /\ None \notin IDs /\ None \notin Conns /\ None # Local /\ Local \notin Conns
    /\ Anonymous \notin IDs /\ FirstClient \in Nat /\ LastClient \in Nat
    /\ \A id \in IDs : id \in Peers \/ id \in ClientIDs \/ id = Self
  BY IdAssumption, NameAssumption, SMT DEF ClientIDs, IDs, Anonymous

\* The configurations hold node IDs.
LEMMA ConfigTypes ==
  ASSUME NEW ns, ns \subseteq IDs, NEW ch
  PROVE  KnownConfig(ns, ch) \subseteq IDs /\ ClientConfig(ns, ch) \subseteq IDs
  BY DEF KnownConfig, ClientConfig

\* rebuildConfig keeps the types of what it assigns.
LEMMA RebuildTypes ==
  ASSUME TypeOK, NEW ns, ns \subseteq IDs, NEW ch, rebuildConfig(ns, ch)
  PROVE  config' \subseteq IDs /\ clientConfig' \subseteq IDs /\ notified' \subseteq IDs
         /\ woken' \subseteq Waiters
  BY ConfigTypes DEF TypeOK, rebuildConfig, Broadcast

\* Every step keeps the types.
LEMMA TypeStep == Inv /\ [Next]_vars => TypeOK'
  <1> SUFFICES ASSUME Inv, [Next]_vars
               PROVE  TypeOK'
    OBVIOUS
  <1> USE KindsOfId
  <1>0. TypeOK /\ StreamPhases
    BY DEF Inv
  <1>1. ASSUME NEW c \in Conns, Connect(c) PROVE TypeOK'
    BY <1>0, <1>1, SMT DEF TypeOK, Connect, peerVars, waitVars
  <1>2. ASSUME NEW c \in Conns, HangUp(c) PROVE TypeOK'
    BY <1>0, <1>2 DEF TypeOK, HangUp, peerVars, waitVars
  <1>3. ASSUME NEW c \in Conns, AcceptPeer(c) PROVE TypeOK'
    BY <1>0, <1>3 DEF TypeOK, AcceptPeer, peerVars, waitVars
  <1>4. ASSUME NEW c \in Conns, registerPeer(c) PROVE TypeOK'
    <2>0. announced[c] \in Peers /\ announced[c] \in IDs
      BY <1>0, <1>4 DEF StreamPhases, registerPeer
    <2>1. /\ channel' = [channel EXCEPT ![announced[c]] = c]
          /\ closedChans' = closedChans \cup ({channel[announced[c]]} \ {None, Local})
          /\ nodeOf' = [nodeOf EXCEPT ![c] = announced[c]]
      BY <1>4 DEF registerPeer, attachStream, CloseReplaced
    <2>2. channel' \in [IDs -> Conns \cup {Local, None}] /\ closedChans' \subseteq Conns
          /\ nodeOf' \in [Conns -> IDs \cup {None}]
      BY <1>0, <2>0, <2>1 DEF TypeOK
    <2>3. config' \subseteq IDs /\ clientConfig' \subseteq IDs /\ notified' \subseteq IDs
          /\ woken' \subseteq Waiters
      <3>1. CASE rebuildConfig(nodes, channel')
        BY <1>0, <3>1, RebuildTypes DEF TypeOK
      <3>2. CASE UNCHANGED <<config, clientConfig, notified, woken>>
        BY <1>0, <3>2 DEF TypeOK
      <3> QED  BY <1>4, <3>1, <3>2 DEF registerPeer
    <2>4. connPc' \in [Conns -> {"idle", "accept", "register", "client", "replace", "open",
                                 "ended"}]
          /\ lastOf' \in [Peers -> Conns \cup {None}]
      BY <1>0, <1>4, <2>0 DEF TypeOK, registerPeer
    <2> QED  BY <1>0, <1>4, <2>2, <2>3, <2>4 DEF TypeOK, registerPeer
  <1>5. ASSUME NEW c \in Conns, finishReplace(c) PROVE TypeOK'
    <2>1. config' \subseteq IDs /\ clientConfig' \subseteq IDs /\ notified' \subseteq IDs
          /\ woken' \subseteq Waiters
      BY <1>0, <1>5, RebuildTypes DEF TypeOK, finishReplace
    <2> QED  BY <1>0, <1>5, <2>1 DEF TypeOK, finishReplace
  <1>6. ASSUME NEW c \in Conns, acceptClient(c) PROVE TypeOK'
    <2>1. CASE nextClientID = LastClient
      BY <1>0, <1>6, <2>1 DEF TypeOK, acceptClient, peerVars
    <2>2. CASE nextClientID # LastClient
      <3>1. nextClientID \in ClientIDs /\ nextClientID \in IDs
        BY <1>0, <2>2, SMT DEF TypeOK, ClientIDs
      <3>2. /\ channel' = [channel EXCEPT ![nextClientID] = c]
            /\ closedChans' = closedChans \cup ({channel[nextClientID]} \ {None, Local})
            /\ nodeOf' = [nodeOf EXCEPT ![c] = nextClientID]
            /\ connPc' = [connPc EXCEPT ![c] = "open"]
            /\ nodes' = nodes \cup {nextClientID}
            /\ nextClientID' = nextClientID + 1
            /\ rebuildConfig(nodes', channel')
            /\ UNCHANGED <<lastOf, announced, gone, waitPc, waitsFor, stopped>>
        BY <1>6, <2>2 DEF acceptClient, attachStream, CloseReplaced, NextClientID
      <3>3. channel' \in [IDs -> Conns \cup {Local, None}] /\ closedChans' \subseteq Conns
            /\ nodeOf' \in [Conns -> IDs \cup {None}]
        BY <1>0, <3>1, <3>2 DEF TypeOK
      <3>4. nodes' \subseteq IDs /\ Peers \cup {Self} \subseteq nodes'
        BY <1>0, <3>1, <3>2 DEF TypeOK
      <3>5. config' \subseteq IDs /\ clientConfig' \subseteq IDs /\ notified' \subseteq IDs
            /\ woken' \subseteq Waiters
        BY <1>0, <3>2, <3>4, RebuildTypes
      <3>6. nextClientID' \in FirstClient..LastClient
        BY <1>0, <2>2, <3>2, SMT DEF TypeOK
      <3> QED  BY <1>0, <3>2, <3>3, <3>4, <3>5, <3>6 DEF TypeOK
    <2> QED  BY <2>1, <2>2
  <1>7. ASSUME NEW c \in Conns, Cleanup(c) PROVE TypeOK'
    <2>1. CASE Detaches(c)
      <3>1. nodeOf[c] \in IDs
        BY <1>0, <2>1 DEF TypeOK, Detaches
      <3>2. /\ channel' = [channel EXCEPT ![nodeOf[c]] = None]
            /\ closedChans' = closedChans \cup {c}
            /\ nodes' = nodes \ ({nodeOf[c]} \cap ClientIDs)
            /\ rebuildConfig(nodes', channel')
        BY <1>7, <2>1 DEF Cleanup, Forgotten
      <3>3. channel' \in [IDs -> Conns \cup {Local, None}] /\ closedChans' \subseteq Conns
        BY <1>0, <3>1, <3>2 DEF TypeOK
      <3>4. nodes' \subseteq IDs /\ Peers \cup {Self} \subseteq nodes'
        BY <1>0, <3>2 DEF TypeOK
      <3>5. config' \subseteq IDs /\ clientConfig' \subseteq IDs /\ notified' \subseteq IDs
            /\ woken' \subseteq Waiters
        BY <1>0, <3>2, <3>4, RebuildTypes
      <3> QED  BY <1>0, <1>7, <3>3, <3>4, <3>5 DEF TypeOK, Cleanup
    <2>2. CASE ~Detaches(c)
      BY <1>0, <1>7, <2>2 DEF TypeOK, Cleanup
    <2> QED  BY <2>1, <2>2
  <1>8. ASSUME NEW w \in Waiters, WaitForConfig(w) PROVE TypeOK'
    BY <1>0, <1>8 DEF TypeOK, WaitForConfig, connVars, peerVars
  <1>9. ASSUME NEW w \in Waiters, checkConfig(w) PROVE TypeOK'
    BY <1>0, <1>9 DEF TypeOK, checkConfig, connVars, peerVars
  <1>10. ASSUME NEW w \in Waiters, waitForConfig(w) \/ WaitCancelled(w) PROVE TypeOK'
    BY <1>0, <1>10 DEF TypeOK, waitForConfig, WaitCancelled, connVars, peerVars
  <1>11. CASE close \/ UNCHANGED vars
    BY <1>0, <1>11 DEF TypeOK, close, vars, connVars, peerVars, waitVars
  <1> QED
    BY <1>1, <1>2, <1>3, <1>4, <1>5, <1>6, <1>7, <1>8, <1>9, <1>10, <1>11
       DEF Next, Stream, Waiter

-----------------------------------------------------------------------------
(* Streams and channels *)

Shape ==
    /\ ChannelsServed /\ StreamPhases /\ OneReplaces /\ DetachedIsClosed
    /\ LastRegistered /\ ClientStreams

\* A step that moves no stream to another phase keeps the shape.
LEMMA ShapeUnchanged ==
  ASSUME Shape, UNCHANGED <<connPc, announced, nodeOf, nodes, channel, closedChans,
                            nextClientID, lastOf>>
  PROVE  Shape'
  BY SMT DEF Shape, ChannelsServed, StreamPhases, OneReplaces, DetachedIsClosed, LastRegistered,
         ClientStreams

\* Before a stream is attached only its phase changes.
LEMMA ShapeAccept ==
  ASSUME TypeOK, Shape, NEW c \in Conns, Connect(c) \/ AcceptPeer(c)
  PROVE  Shape'
  <1> USE KindsOfId
  <1>1. /\ connPc[c] \in {"idle", "accept"}
        /\ connPc'[c] \in {"accept", "register", "client", "open"}
        /\ connPc'[c] = "register" => announced'[c] \in Peers
        /\ \A d \in Conns \ {c} : connPc'[d] = connPc[d] /\ announced'[d] = announced[d]
        /\ UNCHANGED <<nodeOf, nodes, channel, closedChans, nextClientID, lastOf>>
    <2>1. CASE Connect(c)
      BY <2>1 DEF TypeOK, Connect, peerVars
    <2>2. CASE AcceptPeer(c)
      <3>1. announced[c] \in nodes => announced[c] \in Peers
        BY <2>2, IdAssumption, NameAssumption, SMT DEF TypeOK, AcceptPeer, ClientIDs, IDs, Anonymous
      <3> QED  BY <2>2, <3>1 DEF TypeOK, AcceptPeer, peerVars
    <2> QED  BY <2>1, <2>2
  <1>2. nodeOf[c] = None /\ c \notin closedChans
    BY <1>1 DEF Shape, StreamPhases
  <1>3. ChannelsServed'
    BY <1>1 DEF Shape, ChannelsServed
  <1>4. StreamPhases'
    BY <1>1, <1>2, SMT DEF Shape, StreamPhases
  <1>5. OneReplaces'
    BY <1>1 DEF Shape, OneReplaces
  <1>6. DetachedIsClosed'
    BY <1>1 DEF Shape, DetachedIsClosed
  <1>7. LastRegistered'
    BY <1>1, <1>2, SMT DEF TypeOK, Shape, LastRegistered
  <1>8. ClientStreams'
    BY <1>1, <1>2 DEF Shape, ClientStreams
  <1> QED  BY <1>3, <1>4, <1>5, <1>6, <1>7, <1>8 DEF Shape

\* registerPeer gives the node the channel of the new stream.
LEMMA ShapeRegister ==
  ASSUME TypeOK, TypeOK', Shape, NEW c \in Conns, registerPeer(c)
  PROVE  Shape'
  <1> DEFINE p == announced[c]
             old == channel[p]
  <1> USE KindsOfId
  <1>1. /\ p \in Peers /\ p \in IDs /\ connPc[c] = "register"
        /\ nodeOf[c] = None /\ c \notin closedChans
    BY DEF registerPeer, Shape, StreamPhases
  <1>2. /\ channel'[p] = c /\ \A id \in IDs \ {p} : channel'[id] = channel[id]
        /\ nodeOf'[c] = p /\ \A d \in Conns \ {c} : nodeOf'[d] = nodeOf[d]
        /\ closedChans' = closedChans \cup ({old} \ {None, Local})
        /\ lastOf'[p] = c /\ \A q \in Peers \ {p} : lastOf'[q] = lastOf[q]
    BY <1>1, SMT DEF registerPeer, attachStream, CloseReplaced, TypeOK
  <1>3. /\ connPc'[c] \in {"replace", "open"}
        /\ \A d \in Conns \ {c} : connPc'[d] = connPc[d] /\ connPc[d] # "replace"
        /\ UNCHANGED <<announced, nodes, nextClientID>>
    BY SMT DEF registerPeer, LockFree, TypeOK
  <1>4. \A id \in Peers \cup ClientIDs : channel[id] # c
    BY <1>1 DEF Shape, ChannelsServed
  <1> HIDE DEF p, old
  <1>5. ChannelsServed'
    BY <1>1, <1>2, <1>3, <1>4, SMT DEF Shape, ChannelsServed, TypeOK
  <1>6. StreamPhases'
    <2>1. c \notin closedChans'
      BY <1>1, <1>2, <1>4 DEF old
    <2>2. \A d \in Conns : connPc[d] \in {"idle", "accept", "register", "client"} => d # old
      BY <1>1, SMT DEF old, Shape, ChannelsServed
    <2> QED  BY <1>1, <1>2, <1>3, <2>1, <2>2, SMT DEF Shape, StreamPhases
  <1>7. OneReplaces'
    BY <1>3 DEF OneReplaces
  <1>8. DetachedIsClosed'
    <2> SUFFICES ASSUME NEW d \in Conns, nodeOf'[d] # None
                 PROVE  d \in closedChans' <=> channel'[nodeOf'[d]] # d
      BY DEF DetachedIsClosed
    <2>1. CASE d = c
      BY <1>1, <1>2, <1>4, <2>1 DEF old
    <2>2. CASE d # c
      <3>1. nodeOf'[d] = nodeOf[d] /\ nodeOf[d] \in Peers \cup ClientIDs
        BY <1>2, <2>2 DEF Shape, StreamPhases
      <3>2. d \in closedChans <=> channel[nodeOf[d]] # d
        BY <3>1 DEF Shape, DetachedIsClosed
      <3>3. CASE nodeOf[d] = p
        BY <1>1, <1>2, <2>2, <3>1, <3>2, <3>3 DEF old
      <3>4. CASE nodeOf[d] # p
        <4>1. d # old
          BY <1>1, <3>4, SMT DEF old, Shape, ChannelsServed
        <4> QED  BY <1>2, <3>1, <3>2, <3>4, <4>1
      <3> QED  BY <3>3, <3>4
    <2> QED  BY <2>1, <2>2
  <1>9. LastRegistered'
    <2> SUFFICES ASSUME NEW q \in Peers
                 PROVE  /\ lastOf'[q] # None => nodeOf'[lastOf'[q]] = q
                        /\ channel'[q] # None => channel'[q] = lastOf'[q]
                        /\ channel'[q] = None /\ lastOf'[q] # None =>
                              connPc'[lastOf'[q]] = "ended"
      BY DEF LastRegistered
    <2>1. CASE q = p
      BY <1>1, <1>2, <2>1
    <2>2. CASE q # p
      <3>1. lastOf[q] # None => lastOf[q] \in Conns /\ lastOf[q] # c
        BY <1>1, SMT DEF TypeOK, Shape, LastRegistered
      <3> QED  BY <1>1, <1>2, <1>3, <2>2, <3>1, SMT DEF Shape, LastRegistered
    <2> QED  BY <2>1, <2>2
  <1>10. ClientStreams'
    <2>1. \A id \in ClientIDs : channel'[id] = channel[id]
      BY <1>1, <1>2
    <2> QED  BY <1>1, <1>2, <1>3, <2>1, SMT DEF Shape, ClientStreams
  <1> QED  BY <1>5, <1>6, <1>7, <1>8, <1>9, <1>10 DEF Shape

\* The end of a replacement only opens the stream.
LEMMA ShapeFinish ==
  ASSUME TypeOK, Shape, NEW c \in Conns, finishReplace(c)
  PROVE  Shape'
  <1> USE KindsOfId
  <1>1. /\ connPc[c] = "replace" /\ connPc'[c] = "open"
        /\ \A d \in Conns \ {c} : connPc'[d] = connPc[d]
        /\ UNCHANGED <<announced, nodeOf, nodes, channel, closedChans, nextClientID, lastOf>>
    BY DEF finishReplace, TypeOK
  <1>2. nodeOf[c] \in Peers /\ channel[nodeOf[c]] = c
    BY <1>1 DEF Shape, StreamPhases
  <1>3. ChannelsServed'
    BY <1>1 DEF Shape, ChannelsServed
  <1>4. StreamPhases' /\ OneReplaces' /\ DetachedIsClosed'
    BY <1>1, SMT DEF Shape, StreamPhases, OneReplaces, DetachedIsClosed
  <1>5. LastRegistered'
    BY <1>1, <1>2, SMT DEF TypeOK, Shape, LastRegistered
  <1>6. ClientStreams'
    BY <1>1, <1>2 DEF Shape, ClientStreams
  <1> QED  BY <1>3, <1>4, <1>5, <1>6 DEF Shape

\* A client gets a node that no stream had.
LEMMA ShapeClient ==
  ASSUME TypeOK, Shape, NEW c \in Conns, acceptClient(c)
  PROVE  Shape'
  <1> DEFINE id == nextClientID
  <1> USE KindsOfId
  <1>1. connPc[c] = "client" /\ nodeOf[c] = None /\ c \notin closedChans
    BY DEF acceptClient, Shape, StreamPhases
  <1>2. \A i \in Peers \cup ClientIDs : channel[i] # c
    BY <1>1 DEF Shape, ChannelsServed
  <1>3. \A q \in Peers : lastOf[q] # c
    BY <1>1 DEF Shape, LastRegistered
  <1>4. CASE id = LastClient
    <2>1. /\ connPc'[c] = "ended" /\ \A d \in Conns \ {c} : connPc'[d] = connPc[d]
          /\ UNCHANGED <<announced, nodeOf, nodes, channel, closedChans, nextClientID, lastOf>>
      BY <1>4 DEF acceptClient, peerVars, TypeOK
    <2>2. ChannelsServed'
      BY <1>2, <2>1 DEF Shape, ChannelsServed
    <2>3. StreamPhases' /\ OneReplaces' /\ DetachedIsClosed'
      BY <1>1, <2>1, SMT DEF Shape, StreamPhases, OneReplaces, DetachedIsClosed
    <2>4. LastRegistered' /\ ClientStreams'
      BY <1>1, <1>3, <2>1, SMT DEF TypeOK, Shape, LastRegistered, ClientStreams
    <2> QED  BY <2>2, <2>3, <2>4 DEF Shape
  <1>5. CASE id # LastClient
    <2>1. id \in ClientIDs /\ id \in IDs /\ id \in Nat
      BY <1>5, SMT DEF TypeOK, ClientIDs
    <2>2. channel[id] = None
      BY <2>1, SMT DEF Shape, ClientStreams
    <2>3. /\ channel'[id] = c /\ \A i \in IDs \ {id} : channel'[i] = channel[i]
          /\ nodeOf'[c] = id /\ \A d \in Conns \ {c} : nodeOf'[d] = nodeOf[d]
          /\ closedChans' = closedChans
          /\ connPc'[c] = "open" /\ \A d \in Conns \ {c} : connPc'[d] = connPc[d]
          /\ nodes' = nodes \cup {id} /\ nextClientID' = id + 1
          /\ UNCHANGED <<announced, lastOf>>
      <3>1. /\ channel' = [channel EXCEPT ![id] = c]
            /\ closedChans' = closedChans \cup ({channel[id]} \ {None, Local})
            /\ nodeOf' = [nodeOf EXCEPT ![c] = id]
            /\ connPc' = [connPc EXCEPT ![c] = "open"]
            /\ nodes' = nodes \cup {id}
            /\ nextClientID' = id + 1
            /\ UNCHANGED <<announced, lastOf>>
        BY <1>5 DEF acceptClient, attachStream, CloseReplaced, NextClientID
      <3>2. closedChans' = closedChans
        BY <2>2, <3>1
      <3>3. channel \in [IDs -> Conns \cup {Local, None}] /\ nodeOf \in [Conns -> IDs \cup {None}]
            /\ DOMAIN connPc = Conns
        BY DEF TypeOK
      <3> HIDE DEF id
      <3>4. channel'[id] = c /\ \A i \in IDs \ {id} : channel'[i] = channel[i]
        BY <2>1, <3>1, <3>3
      <3>5. nodeOf'[c] = id /\ \A d \in Conns \ {c} : nodeOf'[d] = nodeOf[d]
        BY <3>1, <3>3
      <3>6. connPc'[c] = "open" /\ \A d \in Conns \ {c} : connPc'[d] = connPc[d]
        BY <3>1 DEF TypeOK
      <3> QED  BY <3>1, <3>2, <3>4, <3>5, <3>6
    <2>4. \A d \in Conns : nodeOf[d] # id
      BY <2>1, SMT DEF Shape, ClientStreams, TypeOK
    <2> HIDE DEF id
    <2>5. ChannelsServed'
      <3> SUFFICES ASSUME NEW i \in Peers \cup ClientIDs, channel'[i] # None
                   PROVE  /\ channel'[i] \in Conns /\ nodeOf'[channel'[i]] = i
                          /\ connPc'[channel'[i]] \in {"replace", "open"}
        BY DEF ChannelsServed
      <3>1. CASE i = id
        BY <2>3, <3>1
      <3>2. CASE i # id
        <4>1. channel'[i] = channel[i]
          BY <2>3, <3>2
        <4>2. channel[i] \in Conns \ {c} /\ nodeOf[channel[i]] = i
              /\ connPc[channel[i]] \in {"replace", "open"}
          BY <1>2, <4>1 DEF Shape, ChannelsServed
        <4> QED  BY <2>3, <4>1, <4>2
      <3> QED  BY <3>1, <3>2
    <2>6. StreamPhases'
      BY <2>1, <2>3, SMT DEF Shape, StreamPhases
    <2>7. OneReplaces'
      BY <2>3, SMT DEF Shape, OneReplaces
    <2>8. DetachedIsClosed'
      <3> SUFFICES ASSUME NEW d \in Conns, nodeOf'[d] # None
                   PROVE  d \in closedChans' <=> channel'[nodeOf'[d]] # d
        BY DEF DetachedIsClosed
      <3>1. CASE d = c
        BY <1>1, <2>3, <3>1
      <3>2. CASE d # c
        <4>1. nodeOf'[d] = nodeOf[d] /\ nodeOf[d] \in IDs \ {id}
          BY <2>3, <2>4, <3>2, SMT DEF TypeOK
        <4>2. channel'[nodeOf[d]] = channel[nodeOf[d]]
          BY <2>3, <4>1
        <4>3. nodeOf[d] # None /\ (d \in closedChans <=> channel[nodeOf[d]] # d)
          BY <4>1 DEF Shape, DetachedIsClosed
        <4> QED  BY <2>3, <4>1, <4>2, <4>3
      <3> QED  BY <3>1, <3>2
    <2>9. LastRegistered'
      <3> SUFFICES ASSUME NEW q \in Peers
                   PROVE  /\ lastOf'[q] # None => nodeOf'[lastOf'[q]] = q
                          /\ channel'[q] # None => channel'[q] = lastOf'[q]
                          /\ channel'[q] = None /\ lastOf'[q] # None =>
                                connPc'[lastOf'[q]] = "ended"
        BY DEF LastRegistered
      <3>1. channel'[q] = channel[q] /\ lastOf'[q] = lastOf[q]
        BY <2>1, <2>3
      <3>2. lastOf[q] # None => lastOf[q] \in Conns \ {c}
        BY <1>3 DEF TypeOK
      <3> QED  BY <2>3, <3>1, <3>2 DEF Shape, LastRegistered
    <2>10. ClientStreams'
      <3>1. ASSUME NEW d \in Conns, nodeOf'[d] \in ClientIDs
            PROVE  /\ nodeOf'[d] < nextClientID'
                   /\ connPc'[d] \in {"open", "ended"}
                   /\ connPc'[d] = "open" =>
                         channel'[nodeOf'[d]] = d /\ nodeOf'[d] \in nodes'
        <4>1. CASE d = c
          BY <2>1, <2>3, <4>1, SMT
        <4>2. CASE d # c
          <5>1. nodeOf'[d] = nodeOf[d] /\ nodeOf[d] \in IDs \ {id} /\ nodeOf[d] \in Nat
            BY <2>3, <2>4, <3>1, <4>2 DEF TypeOK
          <5>2. nodeOf[d] < id
            BY <3>1, <5>1 DEF Shape, ClientStreams, id
          <5> QED  BY <2>1, <2>3, <3>1, <4>2, <5>1, <5>2, SMT DEF Shape, ClientStreams
        <4> QED  BY <4>1, <4>2
      <3>2. ASSUME NEW d \in Conns, NEW e \in Conns, nodeOf'[d] = nodeOf'[e],
                   nodeOf'[d] \in ClientIDs
            PROVE  d = e
        BY <2>3, <2>4, <3>2, SMT DEF Shape, ClientStreams
      <3>3. ASSUME NEW i \in ClientIDs, nextClientID' <= i
            PROVE  channel'[i] = None
        <4>1. id <= i /\ i # id
          BY <2>1, <2>3, <3>3, SMT
        <4> QED  BY <2>3, <4>1 DEF Shape, ClientStreams, id
      <3>4. ASSUME NEW i \in ClientIDs, channel'[i] # None
            PROVE  i \in nodes'
        BY <2>3, <3>4 DEF Shape, ClientStreams
      <3> QED  BY <3>1, <3>2, <3>3, <3>4 DEF ClientStreams
    <2> QED  BY <2>5, <2>6, <2>7, <2>8, <2>9, <2>10 DEF Shape
  <1> QED  BY <1>4, <1>5

\* The cleanup of a stream takes away its own channel, or nothing.
LEMMA ShapeCleanup ==
  ASSUME TypeOK, Shape, NEW c \in Conns, Cleanup(c)
  PROVE  Shape'
  <1> DEFINE id == nodeOf[c]
  <1> USE KindsOfId
  <1>1. /\ connPc[c] = "open" /\ connPc'[c] = "ended"
        /\ \A d \in Conns \ {c} : connPc'[d] = connPc[d]
        /\ UNCHANGED <<announced, nodeOf, nextClientID, lastOf>>
    BY DEF Cleanup, TypeOK
  <1>2. id \in Peers \cup ClientIDs \cup {None}
    BY DEF Shape, StreamPhases
  <1>3. CASE Detaches(c)
    <2>1. id \in Peers \cup ClientIDs /\ id \in IDs /\ channel[id] = c
      BY <1>2, <1>3 DEF Detaches, StillAttached, TypeOK
    <2>2. /\ channel'[id] = None /\ \A i \in IDs \ {id} : channel'[i] = channel[i]
          /\ closedChans' = closedChans \cup {c}
          /\ nodes' = nodes \ ({id} \cap ClientIDs)
      BY <1>3, <2>1 DEF Cleanup, Forgotten, TypeOK
    <2> HIDE DEF id
    <2>3. ChannelsServed'
      <3> SUFFICES ASSUME NEW i \in Peers \cup ClientIDs, channel'[i] # None
                   PROVE  /\ channel'[i] \in Conns /\ nodeOf'[channel'[i]] = i
                          /\ connPc'[channel'[i]] \in {"replace", "open"}
        BY DEF ChannelsServed
      <3>1. i # id /\ channel'[i] = channel[i]
        BY <2>2
      <3>2. channel[i] \in Conns /\ nodeOf[channel[i]] = i /\ channel[i] # c
        BY <3>1 DEF Shape, ChannelsServed, id
      <3> QED  BY <1>1, <3>1, <3>2, SMT DEF Shape, ChannelsServed
    <2>4. StreamPhases'
      <3>1. ASSUME NEW d \in Conns, connPc'[d] = "replace"
            PROVE  nodeOf'[d] \in Peers /\ channel'[nodeOf'[d]] = d
        <4>1. d # c /\ connPc[d] = "replace" /\ nodeOf[d] \in Peers /\ channel[nodeOf[d]] = d
          BY <1>1, <3>1 DEF Shape, StreamPhases
        <4>2. nodeOf[d] # id
          BY <2>1, <4>1
        <4> QED  BY <1>1, <2>2, <4>1, <4>2
      <3> QED  BY <1>1, <2>2, <3>1 DEF Shape, StreamPhases
    <2>5. OneReplaces'
      BY <1>1 DEF Shape, OneReplaces
    <2>6. DetachedIsClosed'
      <3> SUFFICES ASSUME NEW d \in Conns, nodeOf[d] # None
                   PROVE  d \in closedChans' <=> channel'[nodeOf[d]] # d
        BY <1>1 DEF DetachedIsClosed
      <3>1. nodeOf[d] \in IDs
        BY DEF TypeOK
      <3>2. d \in closedChans <=> channel[nodeOf[d]] # d
        BY DEF Shape, DetachedIsClosed
      <3>3. CASE nodeOf[d] = id
        BY <2>1, <2>2, <3>2, <3>3
      <3>4. CASE nodeOf[d] # id
        BY <2>2, <3>1, <3>2, <3>4 DEF id
      <3> QED  BY <3>3, <3>4
    <2>7. LastRegistered'
      <3> SUFFICES ASSUME NEW q \in Peers
                   PROVE  /\ lastOf[q] # None => nodeOf[lastOf[q]] = q
                          /\ channel'[q] # None => channel'[q] = lastOf[q]
                          /\ channel'[q] = None /\ lastOf[q] # None =>
                                connPc'[lastOf[q]] = "ended"
        BY <1>1 DEF LastRegistered
      <3>1. CASE q = id
        BY <1>1, <2>1, <2>2, <3>1 DEF Shape, LastRegistered
      <3>2. CASE q # id
        <4>1. channel'[q] = channel[q]
          BY <2>2, <3>2
        <4>2. lastOf[q] # None => lastOf[q] \in Conns \ {c}
          BY <3>2 DEF TypeOK, Shape, LastRegistered, id
        <4> QED  BY <1>1, <4>1, <4>2 DEF Shape, LastRegistered
      <3> QED  BY <3>1, <3>2
    <2>8. ClientStreams'
      <3>1. ASSUME NEW d \in Conns, nodeOf[d] \in ClientIDs
            PROVE  /\ nodeOf[d] < nextClientID
                   /\ connPc'[d] \in {"open", "ended"}
                   /\ connPc'[d] = "open" => channel'[nodeOf[d]] = d /\ nodeOf[d] \in nodes'
        <4>1. CASE d = c
          BY <1>1, <3>1, <4>1 DEF Shape, ClientStreams
        <4>2. CASE d # c
          <5>1. nodeOf[d] # id
            BY <3>1, <4>2 DEF Shape, ClientStreams, id
          <5> QED  BY <1>1, <2>2, <3>1, <4>2, <5>1 DEF Shape, ClientStreams
        <4> QED  BY <4>1, <4>2
      <3>2. ASSUME NEW i \in ClientIDs
            PROVE  /\ nextClientID <= i => channel'[i] = None
                   /\ channel'[i] # None => i \in nodes'
        <4>1. CASE i = id
          BY <2>2, <4>1
        <4>2. CASE i # id
          BY <2>2, <4>2 DEF Shape, ClientStreams
        <4> QED  BY <4>1, <4>2
      <3> QED  BY <1>1, <3>1, <3>2 DEF Shape, ClientStreams
    <2> QED  BY <2>3, <2>4, <2>5, <2>6, <2>7, <2>8 DEF Shape
  <1>4. CASE ~Detaches(c)
    <2>1. UNCHANGED <<channel, closedChans, nodes>>
      BY <1>4 DEF Cleanup
    <2>2. \A i \in Peers \cup ClientIDs : channel[i] # c
      <3> SUFFICES ASSUME NEW i \in Peers \cup ClientIDs, channel[i] = c
                   PROVE  FALSE
        OBVIOUS
      <3>1. nodeOf[c] = i
        BY DEF Shape, ChannelsServed
      <3>2. i \in nodes
        BY DEF TypeOK, Shape, ClientStreams
      <3> QED  BY <1>4, <3>1, <3>2 DEF Detaches, StillAttached
    <2>3. ChannelsServed'
      BY <1>1, <2>1, <2>2 DEF Shape, ChannelsServed
    <2>4. StreamPhases' /\ OneReplaces' /\ DetachedIsClosed'
      BY <1>1, <2>1, SMT DEF Shape, StreamPhases, OneReplaces, DetachedIsClosed
    <2>5. LastRegistered'
      BY <1>1, <2>1, <2>2, SMT DEF TypeOK, Shape, LastRegistered
    <2>6. ClientStreams'
      BY <1>1, <2>1 DEF Shape, ClientStreams
    <2> QED  BY <2>3, <2>4, <2>5, <2>6 DEF Shape
  <1> QED  BY <1>3, <1>4

\* Every step keeps the shape.
LEMMA ShapeStep == TypeOK /\ Shape /\ [Next]_vars /\ TypeOK' => Shape'
  <1> SUFFICES ASSUME TypeOK, Shape, [Next]_vars, TypeOK'
               PROVE  Shape'
    OBVIOUS
  <1>1. ASSUME NEW c \in Conns, Connect(c) \/ AcceptPeer(c) PROVE Shape'
    BY <1>1, ShapeAccept
  <1>2. ASSUME NEW c \in Conns, HangUp(c) PROVE Shape'
    BY <1>2, ShapeUnchanged DEF HangUp, peerVars
  <1>3. ASSUME NEW c \in Conns, registerPeer(c) PROVE Shape'
    BY <1>3, ShapeRegister
  <1>4. ASSUME NEW c \in Conns, finishReplace(c) PROVE Shape'
    BY <1>4, ShapeFinish
  <1>5. ASSUME NEW c \in Conns, acceptClient(c) PROVE Shape'
    BY <1>5, ShapeClient
  <1>6. ASSUME NEW c \in Conns, Cleanup(c) PROVE Shape'
    BY <1>6, ShapeCleanup
  <1>7. ASSUME NEW w \in Waiters,
               WaitForConfig(w) \/ WaitCancelled(w) \/ checkConfig(w) \/ waitForConfig(w)
        PROVE  Shape'
    BY <1>7, ShapeUnchanged
       DEF WaitForConfig, WaitCancelled, checkConfig, waitForConfig, connVars, peerVars
  <1>8. CASE close \/ UNCHANGED vars
    BY <1>8, ShapeUnchanged DEF close, vars, connVars, peerVars
  <1> QED
    BY <1>1, <1>2, <1>3, <1>4, <1>5, <1>6, <1>7, <1>8 DEF Next, Stream, Waiter

-----------------------------------------------------------------------------
(* Configurations and waiters *)

\* A node that gets a channel in the place of another stays where it is.
LEMMA SameConfigs ==
  ASSUME TypeOK, Shape, NEW c \in Conns, registerPeer(c), channel[announced[c]] # None
  PROVE  /\ KnownConfig(nodes, channel') = KnownConfig(nodes, channel)
         /\ ClientConfig(nodes, channel') = ClientConfig(nodes, channel)
  <1>1. announced[c] \in IDs
    BY KindsOfId DEF registerPeer, Shape, StreamPhases
  <1>2. channel'[announced[c]] # None
        /\ \A id \in IDs \ {announced[c]} : channel'[id] = channel[id]
    BY <1>1, KindsOfId DEF registerPeer, attachStream, TypeOK
  <1>3. \A id \in nodes : channel'[id] # None <=> channel[id] # None
    BY <1>2 DEF TypeOK
  <1> QED  BY <1>3 DEF KnownConfig, ClientConfig

\* rebuildConfig makes the configurations from what it is given.
LEMMA Rebuilt ==
  ASSUME notified = config, NEW ns, NEW ch, rebuildConfig(ns, ch)
  PROVE  config' = KnownConfig(ns, ch) /\ notified' = config'
         /\ clientConfig' = ClientConfig(ns, ch)
  BY DEF rebuildConfig, ConfigChanged

\* The configurations are those of the nodes and their channels.
LEMMA ConfigStep == Inv /\ [Next]_vars => ConfigsBuilt'
  <1> SUFFICES ASSUME Inv, [Next]_vars
               PROVE  ConfigsBuilt'
    OBVIOUS
  <1>0. TypeOK /\ Shape /\ ConfigsBuilt /\ notified = config
    BY DEF Inv, Shape, ConfigsBuilt
  <1>1. ASSUME UNCHANGED <<nodes, channel, config, notified, clientConfig>>
        PROVE  ConfigsBuilt'
    BY <1>0, <1>1 DEF ConfigsBuilt, KnownConfig, ClientConfig
  <1>2. ASSUME NEW c \in Conns, registerPeer(c) PROVE ConfigsBuilt'
    <2>0. nodes' = nodes
      BY <1>2 DEF registerPeer
    <2>1. CASE channel[announced[c]] = None
      <3>1. rebuildConfig(nodes, channel')
        BY <1>2, <2>1 DEF registerPeer
      <3> QED  BY <1>0, <2>0, <3>1, Rebuilt DEF ConfigsBuilt
    <2>2. CASE channel[announced[c]] # None
      <3>1. UNCHANGED <<config, clientConfig, notified>>
        BY <1>2, <2>2 DEF registerPeer
      <3> QED  BY <1>0, <1>2, <2>0, <2>2, <3>1, SameConfigs DEF ConfigsBuilt
    <2> QED  BY <2>1, <2>2
  <1>3. ASSUME NEW c \in Conns, finishReplace(c) PROVE ConfigsBuilt'
    <2>1. rebuildConfig(nodes, channel) /\ nodes' = nodes /\ channel' = channel
      BY <1>3 DEF finishReplace
    <2> QED  BY <1>0, <2>1, Rebuilt DEF ConfigsBuilt
  <1>4. ASSUME NEW c \in Conns, acceptClient(c) PROVE ConfigsBuilt'
    <2>1. CASE nextClientID = LastClient
      BY <1>1, <1>4, <2>1 DEF acceptClient, peerVars
    <2>2. CASE nextClientID # LastClient
      <3>1. rebuildConfig(nodes', channel')
        BY <1>4, <2>2 DEF acceptClient
      <3> QED  BY <1>0, <3>1, Rebuilt DEF ConfigsBuilt
    <2> QED  BY <2>1, <2>2
  <1>5. ASSUME NEW c \in Conns, Cleanup(c) PROVE ConfigsBuilt'
    <2>1. CASE Detaches(c)
      <3>1. rebuildConfig(nodes', channel')
        BY <1>5, <2>1 DEF Cleanup
      <3> QED  BY <1>0, <3>1, Rebuilt DEF ConfigsBuilt
    <2>2. CASE ~Detaches(c)
      BY <1>1, <1>5, <2>2 DEF Cleanup
    <2> QED  BY <2>1, <2>2
  <1>6. ASSUME NEW c \in Conns, Connect(c) \/ HangUp(c) \/ AcceptPeer(c) PROVE ConfigsBuilt'
    BY <1>1, <1>6 DEF Connect, HangUp, AcceptPeer, peerVars
  <1>7. ASSUME NEW w \in Waiters,
               WaitForConfig(w) \/ WaitCancelled(w) \/ checkConfig(w) \/ waitForConfig(w)
        PROVE  ConfigsBuilt'
    BY <1>1, <1>7
       DEF WaitForConfig, WaitCancelled, checkConfig, waitForConfig, peerVars
  <1>8. CASE close \/ UNCHANGED vars
    BY <1>1, <1>8 DEF close, vars, peerVars
  <1> QED
    BY <1>2, <1>3, <1>4, <1>5, <1>6, <1>7, <1>8 DEF Next, Stream, Waiter

\* A step that may change a configuration wakes every waiter that sleeps.
LEMMA WakeStep == Inv /\ [Next]_vars => NoMissedChange'
  <1> SUFFICES ASSUME Inv, [Next]_vars
               PROVE  NoMissedChange'
    OBVIOUS
  <1>0. TypeOK /\ NoMissedChange
    BY DEF Inv
  <1>1. ASSUME NEW ns, NEW ch, rebuildConfig(ns, ch), waitPc' = waitPc
        PROVE  NoMissedChange'
    BY <1>1 DEF NoMissedChange, rebuildConfig, Broadcast
  <1>2. ASSUME UNCHANGED <<config, clientConfig, waitPc, waitsFor, woken>>
        PROVE  NoMissedChange'
    BY <1>0, <1>2 DEF NoMissedChange, CondMet
  <1>3. ASSUME NEW c \in Conns, registerPeer(c) PROVE NoMissedChange'
    BY <1>1, <1>2, <1>3 DEF registerPeer
  <1>4. ASSUME NEW c \in Conns, finishReplace(c) PROVE NoMissedChange'
    BY <1>1, <1>4 DEF finishReplace
  <1>5. ASSUME NEW c \in Conns, acceptClient(c) PROVE NoMissedChange'
    BY <1>1, <1>2, <1>5 DEF acceptClient, peerVars
  <1>6. ASSUME NEW c \in Conns, Cleanup(c) PROVE NoMissedChange'
    BY <1>1, <1>2, <1>6 DEF Cleanup
  <1>7. ASSUME NEW c \in Conns, Connect(c) \/ HangUp(c) \/ AcceptPeer(c)
        PROVE  NoMissedChange'
    BY <1>2, <1>7 DEF Connect, HangUp, AcceptPeer, peerVars, waitVars
  <1>8. ASSUME NEW w \in Waiters, WaitForConfig(w) PROVE NoMissedChange'
    <2>1. /\ waitPc'[w] # "wait"
          /\ \A v \in Waiters \ {w} : waitPc'[v] = waitPc[v] /\ waitsFor'[v] = waitsFor[v]
          /\ UNCHANGED <<config, clientConfig, woken>>
      BY <1>0, <1>8 DEF WaitForConfig, TypeOK, peerVars
    <2> QED  BY <1>0, <2>1 DEF NoMissedChange, CondMet
  <1>9. ASSUME NEW w \in Waiters, checkConfig(w) PROVE NoMissedChange'
    <2>1. /\ waitPc'[w] = "wait" => ~CondMet(w)
          /\ \A v \in Waiters \ {w} : waitPc'[v] = waitPc[v] /\ (v \in woken' <=> v \in woken)
          /\ UNCHANGED <<config, clientConfig, waitsFor>>
      BY <1>0, <1>9 DEF checkConfig, TypeOK, peerVars
    <2> QED  BY <1>0, <2>1 DEF NoMissedChange, CondMet
  <1>10. ASSUME NEW w \in Waiters, WaitCancelled(w) \/ waitForConfig(w) PROVE NoMissedChange'
    <2>1. /\ waitPc'[w] # "wait"
          /\ \A v \in Waiters \ {w} : waitPc'[v] = waitPc[v]
          /\ UNCHANGED <<config, clientConfig, waitsFor, woken>>
      BY <1>0, <1>10 DEF WaitCancelled, waitForConfig, TypeOK, peerVars
    <2> QED  BY <1>0, <2>1 DEF NoMissedChange, CondMet
  <1>11. CASE close \/ UNCHANGED vars
    BY <1>2, <1>11 DEF close, vars, peerVars, waitVars
  <1> QED
    BY <1>3, <1>4, <1>5, <1>6, <1>7, <1>8, <1>9, <1>10, <1>11 DEF Next, Stream, Waiter

-----------------------------------------------------------------------------
(* Theorems *)

\* The inbound manager starts in the invariant.
LEMMA InvInit == Init => Inv
  <1> SUFFICES ASSUME Init PROVE Inv
    OBVIOUS
  <1> USE KindsOfId DEF Init
  <1>1. TypeOK
    <2>1. nextClientID \in FirstClient..LastClient
      BY IdAssumption, SMT
    <2>2. nodes \subseteq IDs /\ config \subseteq IDs
      OBVIOUS
    <2> QED  BY <2>1, <2>2 DEF TypeOK
  <1>2. ChannelsServed /\ StreamPhases /\ OneReplaces /\ DetachedIsClosed /\ LastRegistered
    BY DEF ChannelsServed, StreamPhases, OneReplaces, DetachedIsClosed, LastRegistered
  <1>3. ClientStreams
    BY DEF ClientStreams
  <1>4. KnownConfig(nodes, channel) = {Self} /\ ClientConfig(nodes, channel) = {}
    <2>1. \A id \in nodes : (id = Self \/ channel[id] # None) <=> id = Self
      OBVIOUS
    <2>2. Self \in nodes /\ Self < FirstClient /\ ~(Self >= FirstClient)
      BY SMT
    <2>3. \A id \in nodes : id >= FirstClient => channel[id] = None
      BY <2>1, <2>2
    <2> QED  BY <2>1, <2>2, <2>3 DEF KnownConfig, ClientConfig
  <1>5. NoMissedChange
    BY DEF NoMissedChange
  <1> QED  BY <1>1, <1>2, <1>3, <1>4, <1>5 DEF Inv, ConfigsBuilt

\* The invariant is inductive.
LEMMA InvNext == Inv /\ [Next]_vars => Inv'
  BY TypeStep, ShapeStep, ConfigStep, WakeStep DEF Inv, Shape

\* The configurations, made from channels, are those of the streams.
LEMMA InvImplies == Inv => ConfigFollowsStreams /\ ClientsHaveOwnNodes
  <1> SUFFICES ASSUME Inv PROVE ConfigFollowsStreams /\ ClientsHaveOwnNodes
    OBVIOUS
  <1> USE KindsOfId
  <1>1. ConfigFollowsStreams
    <2> SUFFICES ASSUME LockFree
                 PROVE  config = {Self} \cup {p \in Peers : lastOf[p] # None /\ Open(lastOf[p])}
      BY DEF ConfigFollowsStreams, Inv, ConfigsBuilt
    <2>1. ASSUME NEW p \in Peers
          PROVE  channel[p] # None <=> lastOf[p] # None /\ Open(lastOf[p])
      <3>1. CASE channel[p] # None
        <4>1. channel[p] = lastOf[p] /\ channel[p] \in Conns /\ nodeOf[channel[p]] = p
              /\ connPc[channel[p]] \in {"replace", "open"}
          BY <3>1 DEF Inv, LastRegistered, ChannelsServed
        <4> QED  BY <3>1, <4>1 DEF LockFree, Open
      <3>2. CASE channel[p] = None
        BY <3>2 DEF Inv, LastRegistered, Open
      <3> QED  BY <3>1, <3>2
    <2>2. \A id : id \in config <=>
                    id \in nodes /\ id < FirstClient /\ (id = Self \/ channel[id] # None)
      BY DEF Inv, ConfigsBuilt, KnownConfig
    <2>3. \A id \in nodes : id < FirstClient => id = Self \/ id \in Peers
      BY SMT DEF Inv, TypeOK
    <2>4. Self \in nodes /\ Peers \subseteq nodes
      BY DEF Inv, TypeOK
    <2> QED  BY <2>1, <2>2, <2>3, <2>4
  <1>2. ClientsHaveOwnNodes
    <2>1. \A id : id \in clientConfig <=>
                    id \in nodes /\ id >= FirstClient /\ channel[id] # None
      BY DEF Inv, ConfigsBuilt, ClientConfig
    <2>2. ASSUME NEW id \in clientConfig
          PROVE  \E c \in Conns : Open(c) /\ nodeOf[c] \in ClientIDs /\ id = nodeOf[c]
      <3>1. id \in ClientIDs /\ channel[id] # None
        BY <2>1, <2>2, SMT DEF Inv, TypeOK
      <3>2. channel[id] \in Conns /\ nodeOf[channel[id]] = id
        BY <3>1 DEF Inv, ChannelsServed
      <3>3. connPc[channel[id]] = "open"
        BY <3>1, <3>2, SMT DEF Inv, ChannelsServed, ClientStreams
      <3> QED  BY <3>1, <3>2, <3>3 DEF Open
    <2>3. ASSUME NEW c \in Conns, Open(c), nodeOf[c] \in ClientIDs
          PROVE  nodeOf[c] \in clientConfig
      <3>1. channel[nodeOf[c]] = c /\ nodeOf[c] \in nodes
        BY <2>3 DEF Inv, ClientStreams, Open
      <3> QED  BY <2>1, <2>3, <3>1
    <2>4. \A c, d \in Conns : nodeOf[c] = nodeOf[d] /\ nodeOf[c] \in ClientIDs => c = d
      BY DEF Inv, ClientStreams
    <2> QED  BY <2>2, <2>3, <2>4, SMT DEF ClientsHaveOwnNodes
  <1> QED  BY <1>1, <1>2

\* The inductive invariant holds throughout.
LEMMA InvHolds == Spec => []Inv
  BY InvInit, InvNext, PTL DEF Spec

(* Client IDs stay in their range and every table of the inbound manager keeps
   its type.                                                                 *)
THEOREM PeersTyped == Spec => []TypeOK
  <1>1. Inv => TypeOK
    BY DEF Inv
  <1> QED  BY <1>1, InvHolds, PTL

(* Config lists exactly the known peers whose last stream is served, in
   whatever order streams of a peer replace each other and break.            *)
THEOREM ConfigFollows == Spec => []ConfigFollowsStreams
  BY InvImplies, InvHolds, PTL

(* ClientConfig lists one node of its own for every client that is served.   *)
THEOREM ClientsApart == Spec => []ClientsHaveOwnNodes
  BY InvImplies, InvHolds, PTL

(* attachStream and its detach close a channel exactly when they take it away
   from its node.                                                            *)
THEOREM ChannelsReleased == Spec => []DetachedIsClosed
  <1>1. Inv => DetachedIsClosed
    BY DEF Inv
  <1> QED  BY <1>1, InvHolds, PTL

(* A waiter that sleeps on the current configCh waits for a condition that is
   false.                                                                    *)
THEOREM WaitersWoken == Spec => []NoMissedChange
  <1>1. Inv => NoMissedChange
    BY DEF Inv
  <1> QED  BY <1>1, InvHolds, PTL

-----------------------------------------------------------------------------
(* The composition implements InboundPeers *)

\* Every step of the composition is one of the streams, or leaves them alone.
LEMMA PeersStep == [CallsNext]_allVars => [Next]_vars
  <1> SUFFICES ASSUME [CallsNext]_allVars
               PROVE  [Next]_vars
    OBVIOUS
  <1>1. ASSUME NEW r \in Calls, NEW id, Call(r, id) PROVE UNCHANGED vars
    BY <1>1 DEF Call
  <1>2. ASSUME NEW r \in Calls, NEW c \in Conns,
               EnqueueClosed(r, c) \/ SenderTake(r, c) \/ Response(r, c)
        PROVE  UNCHANGED vars
    BY <1>2 DEF EnqueueClosed, SenderTake, Response
  <1>3. ASSUME NEW c \in Conns,
               SenderRegister(c) \/ CancelClears(c) \/ Send(c) \/ SendFails(c)
        PROVE  UNCHANGED vars
    BY <1>3 DEF SenderRegister, CancelClears, Send, SendFails
  <1>4. ASSUME NEW r \in Calls, Cancel(r) PROVE UNCHANGED vars
    BY <1>4 DEF Cancel
  <1>5. ASSUME NEW c \in Conns, Connect(c) \/ HangUp(c) \/ Streaming(c) PROVE Next
    BY <1>5 DEF Next, Stream, Streaming, CloseReplacedChannel, EndStream
  <1>6. ASSUME NEW w \in Waiters, WaitForConfig(w) \/ WaitCancelled(w) \/ Waiting(w) PROVE Next
    BY <1>6 DEF Next, Waiter, Waiting
  <1>7. CASE close
    BY <1>7 DEF Next
  <1>8. CASE UNCHANGED allVars
    BY <1>8 DEF allVars
  <1> QED
    BY <1>1, <1>2, <1>3, <1>4, <1>5, <1>6, <1>7, <1>8 DEF CallsNext

(* The composition with calls implements the component alone, so what is proved
   of the configurations holds while calls are made.                         *)
THEOREM CallsImplementPeers == CallsSpec => Spec
  <1>1. CallsInit => Init
    BY DEF CallsInit
  <1> QED  BY <1>1, PeersStep, PTL DEF CallsSpec, Spec

-----------------------------------------------------------------------------
(* The parts of the inductive invariant *)

CallTypes ==
    /\ target \in [Calls -> Peers \cup ClientIDs \cup {None}]
    /\ waiting \subseteq Calls \X Conns
    /\ hand \in [Conns -> Calls \cup {None}]
    /\ handPc \in [Conns -> {"take", "send"}]
    /\ pending \subseteq Calls
    /\ via \in [Calls -> Conns \cup {None}]
    /\ cancelled \subseteq Calls
    /\ answers \in [Calls -> Nat]

\* The sender of c has taken r and not registered it.
Holds(c, r) == hand[c] = r /\ handPc[c] = "take"

\* A request that is not answered is in one place: an Enqueue, the hand of a
\* sender before Register, or the router.
InOnePlace(r) ==
    /\ answers[r] <= 1
    /\ target[r] = None => answers[r] = 0
    /\ r \in pending =>
          /\ answers[r] = 0 /\ target[r] # None
          /\ \A c \in Conns : <<r, c>> \notin waiting /\ ~Holds(c, r)
    /\ \A c \in Conns : <<r, c>> \in waiting =>
          /\ answers[r] = 0 /\ target[r] # None
          /\ \A d \in Conns : ~Holds(d, r) /\ (<<r, d>> \in waiting => d = c)
    /\ \A c \in Conns : Holds(c, r) =>
          /\ answers[r] = 0 /\ target[r] # None
          /\ \A d \in Conns : Holds(d, r) => d = c

OnePlace == \A r \in Calls : InOnePlace(r)

\* A request is only ever on channels of the node it is for.
OwnNode ==
    /\ \A r \in Calls, c \in Conns : <<r, c>> \in waiting => nodeOf[c] = target[r]
    /\ \A c \in Conns : hand[c] # None =>
          nodeOf[c] = target[hand[c]] /\ target[hand[c]] # None
    /\ \A r \in pending : via[r] \in Conns /\ nodeOf[via[r]] = target[r]

\* The channel of a pending call is open, unless it was closed before the call
\* was registered or is being replaced.
Attached ==
    \A r \in pending :
        \/ r \in late
        \/ via[r] \notin closedChans
        \/ /\ connPc[via[r]] # "ended"
           /\ \E c \in Conns : connPc[c] = "replace" /\ nodeOf[c] = target[r]

\* A stream that replaces another has closed it.
ReplacesOne ==
    \A c \in Conns : connPc[c] = "replace" => \E d \in closedChans : nodeOf[d] = nodeOf[c]

\* A disturbed call is answered before it could be registered again.
NotRetried ==
    \A r \in disturbed :
        /\ r \in Calls /\ r \notin pending /\ target[r] # None
        /\ \A c \in Conns : ~Holds(c, r) /\ (<<r, c>> \in waiting => c \in cleared)

CallsInv ==
    /\ Inv /\ CallTypes /\ OnePlace /\ OwnNode /\ Attached /\ ReplacesOne /\ NotRetried
    /\ DisturbedForCause

-----------------------------------------------------------------------------
(* Steps of the streams *)

\* A stream keeps its node and a closed channel stays closed.
LEMMA NodesStay ==
  ASSUME Inv, [Next]_vars
  PROVE  /\ \A c \in Conns : nodeOf[c] # None => nodeOf'[c] = nodeOf[c]
         /\ closedChans \subseteq closedChans'
  <1>0. TypeOK /\ StreamPhases
    BY DEF Inv
  <1>1. ASSUME NEW c \in Conns, registerPeer(c) \/ acceptClient(c)
        PROVE  /\ nodeOf[c] = None /\ closedChans \subseteq closedChans'
               /\ \A d \in Conns \ {c} : nodeOf'[d] = nodeOf[d]
    <2>1. CASE registerPeer(c)
      BY <1>0, <2>1 DEF registerPeer, attachStream, CloseReplaced, TypeOK, StreamPhases
    <2>2. CASE acceptClient(c)
      <3>1. nodeOf[c] = None
        BY <1>0, <2>2 DEF acceptClient, StreamPhases
      <3>2. UNCHANGED <<nodeOf, closedChans>> \/ attachStream(c, nextClientID)
        BY <2>2 DEF acceptClient, peerVars
      <3> QED  BY <1>0, <3>1, <3>2 DEF attachStream, CloseReplaced, TypeOK
    <2> QED  BY <1>1, <2>1, <2>2
  <1>2. ASSUME NEW c \in Conns, Cleanup(c)
        PROVE  nodeOf' = nodeOf /\ closedChans \subseteq closedChans'
    BY <1>2 DEF Cleanup
  <1>3. ASSUME NEW c \in Conns, finishReplace(c) PROVE UNCHANGED <<nodeOf, closedChans>>
    BY <1>3 DEF finishReplace
  <1>4. ASSUME NEW c \in Conns, Connect(c) \/ HangUp(c) \/ AcceptPeer(c)
        PROVE  UNCHANGED <<nodeOf, closedChans>>
    BY <1>4 DEF Connect, HangUp, AcceptPeer, peerVars
  <1>5. ASSUME NEW w \in Waiters,
               WaitForConfig(w) \/ WaitCancelled(w) \/ checkConfig(w) \/ waitForConfig(w)
        PROVE  UNCHANGED <<nodeOf, closedChans>>
    BY <1>5 DEF WaitForConfig, WaitCancelled, checkConfig, waitForConfig, connVars, peerVars
  <1>6. CASE close \/ UNCHANGED vars
    BY <1>6 DEF close, vars, connVars, peerVars
  <1> QED
    BY <1>1, <1>2, <1>3, <1>4, <1>5, <1>6 DEF Next, Stream, Waiter

\* The stream that a new one replaces is closed with the swap.
LEMMA ReplacesStep ==
  ASSUME Inv, ReplacesOne, [Next]_vars
  PROVE  ReplacesOne'
  <1> SUFFICES ASSUME NEW c \in Conns, connPc'[c] = "replace"
               PROVE  \E d \in closedChans' : nodeOf'[d] = nodeOf'[c]
    BY DEF ReplacesOne
  <1> USE KindsOfId
  <1>0. TypeOK /\ StreamPhases /\ ChannelsServed
    BY DEF Inv
  <1>1. CASE connPc[c] = "replace"
    <2>1. PICK d \in closedChans : nodeOf[d] = nodeOf[c]
      BY <1>1 DEF ReplacesOne
    <2>2. nodeOf[c] # None /\ d \in Conns
      BY <1>0, <1>1, SMT DEF StreamPhases, TypeOK
    <2>3. nodeOf'[d] = nodeOf[d] /\ nodeOf'[c] = nodeOf[c] /\ d \in closedChans'
      BY <2>1, <2>2, NodesStay
    <2> QED  BY <2>1, <2>3
  <1>2. CASE connPc[c] # "replace"
    <2>1. registerPeer(c)
      <3>1. ASSUME NEW e \in Conns, Connect(e) \/ HangUp(e) \/ AcceptPeer(e)
                                    \/ finishReplace(e) \/ acceptClient(e) \/ Cleanup(e)
            PROVE  FALSE
        BY <1>0, <1>2, <3>1
           DEF TypeOK, Connect, HangUp, AcceptPeer, finishReplace, acceptClient, Cleanup
      <3>2. ASSUME NEW e \in Conns, registerPeer(e), e # c PROVE FALSE
        BY <1>0, <1>2, <3>2 DEF TypeOK, registerPeer
      <3>3. ASSUME UNCHANGED connPc PROVE FALSE
        BY <1>2, <3>3
      <3>4. ASSUME NEW w \in Waiters,
                   WaitForConfig(w) \/ WaitCancelled(w) \/ checkConfig(w) \/ waitForConfig(w)
            PROVE  FALSE
        BY <3>3, <3>4 DEF WaitForConfig, WaitCancelled, checkConfig, waitForConfig, connVars
      <3>5. ASSUME close \/ UNCHANGED vars PROVE FALSE
        BY <3>3, <3>5 DEF close, vars, connVars
      <3> QED  BY <3>1, <3>2, <3>4, <3>5 DEF Next, Stream, Waiter
    <2>2. announced[c] \in Peers /\ nodeOf[c] = None /\ channel[announced[c]] # None
      BY <1>0, <2>1, SMT DEF registerPeer, StreamPhases, TypeOK
    <2>3. channel[announced[c]] \in Conns /\ nodeOf[channel[announced[c]]] = announced[c]
      BY <1>0, <2>2 DEF ChannelsServed
    <2>4. channel[announced[c]] \in closedChans' /\ nodeOf'[c] = announced[c]
      BY <1>0, <2>1, <2>2, <2>3 DEF registerPeer, attachStream, CloseReplaced, TypeOK
    <2>5. nodeOf'[channel[announced[c]]] = announced[c]
      BY <2>2, <2>3, NodesStay
    <2> QED  BY <2>4, <2>5
  <1> QED  BY <1>1, <1>2

CallShape == CallTypes /\ OnePlace /\ OwnNode /\ NotRetried /\ DisturbedForCause

\* Without a step of the calls, a step of the streams disturbs nothing.
LEMMA CallsAlone ==
  ASSUME Inv, CallShape, [Next]_vars, UNCHANGED callVars
  PROVE  CallShape'
  <1> USE KindsOfId
  <1>0. TypeOK
    BY DEF Inv
  <1>1. CallTypes' /\ OnePlace' /\ NotRetried'
    BY SMT DEF CallShape, CallTypes, OnePlace, InOnePlace, NotRetried, Holds, callVars
  <1>2. OwnNode'
    <2>1. ASSUME NEW r \in Calls, NEW c \in Conns, <<r, c>> \in waiting
          PROVE  nodeOf'[c] = target[r]
      BY <2>1, NodesStay, SMT DEF CallShape, OwnNode, OnePlace, InOnePlace
    <2>2. ASSUME NEW c \in Conns, hand[c] # None
          PROVE  nodeOf'[c] = target[hand[c]] /\ target[hand[c]] # None
      BY <2>2, NodesStay DEF CallShape, OwnNode
    <2>3. ASSUME NEW r \in pending
          PROVE  via[r] \in Conns /\ nodeOf'[via[r]] = target[r]
      BY NodesStay, SMT DEF CallShape, OwnNode, OnePlace, InOnePlace, CallTypes
    <2> QED  BY <2>1, <2>2, <2>3 DEF OwnNode, callVars
  <1>3. DisturbedForCause'
    <2> SUFFICES ASSUME NEW r \in disturbed
                 PROVE  \/ \E c \in closedChans' : nodeOf'[c] = target[r] /\ c # via[r]
                        \/ \E q \in cancelled : target[q] = target[r]
      BY DEF DisturbedForCause, callVars
    <2>1. CASE \E q \in cancelled : target[q] = target[r]
      BY <2>1
    <2>2. ASSUME NEW c \in closedChans, nodeOf[c] = target[r], c # via[r]
          PROVE  \E d \in closedChans' : nodeOf'[d] = target[r] /\ d # via[r]
      <3>1. c \in Conns /\ nodeOf[c] # None
        BY <1>0, <2>2 DEF TypeOK, CallShape, NotRetried
      <3> QED  BY <2>2, <3>1, NodesStay
    <2> QED  BY <2>1, <2>2 DEF CallShape, DisturbedForCause
  <1> QED  BY <1>1, <1>2, <1>3 DEF CallShape

\* The calls that a closing channel takes from the router are answered.
LEMMA CancelShape ==
  ASSUME TypeOK, CallTypes, OnePlace, NotRetried, NEW id, cancelPendingMsgs(id)
  PROVE  /\ CallTypes' /\ OnePlace' /\ NotRetried'
         /\ pending' = {r \in pending : target[r] # id}
         /\ disturbed' = disturbed \cup {r \in pending : target[r] = id /\ Fine(via[r])}
         /\ UNCHANGED <<target, waiting, hand, handPc, via, sent, cleared, cancelled, late>>
  <1>1. /\ pending' = {r \in pending : target[r] # id}
        /\ disturbed' = disturbed \cup {r \in pending : target[r] = id /\ Fine(via[r])}
        /\ UNCHANGED <<target, waiting, hand, handPc, via, sent, cleared, cancelled, late>>
        /\ answers' = [r \in Calls |-> answers[r] + IF r \in PendingOf(id) THEN 1 ELSE 0]
    BY DEF cancelPendingMsgs, Taken, Disturb, Answer, PendingOf
  <1>2. \A r \in Calls : answers'[r] = IF r \in pending /\ target[r] = id THEN 1 ELSE answers[r]
    <2> TAKE r \in Calls
    <2>1. r \in PendingOf(id) <=> r \in pending /\ target[r] = id
      BY DEF PendingOf
    <2>2. r \in pending => answers[r] = 0
      BY DEF OnePlace, InOnePlace
    <2>3. answers[r] \in Nat /\ answers'[r] = answers[r] + IF r \in PendingOf(id) THEN 1 ELSE 0
      BY <1>1 DEF CallTypes
    <2> QED  BY <2>1, <2>2, <2>3, SMT
  <1>3. CallTypes'
    <2>1. answers' \in [Calls -> Nat]
      BY <1>1, SMT DEF CallTypes
    <2> QED  BY <1>1, <2>1 DEF CallTypes
  <1>4. OnePlace'
    <2> SUFFICES ASSUME NEW r \in Calls PROVE InOnePlace(r)'
      BY DEF OnePlace
    <2>0. InOnePlace(r)
      BY DEF OnePlace
    <2>1. CASE r \in pending /\ target[r] = id
      <3>1. answers'[r] = 1 /\ answers'[r] <= 1 /\ r \notin pending' /\ target'[r] # None
        BY <1>1, <1>2, <2>0, <2>1, SMT DEF InOnePlace
      <3>2. \A c \in Conns : <<r, c>> \notin waiting' /\ ~Holds(c, r)'
        BY <1>1, <2>0, <2>1 DEF InOnePlace, Holds
      <3> QED  BY <3>1, <3>2 DEF InOnePlace
    <2>2. CASE ~(r \in pending /\ target[r] = id)
      <3>1. answers'[r] = answers[r] /\ (r \in pending' <=> r \in pending)
        BY <1>1, <1>2, <2>2
      <3> QED  BY <1>1, <2>0, <3>1 DEF InOnePlace, Holds
    <2> QED  BY <2>1, <2>2
  <1>5. NotRetried'
    BY <1>1, SMT DEF NotRetried, OnePlace, InOnePlace, Holds, CallTypes
  <1> QED  BY <1>1, <1>3, <1>4, <1>5

\* Closing the replaced channel can disturb a call of the new one.
LEMMA ReplaceCalls ==
  ASSUME Inv, Inv', CallShape, Attached, ReplacesOne, NEW c \in Conns, CloseReplacedChannel(c)
  PROVE  CallShape' /\ Attached'
  <1> USE KindsOfId
  <1>0. TypeOK /\ OneReplaces /\ StreamPhases
    BY DEF Inv
  <1>1. /\ connPc[c] = "replace" /\ UNCHANGED <<nodeOf, closedChans>>
        /\ connPc'[c] = "open" /\ \A d \in Conns \ {c} : connPc'[d] = connPc[d]
        /\ cancelPendingMsgs(nodeOf[c])
    BY <1>0 DEF CloseReplacedChannel, finishReplace, TypeOK
  <1>2. /\ CallTypes' /\ OnePlace' /\ NotRetried'
        /\ pending' = {r \in pending : target[r] # nodeOf[c]}
        /\ disturbed' = disturbed \cup {r \in pending : target[r] = nodeOf[c] /\ Fine(via[r])}
        /\ UNCHANGED <<target, waiting, hand, handPc, via, cleared, cancelled, late>>
    BY <1>0, <1>1, CancelShape DEF CallShape
  <1>3. OwnNode'
    BY <1>1, <1>2 DEF CallShape, OwnNode
  <1>4. Attached'
    <2> SUFFICES ASSUME NEW r \in pending'
                 PROVE  r \in late \/ via[r] \notin closedChans
      BY <1>1, <1>2 DEF Attached
    <2>1. r \in pending /\ target[r] # nodeOf[c]
      BY <1>2
    <2>2. \A d \in Conns : connPc[d] = "replace" => d = c
      BY <1>0, <1>1 DEF OneReplaces
    <2> QED  BY <2>1, <2>2 DEF Attached
  <1>5. DisturbedForCause'
    <2>1. ASSUME NEW r \in pending, target[r] = nodeOf[c], Fine(via[r])
          PROVE  \E d \in closedChans : nodeOf[d] = target[r] /\ d # via[r]
      BY <1>1, <2>1 DEF ReplacesOne, Fine, ConnDone
    <2> QED  BY <1>1, <1>2, <2>1, SMT DEF CallShape, DisturbedForCause
  <1> QED  BY <1>2, <1>3, <1>4, <1>5 DEF CallShape

\* The end of a stream fails its own calls and disturbs no other.
LEMMA EndCalls ==
  ASSUME Inv, Inv', CallShape, Attached, NEW c \in Conns, EndStream(c)
  PROVE  CallShape' /\ Attached'
  <1> USE KindsOfId
  <1>0. TypeOK /\ StreamPhases /\ DetachedIsClosed
    BY DEF Inv
  <1>1. /\ c \in gone /\ nodeOf' = nodeOf /\ closedChans \subseteq closedChans'
        /\ closedChans' \subseteq closedChans \cup {c}
        /\ \A d \in Conns : connPc[d] # "replace"
        /\ [Next]_vars
    BY DEF EndStream, Cleanup, LockFree, Next, Stream
  <1>2. \A r \in pending : r \in late \/ via[r] \notin closedChans
    BY <1>1 DEF Attached
  <1>3. CASE ~Detaches(c)
    <2>1. closedChans' = closedChans /\ UNCHANGED callVars
      BY <1>3 DEF EndStream, Cleanup, DetachChannel
    <2>2. CallShape'
      BY <1>1, <2>1, CallsAlone
    <2>3. Attached'
      BY <1>2, <2>1 DEF Attached, callVars
    <2> QED  BY <2>2, <2>3
  <1>4. CASE Detaches(c)
    <2>0. cancelPendingMsgs(nodeOf[c])
      BY <1>4 DEF EndStream, DetachChannel
    <2>1. /\ CallTypes' /\ OnePlace' /\ NotRetried'
          /\ pending' = {r \in pending : target[r] # nodeOf[c]}
          /\ disturbed' = disturbed \cup {r \in pending : target[r] = nodeOf[c] /\ Fine(via[r])}
          /\ UNCHANGED <<target, waiting, hand, handPc, via, cleared, cancelled, late>>
      BY <1>0, <2>0, CancelShape DEF CallShape
    <2>2. ASSUME NEW r \in pending, target[r] = nodeOf[c], Fine(via[r])
          PROVE  FALSE
      <3>1. via[r] \in Conns /\ nodeOf[via[r]] = nodeOf[c] /\ via[r] \notin closedChans
            /\ via[r] # c
        BY <1>1, <2>2 DEF CallShape, OwnNode, Fine, ConnDone
      <3>2. nodeOf[c] # None /\ channel[nodeOf[c]] = c
        BY <1>0, <1>4 DEF Detaches, StillAttached, TypeOK
      <3> QED  BY <1>0, <3>1, <3>2 DEF DetachedIsClosed
    <2>3. disturbed' = disturbed
      BY <2>1, <2>2
    <2>4. OwnNode'
      BY <1>1, <2>1 DEF CallShape, OwnNode
    <2>5. DisturbedForCause'
      BY <1>1, <2>1, <2>3 DEF CallShape, DisturbedForCause
    <2>6. Attached'
      <3> SUFFICES ASSUME NEW r \in pending'
                   PROVE  r \in late \/ via[r] \notin closedChans'
        BY <2>1 DEF Attached
      <3>1. r \in pending /\ via[r] # c
        BY <2>1 DEF CallShape, OwnNode
      <3> QED  BY <1>1, <1>2, <3>1
    <2> QED  BY <2>1, <2>4, <2>5, <2>6 DEF CallShape
  <1> QED  BY <1>3, <1>4

\* A channel that is being replaced is closed, and its stream has not ended.
LEMMA RegisterCalls ==
  ASSUME Inv, CallShape, Attached, NEW c \in Conns, registerPeer(c), UNCHANGED callVars
  PROVE  Attached'
  <1> USE KindsOfId
  <1>0. TypeOK /\ StreamPhases /\ ChannelsServed
    BY DEF Inv
  <1>1. /\ announced[c] \in Peers /\ nodeOf[c] = None /\ connPc[c] = "register"
        /\ \A d \in Conns : connPc[d] # "replace"
    BY <1>0 DEF registerPeer, LockFree, StreamPhases
  <1>2. /\ nodeOf'[c] = announced[c] /\ \A d \in Conns \ {c} : nodeOf'[d] = nodeOf[d]
        /\ closedChans' = closedChans \cup ({channel[announced[c]]} \ {None, Local})
        /\ \A d \in Conns \ {c} : connPc'[d] = connPc[d]
        /\ channel[announced[c]] # None => connPc'[c] = "replace"
    BY <1>0 DEF registerPeer, attachStream, CloseReplaced, TypeOK
  <1> SUFFICES ASSUME NEW r \in pending, r \notin late, via[r] \in closedChans'
               PROVE  /\ connPc'[via[r]] # "ended"
                      /\ \E d \in Conns : connPc'[d] = "replace" /\ nodeOf'[d] = target[r]
    BY DEF Attached, callVars
  <1>3. via[r] \in Conns /\ nodeOf[via[r]] = target[r] /\ target[r] # None
    BY DEF CallShape, OwnNode, OnePlace, InOnePlace, CallTypes
  <1>4. via[r] \notin closedChans
    BY <1>1 DEF Attached
  <1>5. via[r] = channel[announced[c]] /\ channel[announced[c]] # None
    BY <1>2, <1>4
  <1>6. nodeOf[via[r]] = announced[c] /\ connPc[via[r]] \in {"replace", "open"} /\ via[r] # c
    BY <1>0, <1>1, <1>3, <1>5 DEF ChannelsServed
  <1> QED  BY <1>2, <1>3, <1>5, <1>6

\* The other steps of a stream close no channel.
LEMMA QuietCalls ==
  ASSUME Inv, CallShape, Attached, UNCHANGED callVars,
         \/ \E c \in Conns : Connect(c) \/ HangUp(c) \/ AcceptPeer(c) \/ acceptClient(c)
         \/ UNCHANGED <<connPc, nodeOf, closedChans>>
  PROVE  Attached'
  <1> USE KindsOfId
  <1>0. TypeOK /\ StreamPhases
    BY DEF Inv
  <1> SUFFICES ASSUME NEW r \in pending
               PROVE  \/ r \in late
                      \/ via[r] \notin closedChans'
                      \/ /\ connPc'[via[r]] # "ended"
                         /\ \E d \in Conns : connPc'[d] = "replace" /\ nodeOf'[d] = target[r]
    BY DEF Attached, callVars
  <1>1. \/ r \in late
        \/ via[r] \notin closedChans
        \/ /\ connPc[via[r]] # "ended"
           /\ \E d \in Conns : connPc[d] = "replace" /\ nodeOf[d] = target[r]
    BY DEF Attached
  <1>2. via[r] \in Conns
    BY DEF CallShape, OwnNode
  <1>3. CASE UNCHANGED <<connPc, nodeOf, closedChans>>
    BY <1>1, <1>3
  <1>4. ASSUME NEW c \in Conns, Connect(c) \/ HangUp(c)
        PROVE  /\ UNCHANGED <<nodeOf, closedChans>>
               /\ \A d \in Conns : connPc[d] = "replace" => connPc'[d] = "replace"
               /\ \A d \in Conns : connPc'[d] = "ended" => connPc[d] = "ended"
    BY <1>0, <1>4 DEF Connect, HangUp, peerVars, TypeOK
  <1>5. ASSUME NEW c \in Conns, AcceptPeer(c) \/ acceptClient(c)
        PROVE  closedChans' = closedChans /\ \A d \in Conns : connPc[d] # "replace"
    <2>1. CASE AcceptPeer(c)
      BY <2>1 DEF AcceptPeer, LockFree, peerVars
    <2>2. CASE acceptClient(c) /\ nextClientID = LastClient
      BY <2>2 DEF acceptClient, LockFree, peerVars
    <2>3. CASE acceptClient(c) /\ nextClientID # LastClient
      <3>1. nextClientID \in ClientIDs
        BY <1>0, <2>3, SMT DEF TypeOK, ClientIDs
      <3>2. channel[nextClientID] = None
        BY <1>0, <3>1, SMT DEF TypeOK, Inv, ClientStreams
      <3>3. closedChans' = closedChans \cup ({channel[nextClientID]} \ {None, Local})
        BY <2>3 DEF acceptClient, attachStream, CloseReplaced
      <3> QED  BY <2>3, <3>2, <3>3 DEF acceptClient, LockFree
    <2> QED  BY <1>5, <2>1, <2>2, <2>3
  <1> QED  BY <1>1, <1>2, <1>3, <1>4, <1>5

-----------------------------------------------------------------------------
(* Steps of the calls *)

\* A step keeps a request in its place when it changes nothing about it.
LEMMA SamePlace ==
  ASSUME NEW r \in Calls, InOnePlace(r),
         answers'[r] = answers[r], target'[r] = target[r], r \in pending' <=> r \in pending,
         \A c \in Conns : <<r, c>> \in waiting' <=> <<r, c>> \in waiting,
         \A c \in Conns : Holds(c, r)' <=> Holds(c, r)
  PROVE  InOnePlace(r)'
  BY DEF InOnePlace

\* An answered request is nowhere else.
LEMMA AnsweredPlace ==
  ASSUME NEW r \in Calls, answers'[r] = 1, target'[r] # None, r \notin pending',
         \A c \in Conns : <<r, c>> \notin waiting',
         \A c \in Conns : ~Holds(c, r)'
  PROVE  InOnePlace(r)'
  <1>1. answers'[r] <= 1
    BY SMT
  <1> QED  BY <1>1 DEF InOnePlace

\* Node.Enqueue puts a new request in one place, answers it or drops it.
LEMMA CallStep ==
  ASSUME Inv, CallShape, Attached, NEW r \in Calls, NEW id \in Peers \cup ClientIDs, Call(r, id)
  PROVE  CallShape' /\ Attached'
  <1> USE KindsOfId, CallAssumption
  <1>0. TypeOK /\ ChannelsServed
    BY DEF Inv
  <1>1. /\ target[r] = None /\ target'[r] = id
        /\ \A q \in Calls \ {r} : target'[q] = target[q]
        /\ target' \in [Calls -> Peers \cup ClientIDs \cup {None}]
        /\ UNCHANGED <<vars, hand, handPc, pending, via, cleared, cancelled, late, disturbed>>
    BY DEF Call, CallShape, CallTypes
  <1>2. /\ answers[r] = 0 /\ r \notin pending
        /\ \A c \in Conns : <<r, c>> \notin waiting /\ hand[c] # r
    BY <1>1 DEF CallShape, OnePlace, InOnePlace, OwnNode
  <1>3. UNCHANGED <<nodeOf, closedChans, connPc, gone>>
    BY <1>1 DEF vars, connVars, peerVars
  <1>4. \/ UNCHANGED <<waiting, answers>>
        \/ /\ answers' = [q \in Calls |-> answers[q] + IF q \in {r} THEN 1 ELSE 0]
           /\ UNCHANGED waiting
        \/ /\ channel[id] # None
           /\ waiting' = waiting \cup {<<r, channel[id]>>}
           /\ UNCHANGED answers
    BY DEF Call, Answer
  <1>5. channel[id] # None => channel[id] \in Conns /\ nodeOf[channel[id]] = id
    BY <1>0 DEF ChannelsServed
  <1>6. CallTypes'
    <2>1. answers' \in [Calls -> Nat]
      BY <1>4, SMT DEF CallShape, CallTypes
    <2>2. waiting' \subseteq Calls \X Conns
      BY <1>4, <1>5, SMT DEF CallShape, CallTypes
    <2> QED  BY <1>1, <2>1, <2>2 DEF CallShape, CallTypes
  <1>7. \A q \in Calls \ {r} : /\ answers'[q] = answers[q]
                               /\ \A c \in Conns : <<q, c>> \in waiting' <=> <<q, c>> \in waiting
    BY <1>4, SMT DEF CallShape, CallTypes
  <1>8. OnePlace'
    <2> SUFFICES ASSUME NEW q \in Calls PROVE InOnePlace(q)'
      BY DEF OnePlace
    <2>1. CASE q # r
      <3>1. InOnePlace(q)
        BY DEF CallShape, OnePlace
      <3> QED  BY <1>1, <1>7, <2>1, <3>1, SamePlace DEF Holds
    <2>2. CASE q = r
      <3>3. answers'[r] \in {0, 1}
        BY <1>2, <1>4, SMT
      <3>4. target'[r] # None /\ r \notin pending'
        BY <1>1, <1>2
      <3>5. \A c \in Conns : ~Holds(c, r)'
        BY <1>1, <1>2 DEF Holds
      <3>1. answers'[r] = 0 \/ \A c \in Conns : <<r, c>> \notin waiting'
        BY <1>2, <1>4
      <3>2. \A c, d \in Conns : <<r, c>> \in waiting' /\ <<r, d>> \in waiting' => d = c
        BY <1>2, <1>4
      <3> QED  BY <2>2, <3>1, <3>2, <3>3, <3>4, <3>5, SMT DEF InOnePlace
    <2> QED  BY <2>1, <2>2
  <1>9. OwnNode'
    <2>1. ASSUME NEW q \in Calls, NEW c \in Conns, <<q, c>> \in waiting'
          PROVE  nodeOf'[c] = target'[q]
      <3>1. CASE q # r
        BY <1>1, <1>3, <1>7, <2>1, <3>1 DEF CallShape, OwnNode
      <3>2. CASE q = r
        BY <1>1, <1>2, <1>3, <1>4, <1>5, <2>1, <3>2
      <3> QED  BY <3>1, <3>2
    <2>2. ASSUME NEW c \in Conns, hand[c] # None
          PROVE  nodeOf'[c] = target'[hand[c]] /\ target'[hand[c]] # None
      BY <1>1, <1>2, <1>3, <2>2, SMT DEF CallShape, OwnNode, CallTypes
    <2>3. ASSUME NEW q \in pending
          PROVE  via[q] \in Conns /\ nodeOf'[via[q]] = target'[q]
      BY <1>1, <1>2, <1>3 DEF CallShape, OwnNode, CallTypes
    <2> QED  BY <1>1, <2>1, <2>2, <2>3 DEF OwnNode
  <1>10. r \notin disturbed
    BY <1>1 DEF CallShape, NotRetried
  <1>11. NotRetried'
    BY <1>1, <1>7, <1>10 DEF CallShape, NotRetried, Holds
  <1>12. DisturbedForCause'
    <2> SUFFICES ASSUME NEW q \in disturbed
                 PROVE  \/ \E c \in closedChans : nodeOf[c] = target'[q] /\ c # via[q]
                        \/ \E t \in cancelled : target'[t] = target'[q]
      BY <1>1, <1>3 DEF DisturbedForCause
    <2>1. q \in Calls /\ target'[q] = target[q] /\ target[q] # None
      BY <1>1, <1>10 DEF CallShape, NotRetried
    <2>2. \A t \in cancelled : target[t] = target[q] => target'[t] = target[t]
      BY <1>1, <2>1, SMT DEF Call
    <2> QED  BY <2>1, <2>2 DEF CallShape, DisturbedForCause
  <1>13. Attached'
    BY <1>1, <1>2, <1>3, SMT DEF Attached, CallShape, CallTypes
  <1> QED  BY <1>6, <1>8, <1>9, <1>11, <1>12, <1>13 DEF CallShape

\* A request is answered while an Enqueue or the sender has it.
LEMMA TakeStep ==
  ASSUME Inv, CallShape, Attached, NEW r \in Calls, NEW c \in Conns,
         EnqueueClosed(r, c) \/ SenderTake(r, c)
  PROVE  CallShape' /\ Attached'
  <1> USE KindsOfId, CallAssumption
  <1> DEFINE answered == /\ answers' = [q \in Calls |-> answers[q] + IF q \in {r} THEN 1 ELSE 0]
                         /\ UNCHANGED <<hand, handPc>>
             taken == /\ hand[c] = None
                      /\ hand' = [hand EXCEPT ![c] = r]
                      /\ handPc' = [handPc EXCEPT ![c] = "take"]
                      /\ c \notin cleared
                      /\ UNCHANGED answers
  <1>1. /\ <<r, c>> \in waiting /\ waiting' = waiting \ {<<r, c>>}
        /\ UNCHANGED <<vars, target, pending, via, cleared, cancelled, late, disturbed>>
    BY DEF EnqueueClosed, SenderTake
  <1>2. answered \/ taken
    BY DEF EnqueueClosed, SenderTake, Answer
  <1>3. /\ answers[r] = 0 /\ target[r] # None /\ r \notin pending
        /\ \A d \in Conns : ~Holds(d, r) /\ (<<r, d>> \in waiting => d = c)
    BY <1>1 DEF CallShape, OnePlace, InOnePlace
  <1>4. UNCHANGED <<nodeOf, closedChans, connPc, gone>>
    BY <1>1 DEF vars, connVars, peerVars
  <1>5. CallTypes'
    <2>1. answers' \in [Calls -> Nat]
      BY <1>2, SMT DEF CallShape, CallTypes
    <2>2. hand' \in [Conns -> Calls \cup {None}] /\ handPc' \in [Conns -> {"take", "send"}]
      BY <1>2, SMT DEF CallShape, CallTypes
    <2> QED  BY <1>1, <2>1, <2>2 DEF CallShape, CallTypes
  <1>6. OnePlace'
    <2> SUFFICES ASSUME NEW q \in Calls PROVE InOnePlace(q)'
      BY DEF OnePlace
    <2>0. InOnePlace(q)
      BY DEF CallShape, OnePlace
    <2>1. CASE q # r
      <3>1. answers'[q] = answers[q] /\ \A d \in Conns : <<q, d>> \in waiting' <=> <<q, d>> \in waiting
        BY <1>1, <1>2, <2>1, SMT DEF CallShape, CallTypes
      <3>2. \A d \in Conns : Holds(d, q)' <=> Holds(d, q)
        BY <1>2, <2>1 DEF CallShape, CallTypes, Holds
      <3> QED  BY <1>1, <2>0, <3>1, <3>2, SamePlace
    <2>2. CASE q = r /\ answered
      <3>1. answers'[r] = 1 /\ \A d \in Conns : <<r, d>> \notin waiting'
        BY <1>1, <1>3, <2>2, SMT
      <3>2. \A d \in Conns : ~Holds(d, r)'
        BY <1>3, <2>2 DEF Holds
      <3> QED  BY <1>1, <1>3, <2>2, <3>1, <3>2, AnsweredPlace
    <2>3. CASE q = r /\ taken
      <3>1. answers'[r] = 0 /\ answers'[r] <= 1 /\ target'[r] # None /\ r \notin pending'
        BY <1>1, <1>3, <2>3, SMT
      <3>2. \A d \in Conns : <<r, d>> \notin waiting'
        BY <1>1, <1>3
      <3>3. \A d \in Conns : Holds(d, r)' => d = c
        BY <1>3, <2>3 DEF Holds, CallShape, CallTypes
      <3> QED  BY <2>3, <3>1, <3>2, <3>3 DEF InOnePlace
    <2> QED  BY <1>2, <2>1, <2>2, <2>3
  <1>7. OwnNode'
    <2>1. nodeOf[c] = target[r]
      BY <1>1 DEF CallShape, OwnNode
    <2>2. ASSUME NEW d \in Conns, hand'[d] # None
          PROVE  nodeOf[d] = target[hand'[d]] /\ target[hand'[d]] # None
      BY <1>2, <1>3, <2>1, <2>2, SMT DEF CallShape, OwnNode, CallTypes
    <2>3. \A q \in Calls, d \in Conns : <<q, d>> \in waiting' => nodeOf[d] = target[q]
      BY <1>1 DEF CallShape, OwnNode
    <2> QED  BY <1>1, <1>4, <2>2, <2>3 DEF CallShape, OwnNode
  <1>8. NotRetried'
    <2> SUFFICES ASSUME NEW q \in disturbed
                 PROVE  /\ q \in Calls /\ q \notin pending /\ target[q] # None
                        /\ \A d \in Conns : ~Holds(d, q)' /\ (<<q, d>> \in waiting' => d \in cleared)
      BY <1>1 DEF NotRetried
    <2>1. /\ q \in Calls /\ q \notin pending /\ target[q] # None
          /\ \A d \in Conns : ~Holds(d, q) /\ (<<q, d>> \in waiting => d \in cleared)
      BY DEF CallShape, NotRetried
    <2>2. taken => q # r
      BY <1>1, <2>1
    <2>3. \A d \in Conns : ~Holds(d, q)'
      BY <1>2, <2>1, <2>2 DEF Holds, CallShape, CallTypes
    <2> QED  BY <1>1, <2>1, <2>3
  <1>9. DisturbedForCause' /\ Attached'
    BY <1>1, <1>4, SMT DEF CallShape, DisturbedForCause, Attached
  <1> QED  BY <1>5, <1>6, <1>7, <1>8, <1>9 DEF CallShape

\* Register moves a request from the sender's hand to the router.
LEMMA RegisterStep ==
  ASSUME Inv, CallShape, Attached, NEW c \in Conns, SenderRegister(c)
  PROVE  CallShape' /\ Attached'
  <1> USE KindsOfId, CallAssumption
  <1>0. PICK r \in Calls : r = hand[c]
    BY DEF SenderRegister, CallShape, CallTypes
  <1>1. /\ Holds(c, r)
        /\ pending' = pending \cup {r}
        /\ via' = [via EXCEPT ![r] = c]
        /\ handPc' = [handPc EXCEPT ![c] = "send"]
        /\ late' = IF c \in closedChans THEN late \cup {r} ELSE late
        /\ UNCHANGED <<vars, target, waiting, hand, cleared, cancelled, answers, disturbed>>
    BY <1>0 DEF SenderRegister, Holds
  <1>2. UNCHANGED <<nodeOf, closedChans, connPc, gone>>
    BY <1>1 DEF vars, connVars, peerVars
  <1>3. nodeOf[c] = target[r] /\ target[r] # None
    BY <1>0, <1>1 DEF CallShape, OwnNode
  <1>4. /\ answers[r] = 0 /\ r \notin pending
        /\ \A d \in Conns : <<r, d>> \notin waiting /\ (Holds(d, r) => d = c)
    BY <1>1 DEF CallShape, OnePlace, InOnePlace
  <1>5. \A d \in Conns, q \in Calls : Holds(d, q)' <=> Holds(d, q) /\ d # c
    BY <1>1 DEF Holds, CallShape, CallTypes
  <1>6. CallTypes'
    BY <1>1 DEF CallShape, CallTypes
  <1>7. OnePlace'
    <2> SUFFICES ASSUME NEW q \in Calls PROVE InOnePlace(q)'
      BY DEF OnePlace
    <2>0. InOnePlace(q)
      BY DEF CallShape, OnePlace
    <2>1. CASE q # r
      <3>1. \A d \in Conns : Holds(d, q)' <=> Holds(d, q)
        BY <1>0, <1>5, <2>1 DEF Holds
      <3>2. q \in pending' <=> q \in pending
        BY <1>1, <2>1
      <3> QED  BY <1>1, <2>0, <3>1, <3>2, SamePlace
    <2>2. CASE q = r
      <3>1. answers'[r] = 0 /\ answers'[r] <= 1 /\ target'[r] # None
        BY <1>1, <1>3, <1>4, SMT
      <3>2. \A d \in Conns : <<r, d>> \notin waiting' /\ ~Holds(d, r)'
        BY <1>1, <1>4, <1>5
      <3> QED  BY <2>2, <3>1, <3>2 DEF InOnePlace
    <2> QED  BY <2>1, <2>2
  <1>8. OwnNode'
    <2>1. \A q \in pending' : via'[q] \in Conns /\ nodeOf[via'[q]] = target[q]
      BY <1>1, <1>3, SMT DEF CallShape, OwnNode, CallTypes
    <2> QED  BY <1>1, <1>2, <2>1 DEF CallShape, OwnNode
  <1>9. r \notin disturbed
    BY <1>1 DEF CallShape, NotRetried
  <1>10. NotRetried'
    BY <1>1, <1>5, <1>9 DEF CallShape, NotRetried
  <1>11. DisturbedForCause'
    <2>1. \A q \in disturbed : via'[q] = via[q]
      BY <1>1, <1>9 DEF CallShape, CallTypes, NotRetried
    <2> QED  BY <1>1, <1>2, <2>1 DEF CallShape, DisturbedForCause
  <1>12. Attached'
    <2> SUFFICES ASSUME NEW q \in pending'
                 PROVE  \/ q \in late'
                        \/ via'[q] \notin closedChans
                        \/ /\ connPc[via'[q]] # "ended"
                           /\ \E d \in Conns : connPc[d] = "replace" /\ nodeOf[d] = target[q]
      BY <1>1, <1>2 DEF Attached
    <2>1. CASE q = r
      BY <1>1, <2>1 DEF CallShape, CallTypes
    <2>2. CASE q # r
      <3>1. q \in pending /\ via'[q] = via[q] /\ (q \in late => q \in late')
        BY <1>1, <2>2 DEF CallShape, CallTypes
      <3> QED  BY <3>1 DEF Attached
    <2> QED  BY <2>1, <2>2
  <1> QED  BY <1>6, <1>7, <1>8, <1>10, <1>11, <1>12 DEF CallShape

\* A request leaves the hand of a sender that has registered it, or its context
\* ends: no place changes.
LEMMA SentStep ==
  ASSUME Inv, CallShape, Attached,
         \/ \E c \in Conns : Send(c)
         \/ \E r \in Calls : Cancel(r)
  PROVE  CallShape' /\ Attached'
  <1> USE KindsOfId, CallAssumption
  <1>1. /\ UNCHANGED <<vars, target, waiting, handPc, pending, via, cleared, answers, late, disturbed>>
        /\ cancelled \subseteq cancelled' /\ cancelled' \subseteq cancelled \cup Calls
        /\ \/ hand' = hand
           \/ \E c \in Conns : handPc[c] = "send" /\ hand' = [hand EXCEPT ![c] = None]
    BY DEF Send, Cancel
  <1>2. UNCHANGED <<nodeOf, closedChans, connPc, gone>>
    BY <1>1 DEF vars, connVars, peerVars
  <1>3. \A d \in Conns, q \in Calls : Holds(d, q)' <=> Holds(d, q)
    BY <1>1 DEF Holds, CallShape, CallTypes
  <1>4. CallTypes'
    BY <1>1 DEF CallShape, CallTypes
  <1>5. OnePlace'
    <2> SUFFICES ASSUME NEW q \in Calls PROVE InOnePlace(q)'
      BY DEF OnePlace
    <2>1. InOnePlace(q)
      BY DEF CallShape, OnePlace
    <2> QED  BY <1>1, <1>3, <2>1, SamePlace
  <1>6. OwnNode'
    <2>1. ASSUME NEW d \in Conns, hand'[d] # None PROVE hand'[d] = hand[d]
      BY <1>1, <2>1 DEF CallShape, CallTypes
    <2> QED  BY <1>1, <1>2, <2>1 DEF CallShape, OwnNode
  <1>7. NotRetried'
    BY <1>1, <1>3 DEF CallShape, NotRetried
  <1>8. DisturbedForCause'
    BY <1>1, <1>2 DEF CallShape, DisturbedForCause
  <1>9. Attached'
    BY <1>1, <1>2 DEF Attached
  <1> QED  BY <1>4, <1>5, <1>6, <1>7, <1>8, <1>9 DEF CallShape

\* The peer's answer takes a pending call from the router.
LEMMA ResponseStep ==
  ASSUME Inv, CallShape, Attached, NEW r \in Calls, NEW c \in Conns, Response(r, c)
  PROVE  CallShape' /\ Attached'
  <1> USE KindsOfId, CallAssumption
  <1>1. /\ UNCHANGED <<vars, target, waiting, hand, handPc, via, cleared, cancelled, late, disturbed>>
        /\ pending' = pending \ (pending \cap {r})
        /\ answers' = [q \in Calls |-> answers[q] + IF q \in pending \cap {r} THEN 1 ELSE 0]
    BY DEF Response, Taken, Answer
  <1>2. UNCHANGED <<nodeOf, closedChans, connPc, gone>>
    BY <1>1 DEF vars, connVars, peerVars
  <1>3. \A d \in Conns, q \in Calls : Holds(d, q)' <=> Holds(d, q)
    BY <1>1 DEF Holds
  <1>4. CallTypes'
    <2>1. answers' \in [Calls -> Nat]
      BY <1>1, SMT DEF CallShape, CallTypes
    <2> QED  BY <1>1, <2>1 DEF CallShape, CallTypes
  <1>5. OnePlace'
    <2> SUFFICES ASSUME NEW q \in Calls PROVE InOnePlace(q)'
      BY DEF OnePlace
    <2>0. InOnePlace(q)
      BY DEF CallShape, OnePlace
    <2>1. CASE q \notin pending \cap {r}
      <3>1. answers'[q] = answers[q] /\ (q \in pending' <=> q \in pending)
        BY <1>1, <2>1, SMT DEF CallShape, CallTypes
      <3> QED  BY <1>1, <1>3, <2>0, <3>1, SamePlace
    <2>2. CASE q \in pending \cap {r}
      <3>1. answers[q] = 0 /\ target[q] # None /\ \A d \in Conns : <<q, d>> \notin waiting /\ ~Holds(d, q)
        BY <2>0, <2>2 DEF InOnePlace
      <3>2. answers'[q] = 1
        BY <1>1, <2>2, <3>1, SMT
      <3> QED  BY <1>1, <1>3, <2>2, <3>1, <3>2, AnsweredPlace
    <2> QED  BY <2>1, <2>2
  <1>6. OwnNode'
    BY <1>1, <1>2 DEF CallShape, OwnNode
  <1>7. NotRetried'
    BY <1>1, <1>3 DEF CallShape, NotRetried
  <1>8. DisturbedForCause' /\ Attached'
    BY <1>1, <1>2, SMT DEF CallShape, DisturbedForCause, Attached
  <1> QED  BY <1>4, <1>5, <1>6, <1>7, <1>8 DEF CallShape

\* The calls of a node are queued again on a channel whose stream is cleared,
\* where the sender can only answer them.
LEMMA RequeueStep ==
  ASSUME Inv, CallShape, Attached, NEW c \in Conns, CancelClears(c) \/ SendFails(c)
  PROVE  CallShape' /\ Attached'
  <1> USE KindsOfId, CallAssumption
  <1> DEFINE Moves(q) == q \in pending /\ target[q] = nodeOf[c]
  <1>0. PICK r \in Calls : r = hand[c]
    BY DEF CancelClears, SendFails, CallShape, CallTypes
  <1>1. /\ UNCHANGED <<vars, target, handPc, via, cancelled, answers, late>>
        /\ handPc[c] = "send" /\ cleared' = cleared \cup {c}
        /\ hand' = hand \/ hand' = [hand EXCEPT ![c] = None]
        /\ r \in cancelled \/ c \in gone
    BY <1>0 DEF CancelClears, SendFails
  <1>2. /\ pending' = {q \in pending : target[q] # nodeOf[c]}
        /\ disturbed' = disturbed \cup {q \in pending : target[q] = nodeOf[c] /\ Fine(via[q])}
        /\ waiting' = waiting \cup ({q \in pending : target[q] = nodeOf[c]} \X {c})
    BY DEF CancelClears, SendFails, requeuePendingMsgs, Taken, Disturb, PendingOf
  <1>3. UNCHANGED <<nodeOf, closedChans, connPc, gone>>
    BY <1>1 DEF vars, connVars, peerVars
  <1>4. \A d \in Conns, q \in Calls : Holds(d, q)' <=> Holds(d, q)
    BY <1>1 DEF Holds, CallShape, CallTypes
  <1>5. \A d \in Conns, q \in Calls :
           <<q, d>> \in waiting' <=> <<q, d>> \in waiting \/ (Moves(q) /\ d = c)
    BY <1>2
  <1>6. nodeOf[c] = target[r] /\ target[r] # None
    BY <1>0 DEF CallShape, OwnNode
  <1>7. CallTypes'
    <2>1. waiting' \subseteq Calls \X Conns /\ pending' \subseteq Calls
      BY <1>2 DEF CallShape, CallTypes
    <2> QED  BY <1>1, <2>1 DEF CallShape, CallTypes
  <1>8. OnePlace'
    <2> SUFFICES ASSUME NEW q \in Calls PROVE InOnePlace(q)'
      BY DEF OnePlace
    <2>0. InOnePlace(q)
      BY DEF CallShape, OnePlace
    <2>1. CASE ~Moves(q)
      <3>1. q \in pending' <=> q \in pending
        BY <1>2, <2>1
      <3>2. \A d \in Conns : <<q, d>> \in waiting' <=> <<q, d>> \in waiting
        BY <1>5, <2>1
      <3> QED  BY <1>1, <1>4, <2>0, <3>1, <3>2, SamePlace
    <2>2. CASE Moves(q)
      <3>1. /\ answers'[q] = 0 /\ target'[q] # None /\ q \notin pending'
            /\ \A d \in Conns : <<q, d>> \notin waiting /\ ~Holds(d, q)
        BY <1>1, <1>2, <2>0, <2>2 DEF InOnePlace
      <3>2. answers'[q] <= 1
        BY <3>1, SMT
      <3>3. \A d \in Conns : ~Holds(d, q)' /\ (<<q, d>> \in waiting' => d = c)
        BY <1>4, <1>5, <3>1
      <3> QED  BY <3>1, <3>2, <3>3 DEF InOnePlace
    <2> QED  BY <2>1, <2>2
  <1>9. OwnNode'
    <2>1. \A q \in Calls, d \in Conns : <<q, d>> \in waiting' => nodeOf[d] = target[q]
      BY <1>5, SMT DEF CallShape, OwnNode
    <2>2. ASSUME NEW d \in Conns, hand'[d] # None PROVE hand'[d] = hand[d]
      BY <1>1, <2>2 DEF CallShape, CallTypes
    <2>3. \A q \in pending' : q \in pending
      BY <1>2
    <2> QED  BY <1>1, <1>3, <2>1, <2>2, <2>3 DEF CallShape, OwnNode
  <1>10. NotRetried'
    <2> SUFFICES ASSUME NEW q \in disturbed'
                 PROVE  /\ q \in Calls /\ q \notin pending' /\ target[q] # None
                        /\ \A d \in Conns : ~Holds(d, q)' /\ (<<q, d>> \in waiting' => d \in cleared')
      BY <1>1 DEF NotRetried
    <2>1. CASE q \in disturbed
      <3>1. /\ q \in Calls /\ q \notin pending /\ target[q] # None
            /\ \A d \in Conns : ~Holds(d, q) /\ (<<q, d>> \in waiting => d \in cleared)
        BY <2>1 DEF CallShape, NotRetried
      <3> QED  BY <1>1, <1>2, <1>4, <1>5, <3>1
    <2>2. CASE Moves(q)
      <3>1. /\ q \in Calls /\ q \notin pending' /\ target[q] # None
            /\ \A d \in Conns : <<q, d>> \notin waiting /\ ~Holds(d, q)
        BY <1>2, <2>2 DEF CallShape, CallTypes, OnePlace, InOnePlace
      <3> QED  BY <1>1, <1>4, <1>5, <3>1
    <2> QED  BY <1>2, <2>1, <2>2
  <1>11. DisturbedForCause'
    <2>1. ASSUME NEW q \in pending, target[q] = nodeOf[c], Fine(via[q]), c \in gone
          PROVE  c \in closedChans /\ c # via[q]
      <3>1. /\ via[q] \in Conns /\ nodeOf[via[q]] = nodeOf[c]
            /\ via[q] \notin closedChans /\ via[q] # c
        BY <2>1 DEF CallShape, OwnNode, Fine, ConnDone
      <3>2. DetachedIsClosed /\ nodeOf[c] # None
        BY <1>6 DEF Inv
      <3> QED  BY <3>1, <3>2 DEF DetachedIsClosed
    <2>2. ASSUME NEW q \in disturbed'
          PROVE  \/ \E d \in closedChans : nodeOf[d] = target[q] /\ d # via[q]
                 \/ \E k \in cancelled : target[k] = target[q]
      <3>1. CASE q \in disturbed
        BY <3>1 DEF CallShape, DisturbedForCause
      <3>2. CASE q \in pending /\ target[q] = nodeOf[c] /\ Fine(via[q])
        BY <1>1, <1>6, <2>1, <3>2
      <3> QED  BY <1>2, <2>2, <3>1, <3>2
    <2> QED  BY <1>1, <1>3, <2>2 DEF DisturbedForCause
  <1>12. Attached'
    BY <1>1, <1>2, <1>3 DEF Attached
  <1> QED  BY <1>7, <1>8, <1>9, <1>10, <1>11, <1>12 DEF CallShape

-----------------------------------------------------------------------------
(* The theorems *)

\* The composition starts in its invariant.
LEMMA CallsInvInit == CallsInit => CallsInv
  <1> SUFFICES ASSUME CallsInit PROVE CallsInv
    OBVIOUS
  <1> USE CallAssumption DEF CallsInit
  <1>1. Inv
    BY InvInit
  <1>2. CallTypes
    BY DEF CallTypes
  <1>3. OnePlace
    <2> SUFFICES ASSUME NEW r \in Calls PROVE InOnePlace(r)
      BY DEF OnePlace
    <2>1. answers[r] = 0 /\ answers[r] <= 1 /\ \A c \in Conns : ~Holds(c, r)
      BY SMT DEF Holds
    <2> QED  BY <2>1 DEF InOnePlace
  <1>4. OwnNode /\ Attached /\ NotRetried /\ DisturbedForCause
    BY DEF OwnNode, Attached, NotRetried, DisturbedForCause
  <1>5. ReplacesOne
    BY DEF ReplacesOne, Init
  <1> QED  BY <1>1, <1>2, <1>3, <1>4, <1>5 DEF CallsInv

\* Each step of the calls or of the streams keeps the places of the calls.
LEMMA CallsInvNext == CallsInv /\ [CallsNext]_allVars => CallsInv'
  <1> SUFFICES ASSUME CallsInv, [CallsNext]_allVars PROVE CallsInv'
    OBVIOUS
  <1>1. Inv /\ CallShape /\ Attached /\ ReplacesOne
    BY DEF CallsInv, CallShape
  <1>2. [Next]_vars
    BY PeersStep
  <1>3. Inv' /\ ReplacesOne'
    BY <1>1, <1>2, InvNext, ReplacesStep
  <1>4. ASSUME NEW r \in Calls, NEW id \in Peers \cup ClientIDs, Call(r, id)
        PROVE  CallShape' /\ Attached'
    BY <1>1, <1>4, CallStep
  <1>5. ASSUME NEW r \in Calls, NEW c \in Conns,
               EnqueueClosed(r, c) \/ SenderTake(r, c) \/ Response(r, c)
        PROVE  CallShape' /\ Attached'
    BY <1>1, <1>5, TakeStep, ResponseStep
  <1>6. ASSUME NEW c \in Conns, SenderRegister(c) \/ CancelClears(c) \/ Send(c) \/ SendFails(c)
        PROVE  CallShape' /\ Attached'
    BY <1>1, <1>6, RegisterStep, RequeueStep, SentStep
  <1>7. ASSUME NEW r \in Calls, Cancel(r) PROVE CallShape' /\ Attached'
    BY <1>1, <1>7, SentStep
  <1>8. ASSUME NEW c \in Conns, Connect(c) \/ HangUp(c), UNCHANGED callVars
        PROVE  CallShape' /\ Attached'
    BY <1>1, <1>2, <1>8, CallsAlone, QuietCalls
  <1>9. ASSUME NEW c \in Conns, Streaming(c) PROVE CallShape' /\ Attached'
    <2>1. CASE CloseReplacedChannel(c)
      BY <1>1, <1>3, <2>1, ReplaceCalls
    <2>2. CASE EndStream(c)
      BY <1>1, <1>3, <2>2, EndCalls
    <2>3. CASE registerPeer(c) /\ UNCHANGED callVars
      BY <1>1, <1>2, <2>3, CallsAlone, RegisterCalls
    <2>4. CASE (AcceptPeer(c) \/ acceptClient(c)) /\ UNCHANGED callVars
      BY <1>1, <1>2, <2>4, CallsAlone, QuietCalls
    <2> QED  BY <1>9, <2>1, <2>2, <2>3, <2>4 DEF Streaming
  <1>10. ASSUME UNCHANGED <<callVars, connPc, nodeOf, closedChans>>
         PROVE  CallShape' /\ Attached'
    BY <1>1, <1>2, <1>10, CallsAlone, QuietCalls
  <1>11. ASSUME NEW w \in Waiters,
                \/ (WaitForConfig(w) \/ WaitCancelled(w)) /\ UNCHANGED callVars
                \/ Waiting(w)
         PROVE  UNCHANGED <<callVars, connPc, nodeOf, closedChans>>
    BY <1>11 DEF WaitForConfig, WaitCancelled, Waiting, checkConfig, waitForConfig, connVars, peerVars
  <1>12. close => UNCHANGED <<connPc, nodeOf, closedChans>>
    BY DEF close, connVars, peerVars
  <1>13. UNCHANGED allVars => UNCHANGED <<callVars, connPc, nodeOf, closedChans>>
    BY DEF allVars, vars, connVars, peerVars
  <1>14. CallShape' /\ Attached'
    BY <1>4, <1>5, <1>6, <1>7, <1>8, <1>9, <1>10, <1>11, <1>12, <1>13 DEF CallsNext
  <1> QED  BY <1>3, <1>14 DEF CallsInv, CallShape

\* The invariant of the composition always holds.
LEMMA CallsInvHolds == CallsSpec => []CallsInv
  BY CallsInvInit, CallsInvNext, PTL DEF CallsSpec

(* A server-initiated call gets one response, whatever streams of its node are
   replaced, lost or cleared around it.                                      *)
THEOREM OneAnswer == CallsSpec => []AnsweredAtMostOnce
  <1>1. CallsInv => AnsweredAtMostOnce
    BY DEF CallsInv, OnePlace, InOnePlace, AnsweredAtMostOnce
  <1> QED  BY <1>1, CallsInvHolds, PTL

(* Only a call registered after its channel was closed outlives its stream.  *)
THEOREM OnlyLateStranded == CallsSpec => []StrandedOnlyIfLate
  <1>1. ASSUME CallsInv PROVE StrandedOnlyIfLate
    <2> USE <1>1
    <2> SUFFICES ASSUME NEW r \in pending, connPc[via[r]] = "ended", r \notin late PROVE FALSE
      BY DEF StrandedOnlyIfLate
    <2>1. /\ via[r] \in Conns /\ nodeOf[via[r]] = target[r] /\ target[r] # None
          /\ via[r] \notin closedChans
      BY DEF CallsInv, OwnNode, OnePlace, InOnePlace, CallTypes, Attached
    <2>2. channel[nodeOf[via[r]]] = via[r] /\ nodeOf[via[r]] \in Peers \cup ClientIDs
      BY <2>1 DEF CallsInv, Inv, DetachedIsClosed, StreamPhases
    <2>3. via[r] # None
      BY <2>1, KindsOfId DEF CallsInv
    <2> QED  BY <2>2, <2>3 DEF CallsInv, Inv, ChannelsServed
  <1> QED  BY <1>1, CallsInvHolds, PTL

(* Whatever disturbs a call on a fine stream is another stream of its node that
   was closed, or a cancelled call to its node.                              *)
THEOREM DisturbanceHasCause == CallsSpec => []DisturbedForCause
  <1>1. CallsInv => DisturbedForCause
    BY DEF CallsInv
  <1> QED  BY <1>1, CallsInvHolds, PTL

=============================================================================
