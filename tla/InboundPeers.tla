---------------------------- MODULE InboundPeers ----------------------------
(***************************************************************************)
(* A server's view of the peers that connect to it (inbound_manager.go,    *)
(* with the channel slot of node.go): known peers and clients open and     *)
(* lose streams in any order, several of one peer at a time; every stream  *)
(* is accepted and cleaned up by a NodeStream goroutine of its own; the    *)
(* configurations are rebuilt at each change, and callers of WaitForConfig *)
(* sleep until theirs is there.                                            *)
(***************************************************************************)
EXTENDS Naturals, FiniteSets

CONSTANTS
    Self,          \* myID
    Peers,         \* the other node IDs of the configured node list
    Strangers,     \* positive node IDs that are not in the list
    FirstClient,   \* clientIDStart
    LastClient,    \* the largest uint32
    Conns,         \* inbound streams
    Waiters,       \* calls of WaitForConfig and WaitForClientConfig
    Want,          \* the sizes they wait for
    None           \* no channel, no node, no gorums-node-id in the metadata

Anonymous == 0          \* a client that serves back-channel calls
Local == "local"        \* the channel of the self node
ClientIDs == FirstClient..(LastClient - 1)
IDs == Peers \cup {Self} \cup ClientIDs

ASSUME IdAssumption ==
    /\ FirstClient \in Nat /\ LastClient \in Nat /\ FirstClient <= LastClient
    /\ Peers \cup Strangers \cup {Self} \subseteq 1..(FirstClient - 1)
    /\ Self \notin Peers
    /\ Strangers \cap (Peers \cup {Self}) = {}
ASSUME NameAssumption ==
    /\ None \notin IDs \cup Strangers \cup {Anonymous}
    /\ None \notin Conns /\ None # Local /\ Local \notin Conns
    /\ Want \in [known : Nat, client : Nat]

VARIABLES
    connPc,        \* where the NodeStream goroutine of a stream is
    announced,     \* the node ID in the stream's metadata
    gone,          \* streams whose transport is lost
    nodeOf,        \* the node a stream was attached to
    nodes,         \* keys of im.nodes
    channel,       \* node.channel: the stream it was made from
    closedChans,   \* channels that were closed
    config, clientConfig, nextClientID,
    notified,      \* the last configuration given to onConfigChange
    lastOf,        \* history: the stream registered last for a peer
    waitPc,        \* where each waiter is
    waitsFor,      \* the configuration it waits for
    woken,         \* waiters whose configCh was closed
    stopped        \* stopCh is closed

connVars == <<connPc, announced, gone, nodeOf>>
peerVars == <<nodes, channel, closedChans, config, clientConfig, nextClientID, notified,
              lastOf>>
waitVars == <<waitPc, waitsFor, woken>>
vars == <<connVars, peerVars, waitVars, stopped>>

-----------------------------------------------------------------------------
(* Configurations *)

KnownConfig(ns, ch) ==
    {id \in ns : id < FirstClient /\ (id = Self \/ ch[id] # None)}
ClientConfig(ns, ch) ==
    {id \in ns : id >= FirstClient /\ ch[id] # None}

\* Slip: only a change of the known peers is announced.
Broadcast_KnownOnly(cfg) ==
    woken' = IF cfg # config THEN woken \cup {w \in Waiters : waitPc[w] = "wait"} ELSE woken

\* configCh is closed and replaced: whoever has the old one wakes up.
Broadcast(cfg) ==
    woken' = woken \cup {w \in Waiters : waitPc[w] = "wait"}

ConfigChanged(cfg) == cfg # config

rebuildConfig(ns, ch) ==
    /\ config' = KnownConfig(ns, ch)
    /\ clientConfig' = ClientConfig(ns, ch)
    /\ notified' = IF ConfigChanged(KnownConfig(ns, ch)) THEN KnownConfig(ns, ch)
                   ELSE notified
    /\ Broadcast(KnownConfig(ns, ch))

-----------------------------------------------------------------------------
(* Streams *)

Connect(c) ==
    /\ connPc[c] = "idle"
    /\ \E id \in Peers \cup Strangers \cup {Anonymous, None} :
          announced' = [announced EXCEPT ![c] = id]
    /\ connPc' = [connPc EXCEPT ![c] = "accept"]
    /\ UNCHANGED <<gone, nodeOf, peerVars, waitVars, stopped>>

\* The transport fails, whatever the server is doing with the stream.
HangUp(c) ==
    /\ connPc[c] \in {"accept", "register", "client", "replace", "open"}
    /\ c \notin gone
    /\ gone' = gone \cup {c}
    /\ UNCHANGED <<connPc, announced, nodeOf, peerVars, waitVars, stopped>>

\* A stream that replaces another holds the manager's lock while it closes
\* the channel of that one.
LockFree == \A c \in Conns : connPc[c] # "replace"

\* AcceptPeer up to the call of registerPeer or acceptClient; isKnown takes
\* and gives back the lock.
AcceptPeer(c) ==
    /\ connPc[c] = "accept"
    /\ LockFree
    /\ connPc' = [connPc EXCEPT
                    ![c] = IF announced[c] = Anonymous THEN "client"
                           ELSE IF announced[c] \in nodes THEN "register"
                           ELSE "open"]
    /\ UNCHANGED <<announced, gone, nodeOf, peerVars, waitVars, stopped>>

\* Slip: the old channel is forgotten.
CloseReplaced_Never(old) == UNCHANGED closedChans
CloseReplaced(old) == closedChans' = closedChans \cup ({old} \ {None, Local})

\* attachStream swaps the node's channel and cancels the context of the one
\* it replaces.
attachStream(c, id) ==
    /\ channel' = [channel EXCEPT ![id] = c]
    /\ CloseReplaced(channel[id])
    /\ nodeOf' = [nodeOf EXCEPT ![c] = id]

registerPeer(c) ==
    /\ connPc[c] = "register"
    /\ LockFree
    /\ attachStream(c, announced[c])
    /\ IF channel[announced[c]] = None
       THEN /\ connPc' = [connPc EXCEPT ![c] = "open"]
            /\ rebuildConfig(nodes, channel')
       ELSE /\ connPc' = [connPc EXCEPT ![c] = "replace"]
            /\ UNCHANGED <<config, clientConfig, notified, woken>>
    /\ lastOf' = [lastOf EXCEPT ![announced[c]] = c]
    /\ UNCHANGED <<announced, gone, nodes, nextClientID, waitPc, waitsFor, stopped>>

\* The replaced channel has cancelled what was pending, and registerPeer goes on.
finishReplace(c) ==
    /\ connPc[c] = "replace"
    /\ connPc' = [connPc EXCEPT ![c] = "open"]
    /\ rebuildConfig(nodes, channel)
    /\ UNCHANGED <<announced, gone, nodeOf, nodes, channel, closedChans, nextClientID, lastOf,
                   waitPc, waitsFor, stopped>>

NextClientID == nextClientID + 1

\* The ID space is used up: NodeStream returns the error.
acceptClient(c) ==
    /\ connPc[c] = "client"
    /\ LockFree
    /\ \/ /\ nextClientID = LastClient
          /\ connPc' = [connPc EXCEPT ![c] = "ended"]
          /\ UNCHANGED <<nodeOf, peerVars, woken>>
       \/ /\ nextClientID # LastClient
          /\ attachStream(c, nextClientID)
          /\ connPc' = [connPc EXCEPT ![c] = "open"]
          /\ nodes' = nodes \cup {nextClientID}
          /\ nextClientID' = NextClientID
          /\ rebuildConfig(nodes', channel')
          /\ UNCHANGED lastOf
    /\ UNCHANGED <<announced, gone, waitPc, waitsFor, stopped>>

\* Slip: cleanup takes whatever channel the node has.
StillAttached_Any(c) == channel[nodeOf[c]] # None
StillAttached(c) == channel[nodeOf[c]] = c

Forgotten(c) == {nodeOf[c]} \cap ClientIDs

Detaches(c) == nodeOf[c] \in nodes /\ StillAttached(c)

\* Recv failed and NodeStream runs the cleanup that AcceptPeer returned.
Cleanup(c) ==
    /\ connPc[c] = "open"
    /\ c \in gone
    /\ LockFree
    /\ connPc' = [connPc EXCEPT ![c] = "ended"]
    /\ IF Detaches(c)
       THEN /\ channel' = [channel EXCEPT ![nodeOf[c]] = None]
            /\ closedChans' = closedChans \cup {c}
            /\ nodes' = nodes \ Forgotten(c)
            /\ rebuildConfig(nodes', channel')
       ELSE UNCHANGED <<channel, closedChans, nodes, config, clientConfig, notified, woken>>
    /\ UNCHANGED <<announced, gone, nodeOf, nextClientID, lastOf, waitPc, waitsFor, stopped>>

Stream(c) ==
    AcceptPeer(c) \/ registerPeer(c) \/ finishReplace(c) \/ acceptClient(c) \/ Cleanup(c)

-----------------------------------------------------------------------------
(* Waiting for a configuration *)

CondMet(w) ==
    Cardinality(IF waitsFor[w] = "client" THEN clientConfig ELSE config) >= Want[waitsFor[w]]

\* WaitForConfig and WaitForClientConfig.
WaitForConfig(w) ==
    /\ waitPc[w] = "idle"
    /\ waitPc' = [waitPc EXCEPT ![w] = "check"]
    /\ \E k \in {"known", "client"} : waitsFor' = [waitsFor EXCEPT ![w] = k]
    /\ UNCHANGED <<connVars, peerVars, woken, stopped>>

\* checkConfig tests the condition and fetches configCh under one lock.
checkConfig(w) ==
    /\ waitPc[w] = "check"
    /\ LockFree
    /\ waitPc' = [waitPc EXCEPT ![w] = IF CondMet(w) THEN "met" ELSE "wait"]
    /\ woken' = woken \ {w}
    /\ UNCHANGED <<connVars, peerVars, waitsFor, stopped>>

StopSeen_Never == FALSE   \* Slip: the select has no case for stopCh.
StopSeen == stopped

\* The select of waitForConfig; the caller's context is its own affair.
waitForConfig(w) ==
    /\ waitPc[w] = "wait"
    /\ \/ w \in woken /\ waitPc' = [waitPc EXCEPT ![w] = "check"]
       \/ StopSeen /\ waitPc' = [waitPc EXCEPT ![w] = "stopped"]
    /\ UNCHANGED <<connVars, peerVars, waitsFor, woken, stopped>>

WaitCancelled(w) ==
    /\ waitPc[w] = "wait"
    /\ waitPc' = [waitPc EXCEPT ![w] = "cancelled"]
    /\ UNCHANGED <<connVars, peerVars, waitsFor, woken, stopped>>

Waiter(w) == checkConfig(w) \/ waitForConfig(w)

close ==
    /\ ~stopped
    /\ stopped' = TRUE
    /\ UNCHANGED <<connVars, peerVars, waitVars>>

-----------------------------------------------------------------------------
Init ==
    /\ connPc = [c \in Conns |-> "idle"]
    /\ announced = [c \in Conns |-> None]
    /\ gone = {}
    /\ nodeOf = [c \in Conns |-> None]
    /\ nodes = Peers \cup {Self}
    /\ channel = [id \in IDs |-> IF id = Self THEN Local ELSE None]
    /\ closedChans = {}
    /\ config = {Self} /\ clientConfig = {}
    /\ nextClientID = FirstClient
    /\ notified = {Self}
    /\ lastOf = [p \in Peers |-> None]
    /\ waitPc = [w \in Waiters |-> "idle"]
    /\ waitsFor = [w \in Waiters |-> "known"]
    /\ woken = {}
    /\ stopped = FALSE

Next ==
    \/ \E c \in Conns : Connect(c) \/ HangUp(c) \/ Stream(c)
    \/ \E w \in Waiters : WaitForConfig(w) \/ WaitCancelled(w) \/ Waiter(w)
    \/ close

Spec == Init /\ [][Next]_vars

-----------------------------------------------------------------------------
(* Properties *)

(* Client IDs stay in their range, and every table has its type.              *)
TypeOK ==
    /\ connPc \in [Conns -> {"idle", "accept", "register", "client", "replace", "open", "ended"}]
    /\ announced \in [Conns -> Peers \cup Strangers \cup {Anonymous, None}]
    /\ gone \subseteq Conns
    /\ nodeOf \in [Conns -> IDs \cup {None}]
    /\ nodes \subseteq IDs /\ Peers \cup {Self} \subseteq nodes
    /\ channel \in [IDs -> Conns \cup {Local, None}]
    /\ closedChans \subseteq Conns
    /\ config \subseteq IDs /\ clientConfig \subseteq IDs /\ notified \subseteq IDs
    /\ nextClientID \in FirstClient..LastClient
    /\ lastOf \in [Peers -> Conns \cup {None}]
    /\ waitPc \in [Waiters -> {"idle", "check", "wait", "met", "stopped", "cancelled"}]
    /\ waitsFor \in [Waiters -> {"known", "client"}]
    /\ woken \subseteq Waiters
    /\ stopped \in BOOLEAN

\* A stream whose cleanup has not run.
Open(c) == connPc[c] = "open" /\ nodeOf[c] # None

(* A known peer is in the configuration exactly while the stream it was
   registered with last is served, whatever becomes of its older streams: the
   late cleanup of a replaced stream takes no peer out, and the callback has
   seen what Config returns.  It is stated for a free lock, which Config takes. *)
ConfigFollowsStreams ==
    LockFree =>
    /\ config = {Self} \cup {p \in Peers : lastOf[p] # None /\ Open(lastOf[p])}
    /\ notified = config

(* The client configuration holds one node, with an ID of its own, for every
   client stream being served.                                               *)
ClientsHaveOwnNodes ==
    /\ clientConfig = {nodeOf[c] : c \in {d \in Conns : Open(d) /\ nodeOf[d] \in ClientIDs}}
    /\ \A c, d \in Conns : nodeOf[c] = nodeOf[d] /\ nodeOf[c] \in ClientIDs => c = d

(* A channel made for a stream is closed if and only if it is no longer its
   node's channel: no sender goroutine is left behind by a replacement, and
   none is stopped while the node uses it.                                   *)
DetachedIsClosed ==
    \A c \in Conns : nodeOf[c] # None => (c \in closedChans <=> channel[nodeOf[c]] # c)

(* A waiter sleeps on the current configCh only while its condition is false:
   no change slips between the check of the condition and the sleep.         *)
NoMissedChange ==
    \A w \in Waiters : waitPc[w] = "wait" /\ w \notin woken => ~CondMet(w)

(* A waiter whose condition stays true returns, and Stop ends every wait.     *)
WaitsEnd ==
    \A w \in Waiters :
        /\ waitPc[w] \in {"check", "wait"} /\ CondMet(w)
               ~> waitPc[w] \notin {"check", "wait"} \/ ~CondMet(w)
        /\ waitPc[w] \in {"check", "wait"} /\ stopped ~> waitPc[w] \notin {"check", "wait"}

=============================================================================
