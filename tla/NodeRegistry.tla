---------------------------- MODULE NodeRegistry ----------------------------
(***************************************************************************)
(* The outbound manager (mgr.go), the builder that adds nodes to it        *)
(* (config_opts.go) and the configurations made from its nodes             *)
(* (config.go).  Several goroutines may extend configurations of one       *)
(* manager while another closes it.  The manager's lock covers single      *)
(* look-ups and insertions, not a whole NewConfig or Extend.               *)
(***************************************************************************)
EXTENDS Naturals, Sequences, Functions, FiniteSets, FiniteSetsExt

CONSTANTS
    Creator,    \* the goroutine that calls NewConfig
    Extenders,  \* the goroutines that call Extend
    Options,    \* node lists and node maps: records as in OptionKinds
    Addrs,      \* addresses as written
    Norm,       \* normalizeAddr: what an address resolves to
    Invalid,    \* the result for an address that does not resolve
    LocalID     \* the ID of the in-process node, if any

\* WithNodeList: addresses only, IDs follow the largest one of the manager.
\* WithNodes: IDs given, in increasing order.
OptionKinds == [isList : BOOLEAN, ids : Seq(Nat), addrs : Seq(Addrs)]

Builders == Extenders \cup {Creator}

ASSUME OptionAssumption ==
    /\ Creator \notin Extenders
    /\ \A o \in Options : o \in OptionKinds
    /\ \A o \in Options : ~o.isList =>
          /\ Len(o.ids) = Len(o.addrs)
          /\ \A i, j \in DOMAIN o.ids : i < j => o.ids[i] < o.ids[j]
    /\ Norm \in [Addrs -> Addrs \cup {Invalid}] /\ Invalid \notin Addrs

VARIABLES
    nodes,     \* m.nodes: every node ever registered
    lookup,    \* m.lookup: a map from the IDs that were registered to nodes
    closedAt,  \* 0 until Close, then 1 + the number of nodes it closed
    pc,        \* each builder's position
    opt,       \* its node list
    base,      \* the configuration it extends
    known,     \* the nodes it found when it started
    built,     \* the nodes it has added or reused, in order
    cfg,       \* the configuration it returned
    beside     \* history: builders that worked at the same time

vars == <<nodes, lookup, closedAt, pc, opt, base, known, built, cfg, beside>>

\* A configuration is a sequence of nodes, a node an index into nodes.
IdOf(n) == nodes[n].id
NodeIDs(c) == {IdOf(c[i]) : i \in DOMAIN c}
Closed == closedAt # 0
Working == {e \in Builders : pc[e] \in {"add", "register"}}

-----------------------------------------------------------------------------
(* Configuration *)

\* s is in increasing order of ID.
Sorted(s) == \A i, j \in DOMAIN s : i < j => IdOf(s[i]) < IdOf(s[j])

\* slices.SortFunc with ID, for nodes of different IDs.
SortByID(S) == CHOOSE s \in [1..Cardinality(S) -> S] : Sorted(s)

\* The nodes that mgr.Node finds for ids.
Found(ids) == {lookup[id] : id \in ids \cap DOMAIN lookup}

\* Slip: the nodes that were found are appended and not sorted in.
Add_Unsorted(c, ids) ==
    IF c = <<>> THEN <<>>
    ELSE c \o SortByID(Found(ids \ NodeIDs(c)))
Add(c, ids) ==
    IF c = <<>> THEN <<>>
    ELSE SortByID(Range(c) \cup Found(ids \ NodeIDs(c)))

Union(c, d) ==
    IF c = <<>> THEN d
    ELSE IF d = <<>> THEN c
    ELSE Add(c, NodeIDs(d))

\* The nodes that are kept stay in their order.
RemoveIDs(c, ids) ==
    LET keep == {i \in DOMAIN c : IdOf(c[i]) \notin ids}
        at == CHOOSE p \in [1..Cardinality(keep) -> keep] :
                  \A i, j \in DOMAIN p : i < j => p[i] < p[j]
    IN [i \in DOMAIN at |-> c[at[i]]]

Difference(c, d) == RemoveIDs(c, NodeIDs(d))

\* Slip: configurations of one size are taken to be equal.
Equal_SameSize(c, d) == Len(c) = Len(d)
Equal(c, d) ==
    /\ Len(c) = Len(d)
    /\ \A i \in DOMAIN c : IdOf(c[i]) = IdOf(d[i])

-----------------------------------------------------------------------------
(* NewConfig and Extend *)

Entries(o) == Len(o.addrs)

FirstListID(e) == Max({IdOf(n) : n \in known[e]} \cup {0}) + 1

\* The ID and the address of the entry that e is adding.
EntryID(e) ==
    LET i == Len(built[e]) + 1
    IN IF opt[e].isList THEN FirstListID(e) + i - 1 ELSE opt[e].ids[i]

EntryAddr(e) == Norm[opt[e].addrs[Len(built[e]) + 1]]

Reserved(e) == EntryID(e) = 0

\* Slip: only the nodes found at the start are checked for the address.
AddrTaken_Known(e) == \E n \in known[e] : nodes[n].addr = EntryAddr(e)
AddrTaken(e) == \E n \in known[e] \cup Range(built[e]) : nodes[n].addr = EntryAddr(e)

\* newNodeBuilder takes the nodes there are.  (Without an option there is no
\* builder: NewConfig returns an error before it has a manager, Extend returns a
\* copy of its configuration; to extend an empty one is an error as well.)
Begin(e) ==
    /\ pc[e] = "idle"
    /\ \E o \in Options :
          /\ opt' = [opt EXCEPT ![e] = o]
          /\ \/ /\ e = Creator
                /\ base' = base
             \/ /\ e \in Extenders
                /\ \E b \in Builders : cfg[b] # <<>> /\ base' = [base EXCEPT ![e] = cfg[b]]
    /\ pc' = [pc EXCEPT ![e] = "add"]
    /\ known' = [known EXCEPT ![e] = DOMAIN nodes]
    /\ beside' = beside \cup {{e, b} : b \in Working}
    /\ UNCHANGED <<nodes, lookup, closedAt, built, cfg>>

\* Close, once: every node there is.
closeNodes(ns) == closedAt' = IF Closed THEN closedAt ELSE Len(ns) + 1

\* Slip: the error is returned without closing the manager.
CloseOnError_Never(e) == UNCHANGED closedAt
CloseOnError(e) == IF e = Creator THEN closeNodes(nodes) ELSE UNCHANGED closedAt

\* An error: the nodes added so far stay; NewConfig closes its manager.
Fail(e) ==
    /\ pc' = [pc EXCEPT ![e] = "failed"]
    /\ CloseOnError(e)
    /\ UNCHANGED <<nodes, lookup, built>>

\* newConfig of an empty list or map.
NoEntries(e) ==
    /\ pc[e] = "add"
    /\ Entries(opt[e]) = 0
    /\ Fail(e)
    /\ UNCHANGED <<opt, base, known, cfg, beside>>

\* Of nodes with one ID the builder's table keeps the last.
Existing(e) ==
    LET same == {n \in known[e] : IdOf(n) = EntryID(e)}
    IN {n \in same : \A k \in same : k <= n}

\* nodeBuilder.add and the look-up of newNode.
add(e) ==
    /\ pc[e] = "add"
    /\ Len(built[e]) < Entries(opt[e])
    /\ \/ /\ \/ Reserved(e) \/ EntryAddr(e) = Invalid
             \/ \E n \in Existing(e) : nodes[n].addr # EntryAddr(e)
             \/ Existing(e) = {} /\ (AddrTaken(e) \/ EntryID(e) \in DOMAIN lookup)
          /\ Fail(e)
       \/ /\ ~Reserved(e) /\ EntryAddr(e) # Invalid
          /\ \E n \in Existing(e) : /\ nodes[n].addr = EntryAddr(e)
                                    /\ built' = [built EXCEPT ![e] = Append(@, n)]
          /\ UNCHANGED <<nodes, lookup, closedAt, pc>>
       \/ /\ ~Reserved(e) /\ EntryAddr(e) # Invalid
          /\ Existing(e) = {} /\ ~AddrTaken(e) /\ EntryID(e) \notin DOMAIN lookup
          /\ pc' = [pc EXCEPT ![e] = "register"]
          /\ UNCHANGED <<nodes, lookup, closedAt, built>>
    /\ UNCHANGED <<opt, base, known, cfg, beside>>

\* newOutboundNode may fail, the local node needs no connection; addNode.
register(e) ==
    /\ pc[e] = "register"
    /\ \/ /\ EntryID(e) # LocalID
          /\ Fail(e)
       \/ LET n == Len(nodes) + 1
          IN /\ nodes' = Append(nodes, [id |-> EntryID(e), addr |-> EntryAddr(e), by |-> e])
             /\ lookup' = [id \in DOMAIN lookup \cup {EntryID(e)} |->
                             IF id = EntryID(e) THEN n ELSE lookup[id]]
             /\ built' = [built EXCEPT ![e] = Append(@, n)]
             /\ pc' = [pc EXCEPT ![e] = "add"]
             /\ UNCHANGED closedAt
    /\ UNCHANGED <<opt, base, known, cfg, beside>>

\* The builder's configuration, joined with the one that is extended.
Finish(e) ==
    /\ pc[e] = "add"
    /\ Len(built[e]) = Entries(opt[e]) /\ built[e] # <<>>
    /\ cfg' = [cfg EXCEPT ![e] = Union(base[e], SortByID(Range(built[e])))]
    /\ pc' = [pc EXCEPT ![e] = "returned"]
    /\ UNCHANGED <<nodes, lookup, closedAt, opt, base, known, built, beside>>

Close ==
    /\ \E b \in Builders : cfg[b] # <<>>
    /\ ~Closed
    /\ closeNodes(nodes)
    /\ UNCHANGED <<nodes, lookup, pc, opt, base, known, built, cfg, beside>>

Init ==
    /\ nodes = <<>> /\ lookup = <<>> /\ closedAt = 0
    /\ pc = [e \in Builders |-> "idle"]
    /\ opt = [e \in Builders |-> [isList |-> TRUE, ids |-> <<>>, addrs |-> <<>>]]
    /\ base = [e \in Builders |-> <<>>] /\ known = [e \in Builders |-> {}]
    /\ built = [e \in Builders |-> <<>>] /\ cfg = [e \in Builders |-> <<>>]
    /\ beside = {}

Next ==
    \/ Close
    \/ \E e \in Builders : Begin(e) \/ NoEntries(e) \/ add(e) \/ register(e) \/ Finish(e)

Spec == Init /\ [][Next]_vars

-----------------------------------------------------------------------------
(* Properties *)

(* The tables have their types, look-ups find nodes of their ID, and what a
   builder holds are nodes of the manager.                                   *)
TypeOK ==
    /\ nodes \in Seq([id : Nat \ {0}, addr : Addrs, by : Builders])
    /\ \A id \in DOMAIN lookup : lookup[id] \in DOMAIN nodes /\ IdOf(lookup[id]) = id
    /\ closedAt \in 0..(Len(nodes) + 1)
    /\ pc \in [Builders -> {"idle", "add", "register", "returned", "failed"}]
    /\ opt \in [Builders -> OptionKinds]
    /\ known \in [Builders -> SUBSET DOMAIN nodes]
    /\ {base, built, cfg} \subseteq [Builders -> Seq(DOMAIN nodes)]
    /\ \A e \in Builders : Len(built[e]) <= Entries(opt[e])
    /\ beside \subseteq SUBSET Builders

(* Two nodes of the manager share an ID or an address only if they were added
   by builders that ran side by side.                                        *)
DuplicatesOnlyFromRaces ==
    \A m, n \in DOMAIN nodes :
        m # n /\ (IdOf(m) = IdOf(n) \/ nodes[m].addr = nodes[n].addr)
            => {nodes[m].by, nodes[n].by} \in beside

(* What NewConfig and Extend return: the nodes of the configuration that was
   extended and those of the option, each ID once and in increasing order.
   A node is missing only if one of the same ID, which a builder that ran side
   by side with its own builder has added, stands in its place.              *)
ConfigIsComplete ==
    \A e \in Builders : pc[e] = "returned" =>
        /\ NodeIDs(cfg[e]) = NodeIDs(base[e]) \cup NodeIDs(built[e])
        /\ Sorted(cfg[e])
        /\ \A n \in (Range(base[e]) \cup Range(built[e])) \ Range(cfg[e]) :
              \E m \in Range(cfg[e]) :
                  IdOf(m) = IdOf(n) /\ {nodes[m].by, nodes[n].by} \in beside

(* On configurations that NewConfig and Extend returned the operations are
   those of sets of IDs: Equal compares the sets, Union and Difference give
   the union and the difference, and taking away what was added gives the
   configuration back.                                                       *)
ConfigurationsAreSets ==
    \A e, f \in Builders :
        LET c == cfg[e]
            d == cfg[f]
        IN c # <<>> /\ d # <<>> =>
             /\ Equal(c, d) <=> NodeIDs(c) = NodeIDs(d)
             /\ NodeIDs(Union(c, d)) = NodeIDs(c) \cup NodeIDs(d)
             /\ Equal(Union(c, d), Union(d, c))
             /\ Equal(Union(Difference(c, d), d), Union(c, d))
             /\ Equal(RemoveIDs(Union(c, d), NodeIDs(d) \ NodeIDs(c)), c)

(* When NewConfig fails, every node it had registered is closed and the manager
   is of no further use.                                                     *)
FailedNewConfigClosesAll ==
    pc[Creator] = "failed" => closedAt = Len(nodes) + 1 /\ \A e \in Extenders : pc[e] = "idle"
=============================================================================
