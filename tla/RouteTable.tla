----------------------------- MODULE RouteTable -----------------------------
(***************************************************************************)
(* The route table of a node (RouteTable of peers/peer_ospf_route.rs): the *)
(* next hop to every peer, computed by dijkstra_with_first_hop of          *)
(* peers/graph_algo.rs, and the peers that own addresses and subnets.      *)
(*                                                                         *)
(* Any task that has changed the synced route information, an RPC handler  *)
(* or a routine, rebuilds the table.  Rebuilds share the read lock of      *)
(* cost_calculator, so that several can run at once.  A task first calls   *)
(* begin_update, which needs the write lock and so waits until no rebuild  *)
(* runs.  Forwarding looks routes up all the time, without a lock.         *)
(*                                                                         *)
(* A node has two tables of this kind, for the two policies, that have     *)
(* nothing to do with each other; this is either of them.  Costs of links  *)
(* do not change.  Of a RoutePeerInfo there are one address, the announced *)
(* subnets and avoid_relay_data; IPv6 addresses are treated like IPv4      *)
(* ones.                                                                   *)
(***************************************************************************)
EXTENDS Naturals, Sequences, FiniteSets, FiniteSetsExt, Functions, TLC

CONSTANTS
    Peers, Me, None,
    Ips, Cidrs,
    Within,           \* <<c, d>>: subnet c is part of subnet d
    Cost,             \* Cost[p, q]: calculate_cost
    AVOID_RELAY_COST,
    Tasks,            \* the tasks that change route information
    Starts,           \* policy, route information the first task has gathered,
                      \* and the bound on the changes that follow
    NewInfos,         \* <<p, i>>: p can publish i
    NewLists,         \* <<p, S>>: p can publish the neighbours S
    NewSuppressed     \* the peers that can be suppressed at a time

RoutePeerInfo == [ip : Ips, cidrs : SUBSET Cidrs, avoid_relay_data : BOOLEAN]

ASSUME CostsAreSmall ==
    /\ Me \in Peers
    /\ Cost \in [Peers \X Peers -> 1 .. AVOID_RELAY_COST]
    /\ \A c \in Cidrs : <<c, c>> \in Within

VARIABLES
    policy,
    info, conn, suppressed,  \* SyncedRouteInfo
    version,
    updates,                 \* changes still to come
    next_hop_map, next_hop_map_version,
    suppressed_peer_ids, peer_infos, ip_peer_id_map, cidr_peer_id_map,
    task,                    \* task[t]: what t is doing
    kept                     \* history: links since the table was last at rest

data == <<info, conn, suppressed>>
table == <<next_hop_map, next_hop_map_version, suppressed_peer_ids, peer_infos,
           ip_peer_id_map, cidr_peer_id_map>>
vars == <<policy, data, version, updates, table, task, kept>>

Idle == [pc |-> "idle"]

-----------------------------------------------------------------------------
\* dijkstra_with_first_hop, and the next hops of the two policies.  A graph is a function
\* from edges to costs.

\* Mutant: a better path keeps the first hop of the one it replaces.
RelaxedKeepsHop(graph, start, found, node) ==
    LET better == {next \in Peers \ found.visited :
            /\ <<node, next>> \in DOMAIN graph
            /\ next \in DOMAIN found.scores =>
                   found.scores[node] + graph[node, next] < found.scores[next]}
        hop(next) == IF node = start THEN <<next, 0>> ELSE found.first_hop[node] IN
    [visited |-> found.visited \cup {node},
     scores |-> [next \in better |-> found.scores[node] + graph[node, next]] @@ found.scores,
     first_hop |-> found.first_hop @@ [next \in better |-> <<hop(next)[1], hop(next)[2] + 1>>]]

\* What the edges of node do to the scores and first hops found so far.
Relaxed(graph, start, found, node) ==
    LET better == {next \in Peers \ found.visited :
            /\ <<node, next>> \in DOMAIN graph
            /\ next \in DOMAIN found.scores =>
                   found.scores[node] + graph[node, next] < found.scores[next]}
        hop(next) == IF node = start THEN <<next, 0>> ELSE found.first_hop[node] IN
    [visited |-> found.visited \cup {node},
     scores |-> [next \in better |-> found.scores[node] + graph[node, next]] @@ found.scores,
     first_hop |-> [next \in better |-> <<hop(next)[1], hop(next)[2] + 1>>] @@ found.first_hop]

\* All the results there can be: nodes of equal score are visited in any order.
RECURSIVE Visit(_, _, _)
Visit(graph, start, found) ==
    LET open == DOMAIN found.scores \ found.visited
        least == {n \in open : \A m \in open : found.scores[n] <= found.scores[m]} IN
    IF open = {} THEN {found}
    ELSE UNION {Visit(graph, start, Relaxed(graph, start, found, n)) : n \in least}

DijkstraWithFirstHop(graph, start) ==
    Visit(graph, start, [visited |-> {}, scores |-> start :> 0,
                         first_hop |-> start :> <<start, 0>>])

GenNextHopMapWithLeastCost(graph, v) ==
    {[d \in DOMAIN r.first_hop |->
        [next_hop_peer_id |-> r.first_hop[d][1], path_len |-> r.first_hop[d][2],
         path_latency |-> r.scores[d] % AVOID_RELAY_COST, version |-> v]] :
        r \in DijkstraWithFirstHop(graph, Me)}

\* The same on the edges that lie on paths with the fewest hops.
GenNextHopMapWithLeastHop(graph, v) ==
    LET normal == [e \in DOMAIN graph |->
                      IF graph[e] >= AVOID_RELAY_COST THEN AVOID_RELAY_COST + 1 ELSE 1]
        len == (CHOOSE r \in DijkstraWithFirstHop(normal, Me) : TRUE).scores
        shortest == {e \in DOMAIN graph : /\ e[1] \in DOMAIN len
                                          /\ e[2] \in DOMAIN len
                                          /\ len[e[1]] + normal[e] = len[e[2]]} IN
    GenNextHopMapWithLeastCost([e \in shortest |-> graph[e]], v)

NextHopMaps(graph, v) ==
    IF policy = "LeastHop" THEN GenNextHopMapWithLeastHop(graph, v)
    ELSE GenNextHopMapWithLeastCost(graph, v)

-----------------------------------------------------------------------------
\* Lookups

GetTopologyNextHop(p) ==
    IF p \in DOMAIN next_hop_map /\ next_hop_map[p].version >= next_hop_map_version
    THEN next_hop_map[p] ELSE None

GetNextHop(p) == IF p \in suppressed_peer_ids THEN None ELSE GetTopologyNextHop(p)

PeerReachable(p) == GetNextHop(p) # None

\* The links a graph of the present route information has.
Known == {p \in Peers : info[p] # None}
Links == {e \in Known \X Known : e[2] \in conn[e[1]] /\ (e[1] = Me \/ e[1] \notin suppressed)}

AtRest == \A t \in Tasks : task[t].pc = "idle"

-----------------------------------------------------------------------------
\* Changes of the synced route information

Init ==
    /\ \E s \in Starts : /\ policy = s.policy
                         /\ info = s.info
                         /\ conn = s.conn
                         /\ updates = s.updates
    /\ suppressed = {}
    /\ version = 1
    /\ next_hop_map = << >>
    /\ next_hop_map_version = 0
    /\ suppressed_peer_ids = {}
    /\ peer_infos = [p \in Peers |-> None]
    /\ ip_peer_id_map = << >>
    /\ cidr_peer_id_map = << >>
    /\ \E first \in Tasks :
           task = [t \in Tasks |-> IF t = first THEN [pc |-> "begin"] ELSE Idle]
    /\ kept = {}

\* Every change is followed by an increment of the version and a rebuild of the task that
\* made it.
Changes(t) ==
    /\ task[t].pc = "idle"
    /\ updates > 0
    /\ updates' = updates - 1
    /\ task' = [task EXCEPT ![t] = [pc |-> "changed"]]
    /\ kept' = kept \cap Links'
    /\ UNCHANGED <<policy, version, table>>

\* update_peer_infos, update_my_peer_info
UpdatePeerInfo(t) ==
    /\ \E n \in NewInfos : info[n[1]] # n[2] /\ info' = [info EXCEPT ![n[1]] = n[2]]
    /\ UNCHANGED <<conn, suppressed>>
    /\ Changes(t)

\* update_conn_info, update_my_conn_info
UpdateConnInfo(t) ==
    /\ \E n \in NewLists : conn[n[1]] # n[2] /\ conn' = [conn EXCEPT ![n[1]] = n[2]]
    /\ UNCHANGED <<info, suppressed>>
    /\ Changes(t)

\* remove_peers
RemovePeer(t) ==
    /\ \E p \in Known \ {Me} : /\ info' = [info EXCEPT ![p] = None]
                               /\ conn' = [conn EXCEPT ![p] = {}]
    /\ UNCHANGED suppressed
    /\ Changes(t)

\* replace_suppressed_non_reusable_credential_peers
ReplaceSuppressed(t) ==
    /\ suppressed' \in NewSuppressed \ {suppressed}
    /\ UNCHANGED <<info, conn>>
    /\ Changes(t)

IncVersion(t) ==
    /\ task[t].pc = "changed"
    /\ version' = version + 1
    /\ task' = [task EXCEPT ![t] = [pc |-> "begin"]]
    /\ UNCHANGED <<policy, data, updates, table, kept>>

-----------------------------------------------------------------------------
\* update_route_table and build_from_synced_info

\* The tasks that hold the read lock.
Building == {t \in Tasks : task[t].pc \notin {"idle", "changed", "begin", "begun"}}

\* begin_update: the write lock is to be had when nobody builds.
BeginUpdate(t) ==
    /\ task[t].pc = "begin"
    /\ Building = {}
    /\ task' = [task EXCEPT ![t] = [pc |-> "begun"]]
    /\ UNCHANGED <<policy, data, version, updates, table, kept>>

\* Mutant: the table is of the new version before the entries are.
StartBuildRaises(t) ==
    /\ task[t].pc = "begun"
    /\ task' = [task EXCEPT ![t] = [pc |-> "nodes", version |-> version]]
    /\ next_hop_map_version' = version
    /\ UNCHANGED <<policy, data, version, updates, next_hop_map, suppressed_peer_ids,
                   peer_infos, ip_peer_id_map, cidr_peer_id_map, kept>>

\* The version is read before anything it is the version of.
StartBuild(t) ==
    /\ task[t].pc = "begun"
    /\ task' = [task EXCEPT ![t] = [pc |-> "nodes", version |-> version]]
    /\ UNCHANGED <<policy, data, version, updates, table, kept>>

\* sync_suppressed_peer_ids, local_proxy_cidrs, and the nodes of the graph.
ReadNodes(t) ==
    /\ task[t].pc = "nodes"
    /\ suppressed_peer_ids' = suppressed
    /\ task' = [task EXCEPT ![t] =
                   [pc |-> "edges", version |-> @.version, nodes |-> Known, left |-> Known,
                    graph |-> << >>,
                    local |-> IF info[Me] = None THEN {} ELSE info[Me].cidrs]]
    /\ UNCHANGED <<policy, data, version, updates, next_hop_map, next_hop_map_version,
                   peer_infos, ip_peer_id_map, cidr_peer_id_map, kept>>

\* build_peer_graph_from_synced_info: the edges of one node, as they are now.
EdgesOf(src, nodes) ==
    LET dsts == IF src # Me /\ src \in suppressed THEN {} ELSE conn[src] \cap nodes
        avoid == info[src] # None /\ info[src].avoid_relay_data IN
    [e \in {src} \X dsts |-> Cost[e] + (IF avoid THEN AVOID_RELAY_COST ELSE 0)]

ReadEdges(t) ==
    /\ task[t].pc = "edges"
    /\ Me \in task[t].nodes
    /\ \E src \in task[t].left :
           task' = [task EXCEPT ![t].left = @ \ {src},
                                ![t].graph = EdgesOf(src, task[t].nodes) @@ @]
    /\ UNCHANGED <<policy, data, version, updates, table, kept>>

GenNextHopMap(t) ==
    /\ task[t].pc = "edges"
    /\ task[t].left = {}
    /\ Me \in task[t].nodes
    /\ \E m \in NextHopMaps(task[t].graph, task[t].version) :
           task' = [task EXCEPT ![t] = [pc |-> "hops", version |-> @.version,
                                        local |-> @.local, hops |-> m, left |-> DOMAIN m]]
    /\ UNCHANGED <<policy, data, version, updates, table, kept>>

\* The entry of one peer, unless it has one that is as new.
WriteNextHop(t) ==
    /\ task[t].pc = "hops"
    /\ \E d \in task[t].left :
           /\ task' = [task EXCEPT ![t].left = @ \ {d}]
           /\ next_hop_map' =
                 IF d \in DOMAIN next_hop_map /\ next_hop_map[d].version >= task[t].version
                 THEN next_hop_map ELSE d :> task[t].hops[d] @@ next_hop_map
    /\ UNCHANGED <<policy, data, version, updates, next_hop_map_version,
                   suppressed_peer_ids, peer_infos, ip_peer_id_map, cidr_peer_id_map, kept>>

\* Mutant: the version after the one that was built.
RaisedPast(v) == v + 1

\* set_if_larger
Raised(v) == IF v > next_hop_map_version THEN v ELSE next_hop_map_version

SetVersion(t) ==
    /\ task[t].pc = "hops"
    /\ task[t].left = {}
    /\ next_hop_map_version' = Raised(task[t].version)
    /\ task' = [task EXCEPT ![t] = [pc |-> "fill", version |-> @.version, local |-> @.local,
                                    left |-> DOMAIN next_hop_map, cidrs |-> << >>]]
    /\ UNCHANGED <<policy, data, version, updates, next_hop_map, suppressed_peer_ids,
                   peer_infos, ip_peer_id_map, cidr_peer_id_map, kept>>

\* Mutant: of two peers with a route the one met first keeps the address.
IsNewPeerBetterOnceGone(p, v, old) ==
    \/ v > old.version
    \/ p # old.peer_id /\ GetNextHop(old.peer_id) = None

\* is_new_peer_better
IsNewPeerBetter(p, v, old) ==
    \/ v > old.version
    \/ /\ p # old.peer_id
       /\ \/ GetNextHop(old.peer_id) = None
          \/ next_hop_map[p].path_len < GetNextHop(old.peer_id).path_len

\* map with p entered under the keys nobody has, and those p takes from their owner: all,
\* or where p is better.
Claim(map, keys, p, v, all) ==
    [k \in {k \in keys : k \in DOMAIN map => all \/ IsNewPeerBetter(p, v, map[k])} |->
        [peer_id |-> p, version |-> v]] @@ map

\* The subnets of p that are not covered by one we announce ourselves.
Announced(p, local) ==
    IF p = Me THEN info[p].cidrs
    ELSE {c \in info[p].cidrs : \A l \in local : <<c, l>> \notin Within}

\* The maps take in one peer of next_hop_map, if it can be reached.
FillPeer(t) ==
    /\ task[t].pc = "fill"
    /\ \E p \in task[t].left :
        LET v == task[t].version IN
        IF /\ p \in DOMAIN next_hop_map
           /\ next_hop_map[p].version >= v
           /\ PeerReachable(p)
           /\ info[p] # None
        THEN /\ peer_infos' = [peer_infos EXCEPT ![p] = info[p]]
             /\ ip_peer_id_map' = Claim(ip_peer_id_map, {info[p].ip}, p, v, FALSE)
             /\ task' = [task EXCEPT
                   ![t].left = @ \ {p},
                   ![t].cidrs = Claim(@, Announced(p, task[t].local), p, v, p = Me)]
        ELSE /\ task' = [task EXCEPT ![t].left = @ \ {p}]
             /\ UNCHANGED <<peer_infos, ip_peer_id_map>>
    /\ UNCHANGED <<policy, data, version, updates, next_hop_map, next_hop_map_version,
                   suppressed_peer_ids, cidr_peer_id_map, kept>>

StoreCidrs(t) ==
    /\ task[t].pc = "fill"
    /\ task[t].left = {}
    /\ cidr_peer_id_map' = task[t].cidrs
    /\ task' = [task EXCEPT ![t] = [pc |-> "clean"]]
    /\ UNCHANGED <<policy, data, version, updates, next_hop_map, next_hop_map_version,
                   suppressed_peer_ids, peer_infos, ip_peer_id_map, kept>>

\* We are not in the graph ourselves: no routes.
SkipBuild(t) ==
    /\ task[t].pc = "edges"
    /\ Me \notin task[t].nodes
    /\ next_hop_map_version' = Raised(task[t].version)
    /\ task' = [task EXCEPT ![t] = [pc |-> "clean"]]
    /\ UNCHANGED <<policy, data, version, updates, next_hop_map, suppressed_peer_ids,
                   peer_infos, ip_peer_id_map, cidr_peer_id_map, kept>>

\* clean_expired_route_info
CleanExpiredRouteInfo ==
    /\ next_hop_map' = [p \in {q \in DOMAIN next_hop_map : GetTopologyNextHop(q) # None} |->
                           next_hop_map[p]]
    /\ peer_infos' = [p \in Peers |-> IF PeerReachable(p) THEN peer_infos[p] ELSE None]
    /\ ip_peer_id_map' =
          [i \in {j \in DOMAIN ip_peer_id_map : PeerReachable(ip_peer_id_map[j].peer_id)} |->
              ip_peer_id_map[i]]
    /\ UNCHANGED <<next_hop_map_version, suppressed_peer_ids, cidr_peer_id_map>>

EndBuild(t) ==
    /\ task[t].pc = "clean"
    /\ CleanExpiredRouteInfo
    /\ task' = [task EXCEPT ![t] = Idle]
    /\ kept' = IF \A u \in Tasks \ {t} : task[u].pc = "idle" THEN Links ELSE kept
    /\ UNCHANGED <<policy, data, version, updates>>

\* clear_expired_peer cleans the table without any lock.
ClearExpired ==
    /\ CleanExpiredRouteInfo
    /\ UNCHANGED <<policy, data, version, updates, task, kept>>

Next ==
    \/ \E t \in Tasks :
           \/ UpdatePeerInfo(t) \/ UpdateConnInfo(t) \/ RemovePeer(t) \/ ReplaceSuppressed(t)
           \/ IncVersion(t) \/ BeginUpdate(t) \/ StartBuild(t) \/ ReadNodes(t) \/ ReadEdges(t)
           \/ GenNextHopMap(t) \/ WriteNextHop(t) \/ SetVersion(t) \/ FillPeer(t)
           \/ StoreCidrs(t) \/ SkipBuild(t) \/ EndBuild(t)
    \/ ClearExpired

Spec == Init /\ [][Next]_vars

-----------------------------------------------------------------------------
\* Properties

\* The values the variables take.  No part of the table is newer than the route
\* information.
TypeOK ==
    /\ info \in [Peers -> {None} \cup RoutePeerInfo]
    /\ conn \in [Peers -> SUBSET Peers]
    /\ suppressed \cup suppressed_peer_ids \subseteq Peers
    /\ next_hop_map_version \in 0 .. version
    /\ \A p \in DOMAIN next_hop_map : /\ next_hop_map[p].next_hop_peer_id \in Peers
                                      /\ next_hop_map[p].version \in 1 .. version
    /\ \A i \in DOMAIN ip_peer_id_map : ip_peer_id_map[i].version \in 1 .. version
    /\ DOMAIN cidr_peer_id_map \subseteq Cidrs
    /\ kept \subseteq Links

\* The paths there are, by definition, and what one costs: how many nodes on it would
\* rather not relay, how many hops it has, and what its links cost.
PathsFromMe ==
    {path \in UNION {[1 .. n -> Known] : n \in 1 .. Cardinality(Known)} :
        /\ path[1] = Me
        /\ IsInjective(path)
        /\ \A i \in 1 .. Len(path) - 1 : <<path[i], path[i + 1]>> \in Links}

Relays(path) ==
    Cardinality({i \in 1 .. Len(path) - 1 : info[path[i]].avoid_relay_data})
Hops(path) == Len(path) - 1
Latency(path) == MapThenSumSet(LAMBDA i : Cost[path[i], path[i + 1]], 1 .. Len(path) - 1)

Preferred(a, b) ==
    \/ Relays(a) < Relays(b)
    \/ /\ Relays(a) = Relays(b)
       /\ IF policy = "LeastHop"
          THEN Hops(a) < Hops(b) \/ (Hops(a) = Hops(b) /\ Latency(a) < Latency(b))
          ELSE Latency(a) < Latency(b)

\* next is the entry of a best one of the paths.
OnBestPath(next, paths) ==
    \E a \in paths :
        /\ \A b \in paths : ~Preferred(b, a)
        /\ next.next_hop_peer_id = (IF Len(a) = 1 THEN Me ELSE a[2])
        /\ next.path_len = Hops(a)
        /\ next.path_latency = Latency(a)

\* When no task has a change to apply, a peer has a route if and only if there is a path to
\* it in the route information, and the route is the first hop, the length and the
\* latency of a best path: with the fewest peers that avoid relaying, then the fewest hops
\* and the least cost (LeastHop) or the least cost (LeastCost).  It does not matter what
\* changed while tasks were reading the graph or which of them wrote an entry first.
RoutesAreBest ==
    AtRest => \A p \in Peers :
        LET paths == {a \in PathsFromMe : a[Len(a)] = p} IN
        IF paths = {} THEN GetTopologyNextHop(p) = None
        ELSE GetTopologyNextHop(p) # None /\ OnBestPath(GetTopologyNextHop(p), paths)

Nearest(p, S) == p \in S /\ \A q \in S : GetNextHop(p).path_len <= GetNextHop(q).path_len

\* When no task has a change to apply, the table knows the present information of the
\* peers it can forward to, and every address and subnet they announce belongs to a
\* nearest one of those that announce it; subnets nobody announces, and those of others
\* that we cover ourselves, are not in the map.  cidr_peer_id_map is stored whatever its
\* version, so this rests on the lock: a rebuild that has not seen a change is over before
\* the rebuild for that change begins.
OwnersAreNearest ==
    LET reachable == {p \in Peers : PeerReachable(p)}
        local == IF info[Me] = None THEN {} ELSE info[Me].cidrs IN
    AtRest =>
        /\ \A p \in reachable : peer_infos[p] = info[p]
        /\ \A i \in {info[p].ip : p \in reachable} :
               /\ i \in DOMAIN ip_peer_id_map
               /\ Nearest(ip_peer_id_map[i].peer_id, {p \in reachable : info[p].ip = i})
        /\ \A c \in Cidrs :
               LET owners == {p \in reachable : c \in Announced(p, local)} IN
               IF owners = {} THEN c \notin DOMAIN cidr_peer_id_map
               ELSE c \in DOMAIN cidr_peer_id_map
                    /\ Nearest(cidr_peer_id_map[c].peer_id, owners)

\* What can be reached from S over links that no change has touched.
RECURSIVE Reached(_)
Reached(S) ==
    LET T == S \cup {e[2] : e \in {l \in kept : l[1] \in S}} IN
    IF T = S THEN S ELSE Reached(T)

\* A peer that can be reached over links no change has touched since the table was last at
\* rest has a route at every moment of every rebuild: forwarding never drops a packet to it
\* because entries and next_hop_map_version are written one after the other.
NeverLost ==
    kept # {} => \A p \in Reached({Me}) : GetTopologyNextHop(p) # None
=============================================================================
