----------------------------- MODULE RouteSync -----------------------------
(***************************************************************************)
(* Route flooding between peers: SyncedRouteInfo, SyncRouteSession and the *)
(* sync_route_info RPC of peers/peer_ospf_route.rs.                        *)
(*                                                                         *)
(* Every node keeps a database of what it knows of every peer: a versioned *)
(* RoutePeerInfo and a versioned list of direct neighbours.  A node is the *)
(* only writer of its own entries.  A session to a neighbour remembers     *)
(* which versions that neighbour is known to hold and sends only what is   *)
(* newer; entries whose last_update is older than the session's            *)
(* last_sync_succ_timestamp are not even looked at.                        *)
(*                                                                         *)
(* Data abstraction.  A RoutePeerInfo is its version (its owner bumps it   *)
(* whenever a field changes).  Version 0 stands both for "no entry" and    *)
(* for the placeholder of fill_empty_peer_info: neither is ever sent, nor  *)
(* a node of the route graph.  Local timestamps are only compared with     *)
(* each other, so a session keeps the set of entries whose last_update is  *)
(* older than last_sync_succ_timestamp (oldInfo, oldConn), and a call in   *)
(* flight the set of entries updated since it was built.  Which neighbours *)
(* get a session is decided by maintain_sessions: here sessions start and  *)
(* stop at any time.                                                       *)
(***************************************************************************)
EXTENDS Naturals, FiniteSets, FiniteSetsExt

CONSTANTS
    Peers,          \* the peer ids of one network
    Links,          \* the pairs {n, d} of peers that may get a connection
    MaxInfoVer,     \* bound: versions a node gives its RoutePeerInfo
    MaxConnVer,     \* bound: versions a node gives its neighbour list
    MaxFaults,      \* bound: link losses, stopped sessions, timed-out calls
    MaxExpired,     \* bound: rounds of clear_expired_peer, clean_dst_saved_map
    MaxSid,         \* bound: ids that n gives its sessions to d
    Forced,         \* whether a sync may have only the initiator flag to tell
    Unrenewed,      \* whether the owner's renewal of a reachable peer's info
                    \* may fail to arrive for REMOVE_DEAD_PEER_INFO_AFTER
    SupportsList,   \* support_conn_list_sync of every peer's RoutePeerInfo
    MaxCalls        \* bound: calls in flight, given-up ones included

ASSUME ConstAssumption ==
    /\ Peers # {} /\ IsFiniteSet(Peers) /\ Links \subseteq SUBSET Peers
    /\ MaxInfoVer \in Nat /\ MaxConnVer \in Nat /\ MaxFaults \in Nat
    /\ MaxExpired \in Nat /\ MaxSid \in Nat /\ Forced \subseteq BOOLEAN
    /\ Unrenewed \in BOOLEAN /\ SupportsList \in BOOLEAN /\ MaxCalls \in Nat

VARIABLES
    nbr,        \* nbr[n]: the peers of n's interface (list_peers)
    info,       \* info[n][p]: version of p's RoutePeerInfo at n
    conn,       \* conn[n][p]: p's neighbour list at n and its version
    dbv,        \* dbv[n]: how far synced_route_info.version is ahead of the
                \* version of the cached bitmap
    reach,      \* reach[n]: topology_peer_reachable of n's route table
    cached,     \* cached[n]: cached_local_conn_map
    job,        \* job[n][w]: the rebuild task w of n is in the middle of
    sess,       \* sess[n][d]: n's SyncRouteSession to d, or NoSession
    calls,      \* sync_route_info calls in flight
    faults,     \* faults so far
    expired,    \* removals by clear_expired_peer so far
    published   \* history: published[p][v], the list p gave version v

vars == <<nbr, info, conn, dbv, reach, cached, job, sess, calls,
          faults, expired, published>>

Zero == [p \in Peers |-> 0]
NoConn == [ver |-> 0, peers |-> {}]
NoSession == [sid |-> 0]
Workers == {"self", "rpc"}
Idle == [stage |-> "idle", v |-> 0, ids |-> {}, ver |-> Zero]
Due == [stage |-> "table", v |-> 0, ids |-> {}, ver |-> Zero]

Larger(a, b) == IF a < b THEN b ELSE a

\* The cached bitmap moves on to version b (AtomicVersion::set_if_larger):
\* how far version a is ahead of it then.
AheadUnordered(a, b) == a - b
Ahead(a, b) == IF a < b THEN 0 ELSE a - b

\* update_peer_infos and update_conn_info_one_peer: an entry with a larger
\* version is taken over.
MergeInfo(mine, theirs) == Larger(mine, theirs)

MergeConnOffByOne(mine, theirs) ==
    IF theirs.ver > mine.ver + 1 THEN theirs ELSE mine
MergeConnKeepsList(mine, theirs) ==
    IF theirs.ver > mine.ver THEN [mine EXCEPT !.ver = theirs.ver] ELSE mine
MergeConnCounted(mine, theirs) ==
    IF theirs.ver > mine.ver THEN [theirs EXCEPT !.ver = @ + 1] ELSE mine
MergeConn(mine, theirs) == IF theirs.ver > mine.ver THEN theirs ELSE mine
-----------------------------------------------------------------------------
\* The route table and the cached bitmap.

\* build_peer_graph_from_synced_info: the graph has the peers whose info is
\* not a placeholder; the next-hop map holds what is reachable from n in it.
Reachable(n, I, C) ==
    LET nodes == {p \in Peers : I[p] > 0}
        Closed(S) == \A p \in S : C[p].peers \cap nodes \subseteq S
    IN  IF n \in nodes
        THEN {q \in nodes : \A S \in SUBSET nodes :
                                n \in S /\ Closed(S) => q \in S}
        ELSE {}

\* The peers of the bitmap: reachable ones and all their neighbours.
BitmapIds(R, C) == R \cup UNION {C[p].peers : p \in R}

\* The version a bitmap states for a peer: 0 for one that is only a neighbour.
BitmapVersions(R, C) == [p \in Peers |-> IF p \in R THEN C[p].ver ELSE 0]

\* One row per peer, restricted to the columns of the bitmap.  A row of
\* version 0 is never taken over by a receiver.
BitmapRows(ids, ver, C) ==
    [p \in Peers |-> IF ver[p] > 0
                     THEN [ver |-> ver[p], peers |-> C[p].peers \cap ids]
                     ELSE NoConn]

Bitmap(R, C) ==
    [ids |-> BitmapIds(R, C),
     rows |-> BitmapRows(BitmapIds(R, C), BitmapVersions(R, C), C)]

\* Sizes that decide between the two encodings, in bytes.
ListSize(L, C) == MapThenSumSet(LAMBDA p : 8 + 4 * Cardinality(C[p].peers), L)
BitmapSize(ids) ==
    (Cardinality(ids) * Cardinality(ids) + 7) \div 8 + 8 * Cardinality(ids)
-----------------------------------------------------------------------------
\* Sessions.

NewSession(s) ==
    [sid |-> s, dsid |-> 0, savedInfo |-> Zero, savedConn |-> Zero,
     oldInfo |-> {}, oldConn |-> {}, unrInfo |-> Zero, unrConn |-> Zero]

\* my_session_id is random: an id that neither d nor a call remembers
FreshSids(n, d) ==
    (1..MaxSid) \ ((IF sess[d][n] = NoSession THEN {} ELSE {sess[d][n].dsid})
                   \cup {c.sid : c \in {k \in calls : k.from = n /\ k.to = d}}
                   \cup {c.rsid : c \in {k \in calls : k.from = d /\ k.to = n}})

FreshSid(n, d) == CHOOSE s \in FreshSids(n, d) : TRUE

UpdateDstSessionId(S, s) ==
    IF s = S.dsid THEN S ELSE [NewSession(S.sid) EXCEPT !.dsid = s]

\* check_saved_*_update_to_date
UpToDateNearly(saved, d, p, v) == v = 0 \/ p = d \/ saved[p] + 1 >= v
UpToDate(saved, d, p, v) == v = 0 \/ p = d \/ saved[p] >= v

\* update_dst_saved_*_version for the versions vs sent to or received from d
Saved(saved, d, vs) ==
    [p \in Peers |-> IF p = d THEN saved[p] ELSE Larger(saved[p], vs[p])]

Versions(C) == [p \in Peers |-> C[p].ver]

\* build_route_info and build_conn_peer_list: the entries worth sending among
\* those the time stamps do not exclude, ...
Candidates(saved, old, d, vs) ==
    {p \in Peers \ old : ~UpToDate(saved, d, p, vs[p])}

\* ... the unreachable ones remembered for later, ...
Unreachable(unr, saved, old, d, vs, R) ==
    [p \in Peers |->
        LET u == IF p \in Candidates(saved, old, d, vs) \ R
                 THEN vs[p] ELSE unr[p]
        IN  IF UpToDate(saved, d, p, u) \/ vs[p] = 0 THEN 0 ELSE u]

\* ... and the peers whose entries are put in the request.
ToSend(unr, saved, old, d, vs, R) ==
    (Candidates(saved, old, d, vs) \cap R)
    \cup {p \in R : Unreachable(unr, saved, old, d, vs, R)[p] > 0}

\* A database change stamps the entries with the current time: no session of
\* the node skips them any more and no call in flight covers them.
TouchForgotten(S, I, C) == S
Touch(S, I, C) ==
    IF S = NoSession THEN S
    ELSE [S EXCEPT !.oldInfo = @ \ I, !.oldConn = @ \ C]

TouchCallForgotten(c, n, I, C) == c
TouchCall(c, n, I, C) ==
    IF c.from # n THEN c
    ELSE [c EXCEPT !.freshInfo = @ \cup I, !.freshConn = @ \cup C]
-----------------------------------------------------------------------------
\* Node n replaces its database by I and C, changed in the entries chI and
\* chC; S are its sessions and K the calls in flight apart from the time
\* stamps.  The rebuild of the route table and of the cached bitmap follows as
\* the job of task w, while other tasks go on.
ChangeDb(n, w, I, C, S, K) ==
    LET chI == {p \in Peers : I[p] # info[n][p]}
        chC == {p \in Peers : C[p] # conn[n][p]}
        v   == IF chI \cup chC = {} THEN dbv[n] ELSE dbv[n] + 1
    IN  /\ info' = [info EXCEPT ![n] = I]
        /\ conn' = [conn EXCEPT ![n] = C]
        /\ sess' = [sess EXCEPT ![n] =
                        [d \in Peers |-> Touch(S[d], chI, chC)]]
        /\ calls' = {TouchCall(c, n, chI, chC) : c \in K}
        /\ job' = [job EXCEPT ![n][w] = Due]
        /\ dbv' = [dbv EXCEPT ![n] = v]
        /\ UNCHANGED <<reach, cached>>

\* update_my_peer_info: a field of my RoutePeerInfo changed.
UpdateMyPeerInfo(n) ==
    /\ job[n]["self"] = Idle
    /\ info[n][n] < MaxInfoVer
    /\ ChangeDb(n, "self", [info[n] EXCEPT ![n] = @ + 1], conn[n], sess[n],
                calls)
    /\ UNCHANGED <<nbr, faults, expired, published>>

\* update_my_conn_info: the interface lists other peers than last time.
UpdateMyConnInfo(n) ==
    LET v == conn[n][n].ver + 1
    IN  /\ job[n]["self"] = Idle
        /\ conn[n][n].peers # nbr[n]
        /\ v <= MaxConnVer
        /\ ChangeDb(n, "self", info[n],
                    [conn[n] EXCEPT ![n] = [ver |-> v, peers |-> nbr[n]]],
                    sess[n], calls)
        /\ published' = [published EXCEPT ![n] = @ \cup {<<v, nbr[n]>>}]
        /\ UNCHANGED <<nbr, faults, expired>>

\* Peers whose info was updated within REMOVE_DEAD_PEER_INFO_AFTER: a node
\* renews its own every UPDATE_PEER_INFO_PERIOD, which is shorter.
Renewed(n) == IF Unrenewed THEN {n} ELSE Peers

\* clear_expired_peer: what was not renewed is removed, and so are unreachable
\* peers whose info was last updated more than
\* REMOVE_UNREACHABLE_PEER_INFO_AFTER ago, however short the time they have
\* been unreachable.
ClearExpiredPeer(n, X) ==
    /\ job[n]["self"] = Idle
    /\ expired < MaxExpired
    /\ X # {} /\ X \cap Renewed(n) \cap reach[n] = {}
    /\ \A p \in X : info[n][p] > 0 \/ conn[n][p].ver > 0
    /\ ChangeDb(n, "self",
                [p \in Peers |-> IF p \in X THEN 0 ELSE info[n][p]],
                [p \in Peers |-> IF p \in X THEN NoConn ELSE conn[n][p]],
                sess[n], calls)
    /\ expired' = expired + 1
    /\ UNCHANGED <<nbr, faults, published>>

\* update_route_table_and_cached_local_conn_bitmap, up to the versions of the
\* bitmap.
RebuildTable(n, w) ==
    LET R == Reachable(n, info[n], conn[n])
    IN  /\ job[n][w].stage = "table"
        /\ reach' = [reach EXCEPT ![n] = R]
        /\ job' = [job EXCEPT ![n][w] =
                      [stage |-> "rows", v |-> dbv[n],
                       ids |-> BitmapIds(R, conn[n]),
                       ver |-> BitmapVersions(R, conn[n])]]
        /\ UNCHANGED <<nbr, info, conn, dbv, cached, sess, calls,
                       faults, expired, published>>

\* Its second half: the rows are read under a lock of their own, and the
\* bitmap is kept if it was started at a later version than the cached one.
\* A request handler then answers its call.
RebuildRows(n, w) ==
    LET j == job[n][w]
        b == [ids |-> j.ids, rows |-> BitmapRows(j.ids, j.ver, conn[n])]
        Rebase(k) == IF k.stage = "rows" THEN [k EXCEPT !.v = Ahead(@, j.v)] ELSE k
    IN  /\ j.stage = "rows"
        /\ cached' = IF j.v > 0 THEN [cached EXCEPT ![n] = b] ELSE cached
        /\ dbv' = [dbv EXCEPT ![n] = Ahead(@, j.v)]
        /\ job' = [job EXCEPT ![n] =
                      [u \in Workers |-> IF u = w THEN Idle ELSE Rebase(job[n][u])]]
        /\ calls' = {IF w = "rpc" /\ c.to = n /\ c.phase = "merged"
                     THEN [c EXCEPT !.phase = "resp"] ELSE c : c \in calls}
        /\ UNCHANGED <<nbr, info, conn, reach, sess, faults, expired, published>>
-----------------------------------------------------------------------------
\* build_conn_info: the lists of L are sent one by one when that is shorter and
\* d's info, which holds its feature flag, is known; otherwise the bitmap is.
UsesList(n, d, L) ==
    /\ SupportsList /\ info[n][d] > 0
    /\ ListSize(L, conn[n]) < BitmapSize(cached[n].ids)

\* sync_route_with_peer up to the RPC.  It is called with a payload, or with
\* none to announce the initiator flag (force).  A call to a peer that is no
\* longer connected fails and leaves both sides as they were.
SyncRouteWithPeer(n, d, force) ==
    LET S  == sess[n][d]
        vI == info[n]
        vC == Versions(conn[n])
        sI == ToSend(S.unrInfo, S.savedInfo, S.oldInfo, d, vI, reach[n])
        sC == ToSend(S.unrConn, S.savedConn, S.oldConn, d, vC, reach[n])
        rows == IF sC = {} THEN [p \in Peers |-> NoConn]
                ELSE IF UsesList(n, d, sC)
                THEN [p \in Peers |-> IF p \in sC THEN conn[n][p] ELSE NoConn]
                ELSE cached[n].rows
    IN  /\ S # NoSession /\ d \in nbr[n]
        /\ Cardinality(calls) < MaxCalls
        /\ ~ \E c \in calls : c.from = n /\ c.to = d /\ c.sid = S.sid /\ c.waiting
        /\ ~ \E c \in calls : c.to = n /\ c.from = d /\ c.phase = "merged"
        /\ sI # {} \/ sC # {} \/ force
        /\ sess' = [sess EXCEPT ![n][d] =
                [S EXCEPT !.unrInfo = Unreachable(S.unrInfo, S.savedInfo,
                                          S.oldInfo, d, vI, reach[n]),
                          !.unrConn = Unreachable(S.unrConn, S.savedConn,
                                          S.oldConn, d, vC, reach[n])]]
        /\ calls' = calls \cup
              {[from |-> n, to |-> d, sid |-> S.sid,
                phase |-> "req", waiting |-> TRUE, rsid |-> 0,
                infos |-> [p \in Peers |-> IF p \in sI THEN vI[p] ELSE 0],
                rows |-> rows, conns |-> sC # {},
                freshInfo |-> {}, freshConn |-> {}]}
        /\ UNCHANGED <<nbr, info, conn, dbv, reach, cached, job, faults,
                       expired, published>>

\* do_sync_route_info up to the rebuild: the session is found or created, the
\* entries with a larger version are taken over, and the session learns what
\* the sender holds.
DoSyncRouteInfo(c) ==
    LET n  == c.to
        S0 == IF sess[n][c.from] = NoSession THEN NewSession(FreshSid(n, c.from))
              ELSE sess[n][c.from]
        S1 == UpdateDstSessionId(S0, c.sid)
        S2 == [S1 EXCEPT !.savedInfo = Saved(@, c.from, c.infos),
                         !.savedConn = Saved(@, c.from, Versions(c.rows))]
        some == c.conns \/ \E p \in Peers : c.infos[p] > 0
        I  == [p \in Peers |-> MergeInfo(info[n][p], c.infos[p])]
        C  == [p \in Peers |-> MergeConn(conn[n][p], c.rows[p])]
        done == [c EXCEPT !.rsid = S0.sid,
                          !.phase = IF some THEN "merged" ELSE "resp"]
        K  == (calls \ {c}) \cup {done}
        SS == [sess[n] EXCEPT ![c.from] = S2]
    IN  /\ c.phase = "req" /\ c.from \in nbr[n]
        /\ job[n]["rpc"] = Idle
        /\ FreshSids(n, c.from) # {}
        /\ IF some
           THEN ChangeDb(n, "rpc", I, C, SS, K)
           ELSE /\ sess' = [sess EXCEPT ![n] = SS]
                /\ calls' = K
                /\ UNCHANGED <<info, conn, dbv, reach, cached, job>>
        /\ UNCHANGED <<nbr, faults, expired, published>>

\* sync_route_with_peer after a successful RPC.  A session that was replaced
\* in the meantime is not the one the task holds.
SyncRouteDone(c) ==
    LET S == sess[c.from][c.to]
        T == UpdateDstSessionId(S, c.rsid)
    IN  /\ c.phase = "resp" /\ c.to \in nbr[c.from]
        /\ calls' = calls \ {c}
        /\ IF c.waiting /\ S.sid = c.sid
           THEN sess' = [sess EXCEPT ![c.from][c.to] =
                    [T EXCEPT !.savedInfo = Saved(@, c.to, c.infos),
                              !.savedConn = Saved(@, c.to, Versions(c.rows)),
                              !.oldInfo = Peers \ c.freshInfo,
                              !.oldConn = Peers \ c.freshConn]]
           ELSE UNCHANGED sess
        /\ UNCHANGED <<nbr, info, conn, dbv, reach, cached, job,
                       faults, expired, published>>
-----------------------------------------------------------------------------
\* get_or_start_session for a directly connected peer
StartSession(n, d) ==
    /\ d \in nbr[n]
    /\ sess[n][d] = NoSession
    /\ FreshSids(n, d) # {}
    /\ sess' = [sess EXCEPT ![n][d] = NewSession(FreshSid(n, d))]
    /\ UNCHANGED <<nbr, info, conn, dbv, reach, cached, job, calls, faults,
                   expired, published>>

\* stop_session: the peer is gone, or neither side is the initiator any more
StopSession(n, d) ==
    /\ sess[n][d] # NoSession
    /\ IF d \in nbr[n] THEN faults < MaxFaults /\ faults' = faults + 1
       ELSE UNCHANGED faults
    /\ sess' = [sess EXCEPT ![n][d] = NoSession]
    /\ UNCHANGED <<nbr, info, conn, dbv, reach, cached, job, calls,
                   expired, published>>

\* clean_dst_saved_map: entries that no build looked at for 60 seconds
CleanDstSavedMap(n, d) ==
    LET S == sess[n][d]
        Clean(saved, old, unr) ==
            [p \in Peers |-> IF p \in old /\ unr[p] = 0 THEN 0 ELSE saved[p]]
    IN  /\ S # NoSession
        /\ expired < MaxExpired
        /\ expired' = expired + 1
        /\ sess' = [sess EXCEPT ![n][d] =
              [S EXCEPT !.savedInfo = Clean(@, S.oldInfo, S.unrInfo),
                        !.savedConn = Clean(@, S.oldConn, S.unrConn)]]
        /\ UNCHANGED <<nbr, info, conn, dbv, reach, cached, job, calls,
                       faults, published>>

\* The RPC's 3000 ms pass: the caller gives up, the request may still arrive.
\* Between peers that are connected this is a fault.
CallTimeout(c) ==
    /\ c.waiting
    /\ IF c.to \in nbr[c.from] THEN faults < MaxFaults /\ faults' = faults + 1
       ELSE UNCHANGED faults
    /\ calls' = (calls \ {c}) \cup {[c EXCEPT !.waiting = FALSE]}
    /\ UNCHANGED <<nbr, info, conn, dbv, reach, cached, job, sess,
                   expired, published>>

\* A message nobody waits for any more is lost.
CallLost(c) ==
    /\ ~c.waiting /\ c.phase # "merged"
    /\ calls' = calls \ {c}
    /\ UNCHANGED <<nbr, info, conn, dbv, reach, cached, job, sess,
                   faults, expired, published>>

\* The interface's peers change (peer_map).
Connect(n, d) ==
    /\ {n, d} \in Links /\ n # d /\ d \notin nbr[n]
    /\ conn[n][n].ver < MaxConnVer /\ conn[d][d].ver < MaxConnVer
    /\ nbr' = [nbr EXCEPT ![n] = @ \cup {d}, ![d] = @ \cup {n}]
    /\ UNCHANGED <<info, conn, dbv, reach, cached, job, sess, calls,
                   faults, expired, published>>

Disconnect(n, d) ==
    /\ d \in nbr[n]
    /\ conn[n][n].ver < MaxConnVer /\ conn[d][d].ver < MaxConnVer
    /\ faults < MaxFaults
    /\ faults' = faults + 1
    /\ nbr' = [nbr EXCEPT ![n] = @ \ {d}, ![d] = @ \ {n}]
    /\ UNCHANGED <<info, conn, dbv, reach, cached, job, sess, calls,
                   expired, published>>
-----------------------------------------------------------------------------
\* PeerRoute::start runs update_my_infos once before any session exists.
Init ==
    /\ nbr = [n \in Peers |-> {}]
    /\ info = [n \in Peers |-> [p \in Peers |-> IF p = n THEN 1 ELSE 0]]
    /\ conn = [n \in Peers |-> [p \in Peers |->
                  IF p = n THEN [ver |-> 1, peers |-> {}] ELSE NoConn]]
    /\ dbv = [n \in Peers |-> 0]
    /\ reach = [n \in Peers |-> {n}]
    /\ cached = [n \in Peers |-> Bitmap({n}, conn[n])]
    /\ job = [n \in Peers |-> [w \in Workers |-> Idle]]
    /\ sess = [n \in Peers |-> [d \in Peers |-> NoSession]]
    /\ calls = {}
    /\ faults = 0
    /\ expired = 0
    /\ published = [p \in Peers |-> {<<1, {}>>}]

Sync(n, d) == \E force \in Forced : SyncRouteWithPeer(n, d, force)

Next ==
    \/ \E n \in Peers : UpdateMyPeerInfo(n)
    \/ \E n \in Peers : UpdateMyConnInfo(n)
    \/ \E n \in Peers, X \in SUBSET Peers : ClearExpiredPeer(n, X)
    \/ \E n \in Peers, w \in Workers : RebuildTable(n, w)
    \/ \E n \in Peers, w \in Workers : RebuildRows(n, w)
    \/ \E n, d \in Peers : Sync(n, d)
    \/ \E c \in calls : DoSyncRouteInfo(c)
    \/ \E c \in calls : SyncRouteDone(c)
    \/ \E n, d \in Peers : StartSession(n, d)
    \/ \E n, d \in Peers : StopSession(n, d)
    \/ \E n, d \in Peers : CleanDstSavedMap(n, d)
    \/ \E c \in calls : CallTimeout(c)
    \/ \E c \in calls : CallLost(c)
    \/ \E n, d \in Peers : Connect(n, d)
    \/ \E n, d \in Peers : Disconnect(n, d)

Spec == Init /\ [][Next]_vars

\* The steps the node's own tasks take without being asked: session_task,
\* maintain_sessions, update_my_peer_info_routine and the RPC handlers.
TaskStep ==
    \/ \E n \in Peers : UpdateMyConnInfo(n)
    \/ \E n \in Peers, w \in Workers : RebuildTable(n, w) \/ RebuildRows(n, w)
    \/ \E n, d \in Peers :
        \/ StartSession(n, d)
        \/ d \notin nbr[n] /\ StopSession(n, d)
        \/ SyncRouteWithPeer(n, d, FALSE)
    \/ \E c \in calls :
        \/ DoSyncRouteInfo(c)
        \/ SyncRouteDone(c)
        \/ c.to \notin nbr[c.from] /\ CallTimeout(c)

\* The tasks are loops on a running runtime: while one of them has something
\* to do, one of them eventually does it.
FairSpec == Spec /\ WF_vars(TaskStep)
-----------------------------------------------------------------------------
Versioned == [ver : Nat, peers : SUBSET Peers]
Sessions ==
    [sid : Nat \ {0}, dsid : Nat, savedInfo : [Peers -> Nat],
     savedConn : [Peers -> Nat], oldInfo : SUBSET Peers,
     oldConn : SUBSET Peers, unrInfo : [Peers -> Nat],
     unrConn : [Peers -> Nat]]
Calls ==
    [from : Peers, to : Peers, sid : Nat \ {0},
     phase : {"req", "merged", "resp"}, waiting : BOOLEAN, rsid : Nat,
     infos : [Peers -> Nat],
     rows : [Peers -> Versioned], conns : BOOLEAN,
     freshInfo : SUBSET Peers, freshConn : SUBSET Peers]
Jobs == [stage : {"idle", "table", "rows"}, v : Nat, ids : SUBSET Peers,
         ver : [Peers -> Nat]]

\* Databases, sessions, calls and rebuild jobs keep their shape; in
\* particular no rebuild ever counts behind the cached bitmap's version.
TypeOK ==
    /\ nbr \in [Peers -> SUBSET Peers]
    /\ info \in [Peers -> [Peers -> Nat]]
    /\ conn \in [Peers -> [Peers -> Versioned]]
    /\ dbv \in [Peers -> Nat]
    /\ reach \in [Peers -> SUBSET Peers]
    /\ cached \in [Peers -> [ids : SUBSET Peers, rows : [Peers -> Versioned]]]
    /\ job \in [Peers -> [Workers -> Jobs]]
    /\ sess \in [Peers -> [Peers -> Sessions \cup {NoSession}]]
    /\ calls \in SUBSET Calls
    /\ faults \in Nat /\ expired \in Nat
    /\ published \in [Peers -> SUBSET (Nat \X SUBSET Peers)]

\* Flooding never runs ahead of its source: no database holds a version of
\* p's entries that p itself has not reached (update_peer_infos and
\* update_conn_info_one_peer take over whatever is larger).
VersionsFromOwner ==
    \A n, p \in Peers :
        /\ info[n][p] <= info[p][p]
        /\ conn[n][p].ver <= conn[p][p].ver

\* An entry is what its owner published, or part of a later publication.
Genuine(P, e) ==
    e.ver > 0 => \/ <<e.ver, e.peers>> \in P
                 \/ \E q \in P : q[1] > e.ver /\ e.peers \subseteq q[2]

\* The versions of a bitmap and its rows are read under two locks, so that a
\* database may come to hold a version with a list its owner never gave it; but
\* an older list never hides behind a newer version, where no later update
\* would replace it.  Stated up to the first expiry: one that falls between the
\* two reads leaves an empty list under the version of the removed entry.
ListNotOlderThanVersion ==
    expired = 0 => \A n, p \in Peers : Genuine(published[p], conn[n][p])

\* A session never believes its peer holds more than it does: what
\* dst_saved_peer_info_versions and dst_saved_conn_info_version record was
\* taken over by the peer, or came from it.
SavedIsHeld ==
    \A n, d, p \in Peers :
        LET S == sess[n][d]
        IN  S # NoSession => /\ S.savedInfo[p] <= info[d][p]
                             /\ S.savedConn[p] <= conn[d][p].ver

\* What the time stamps make a session skip, its peer already holds: the infos,
\* which a request takes from the database itself, ...
SkippedInfoIsHeld ==
    \A n, d, p \in Peers :
        LET S == sess[n][d]
        IN  S # NoSession /\ p # d /\ p \in S.oldInfo /\ S.unrInfo[p] = 0
                => info[d][p] >= info[n][p]

\* ... and the neighbour lists, which it may take from the cached bitmap.
SkippedListIsHeld ==
    \A n, d, p \in Peers :
        LET S == sess[n][d]
        IN  S # NoSession /\ p # d /\ p \in S.oldConn /\ S.unrConn[p] = 0
                => conn[d][p].ver >= conn[n][p].ver

\* Peers in the same component of the graph of links
Linked(n, p) ==
    \A S \in SUBSET Peers :
        n \in S /\ (\A q \in S : nbr[q] \subseteq S) => p \in S

\* Once links and sessions stop failing, every node ends up with every linked
\* peer's current info, and announces the neighbours it has.
InfosConverge ==
    <>[](\A n, p \in Peers : Linked(n, p) => /\ info[n][p] = info[p][p]
                                            /\ conn[p][p].peers = nbr[p])

\* It ends up with every linked peer's current neighbour list as well, unless
\* some session goes on skipping a list that its peer does not hold.
ListsConverge ==
    <>[]SkippedListIsHeld =>
        <>[](\A n, p \in Peers : Linked(n, p) => conn[n][p] = conn[p][p])
=============================================================================
