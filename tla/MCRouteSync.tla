---------------------------- MODULE MCRouteSync ----------------------------
(***************************************************************************)
(* RouteSync started in a network that has run for a while, so that a loss *)
(* and what follows it fit in small bounds.  A node's list has an even     *)
(* version when it names its neighbours and an odd one when it is empty.   *)
(* The starts differ in how much the bounds leave the nodes to do: node 1  *)
(* may change its list more than once, the other nodes only once.          *)
(***************************************************************************)
EXTENDS RouteSync

Line(n) == {m \in Peers : m = n + 1 \/ n = m + 1}
Entry(p, v) == [ver |-> v, peers |-> IF v % 2 = 0 THEN Line(p) ELSE {}]
Past(p, v) == {<<u, Entry(p, u).peers>> : u \in 1..v}

\* The network has settled: the peers form a line, every node holds everybody's
\* entries, and the two sessions of each link have nothing left to send.  Only
\* node 1 has an info to change, and MaxConnVer is odd.
InfoVer(p) == IF p = 1 THEN 1 ELSE MaxInfoVer
ConnVer(p) == IF p = 1 THEN 2 ELSE MaxConnVer - 1

SettledSession(d) ==
    [sid |-> 1, dsid |-> 1,
     savedInfo |-> [p \in Peers |-> IF p = d THEN 0 ELSE InfoVer(p)],
     savedConn |-> [p \in Peers |-> IF p = d THEN 0 ELSE ConnVer(p)],
     oldInfo |-> Peers, oldConn |-> Peers, unrInfo |-> Zero, unrConn |-> Zero]

SettledInit ==
    /\ nbr = [n \in Peers |-> Line(n)]
    /\ info = [n \in Peers |-> [p \in Peers |-> InfoVer(p)]]
    /\ conn = [n \in Peers |-> [p \in Peers |-> Entry(p, ConnVer(p))]]
    /\ dbv = [n \in Peers |-> 0]
    /\ reach = [n \in Peers |-> Peers]
    /\ cached = [n \in Peers |-> Bitmap(Peers, conn[n])]
    /\ job = [n \in Peers |-> [w \in Workers |-> Idle]]
    /\ sess = [n \in Peers |-> [d \in Peers |->
                  IF d \in Line(n) THEN SettledSession(d) ELSE NoSession]]
    /\ calls = {}
    /\ faults = 0
    /\ expired = 0
    /\ published = [p \in Peers |-> Past(p, ConnVer(p))]

SettledFairSpec == SettledInit /\ [][Next]_vars /\ WF_vars(TaskStep)

\* The peers of the line have just been connected: node 1 has noticed, the
\* others, which have lost an earlier connection, have not.  No session has
\* started, and nobody knows anything of the others.  MaxConnVer is even.
MetVer(p) == IF p = 1 THEN 2 ELSE MaxConnVer - 1

MetInit ==
    /\ nbr = [n \in Peers |-> Line(n)]
    /\ info = [n \in Peers |-> [p \in Peers |-> IF p = n THEN 1 ELSE 0]]
    /\ conn = [n \in Peers |-> [p \in Peers |->
                  IF p = n THEN Entry(p, MetVer(p)) ELSE NoConn]]
    /\ dbv = [n \in Peers |-> 0]
    /\ reach = [n \in Peers |-> {n}]
    /\ cached = [n \in Peers |-> Bitmap({n}, conn[n])]
    /\ job = [n \in Peers |-> [w \in Workers |-> Idle]]
    /\ sess = [n \in Peers |-> [d \in Peers |-> NoSession]]
    /\ calls = {}
    /\ faults = 0
    /\ expired = 0
    /\ published = [p \in Peers |-> Past(p, MetVer(p))]

MetSpec == MetInit /\ [][Next]_vars
=============================================================================
