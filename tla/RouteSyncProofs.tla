-------------------------- MODULE RouteSyncProofs ---------------------------
(***************************************************************************)
(* The safety properties of RouteSync: versions come from their owners, a  *)
(* session never believes its peer holds more than it does, and no list is *)
(* older than the version it is stored under.                              *)
(***************************************************************************)
EXTENDS RouteSyncTypes

\* Most leaves of these proofs are first-order, and Zenon is their prover.  A leaf
\* that needs arithmetic, or more of functions and records, names SMT.
USE Zenon

\* A node always knows itself: clear_expired_peer spares what is reachable.
OwnReachable == \A n \in Peers : info[n][n] > 0 /\ n \in reach[n]

\* What bitmaps, half-done rebuilds and calls in flight say of p's versions is
\* bounded by p's own as well.
InFlightFromOwner ==
    /\ \A n, p \in Peers : cached[n].rows[p].ver <= conn[p][p].ver
    /\ \A n, p \in Peers, w \in Workers : job[n][w].ver[p] <= conn[p][p].ver
    /\ \A c \in calls, p \in Peers : /\ c.infos[p] <= info[p][p]
                                     /\ c.rows[p].ver <= conn[p][p].ver

OwnerInv == TypeOK /\ OwnReachable /\ VersionsFromOwner /\ InFlightFromOwner

LEMMA SelfReachable ==
    ASSUME NEW n \in Peers, NEW I \in [Peers -> Nat], NEW C, I[n] > 0
    PROVE  n \in Reachable(n, I, C)
BY DEF Reachable

\* One node changes its database: its own entries do not go back, the others
\* stay within what their owners have reached.
LEMMA OwnerDbStep ==
    ASSUME OwnerInv, TypeOK',
           NEW n \in Peers, NEW w \in Workers,
           NEW I \in [Peers -> Nat], NEW C \in [Peers -> Versioned],
           info' = [info EXCEPT ![n] = I],
           conn' = [conn EXCEPT ![n] = C],
           reach' = reach,
           cached' = cached,
           job' = job \/ job' = [job EXCEPT ![n][w] = Due],
           \A k \in calls' : \E c \in calls :
                k.infos = c.infos /\ k.rows = c.rows,
           \A p \in Peers : p # n => /\ I[p] <= info[p][p]
                                     /\ C[p].ver <= conn[p][p].ver,
           info[n][n] <= I[n], conn[n][n].ver <= C[n].ver
    PROVE  OwnerInv'
<1>1. /\ TypeOK /\ OwnReachable /\ VersionsFromOwner /\ InFlightFromOwner
  BY DEF OwnerInv
<1>2. /\ info \in [Peers -> [Peers -> Nat]]
      /\ conn \in [Peers -> [Peers -> Versioned]]
      /\ reach \in [Peers -> SUBSET Peers]
      /\ cached \in [Peers -> [ids : SUBSET Peers, rows : [Peers -> Versioned]]]
      /\ job \in [Peers -> [Workers -> Jobs]]
  BY <1>1 DEF TypeOK
<1>3. /\ info'[n] = I /\ conn'[n] = C
      /\ \A m \in Peers : m # n => info'[m] = info[m] /\ conn'[m] = conn[m]
  BY SMT, <1>2
<1>4. \A p \in Peers : /\ info[p][p] \in Nat /\ conn[p][p].ver \in Nat
                       /\ info'[p][p] \in Nat /\ conn'[p][p].ver \in Nat
  BY <1>1, VersionTypes, VersionTypesNext DEF VersionsAreNat
<1>5. \A p \in Peers : /\ info[p][p] <= info'[p][p]
                       /\ conn[p][p].ver <= conn'[p][p].ver
  BY SMT, <1>3, <1>4
<1>6. ASSUME NEW m \in Peers, NEW p \in Peers
      PROVE  info'[m][p] <= info'[p][p] /\ conn'[m][p].ver <= conn'[p][p].ver
  <2>1. /\ info[m][p] \in Nat /\ conn[m][p].ver \in Nat
        /\ info'[m][p] \in Nat /\ conn'[m][p].ver \in Nat
        /\ info[m][p] <= info[p][p] /\ conn[m][p].ver <= conn[p][p].ver
    BY <1>1, VersionTypes, VersionTypesNext DEF VersionsAreNat, VersionsFromOwner
  <2>2. CASE m # n
    BY SMT, <1>3, <1>4, <1>5, <2>1, <2>2
  <2>3. CASE m = n /\ p # n
    BY SMT, <1>3, <1>4, <1>5, <2>1, <2>3
  <2>4. CASE m = n /\ p = n
    BY SMT, <1>4, <2>4
  <2> QED BY <2>2, <2>3, <2>4
<1>7. ASSUME NEW m \in Peers
      PROVE  info'[m][m] > 0 /\ m \in reach'[m]
  <2>1. info[m][m] > 0 /\ m \in reach[m]
    BY <1>1 DEF OwnReachable
  <2>2. info'[m][m] > 0
    BY SMT, <1>4, <1>5, <2>1
  <2> QED BY <2>1, <2>2
<1>8. \A p \in Peers : C[p].ver \in Nat /\ C[p].ver <= conn'[p][p].ver
  <2>1. ASSUME NEW p \in Peers
        PROVE  C[p].ver \in Nat /\ C[p].ver <= conn'[p][p].ver
    <3>1. C[p].ver \in Nat
      BY DEF Versioned
    <3> QED BY <1>3, <1>6, <3>1
  <2> QED BY <2>1
<1>9. ASSUME NEW m \in Peers, NEW p \in Peers
      PROVE  cached'[m].rows[p].ver <= conn'[p][p].ver
  <2>1. /\ cached[m].rows[p].ver \in Nat
        /\ cached'[m].rows[p].ver \in Nat
        /\ cached[m].rows[p].ver <= conn[p][p].ver
    BY <1>1, VersionTypes, VersionTypesNext DEF VersionsAreNat, InFlightFromOwner
  <2> QED BY SMT, <1>4, <1>5, <2>1
<1>10. ASSUME NEW m \in Peers, NEW p \in Peers, NEW u \in Workers
       PROVE  job'[m][u].ver[p] <= conn'[p][p].ver
  <2>1. /\ job[m][u].ver[p] \in Nat
        /\ job[m][u].ver[p] <= conn[p][p].ver
    BY <1>1, VersionTypes DEF VersionsAreNat, InFlightFromOwner
  <2>2. CASE job'[m][u] = job[m][u]
    BY SMT, <1>4, <1>5, <2>1, <2>2
  <2>3. CASE job'[m][u] = Due
    <3>1. Due.ver[p] = 0
      BY DEF Due, Zero
    <3> QED BY SMT, <1>4, <2>3, <3>1
  <2>4. job'[m][u] = job[m][u] \/ job'[m][u] = Due
    <3>1. CASE job' = [job EXCEPT ![n][w] = Due] /\ m = n
      <4>1. job'[m] = [job[n] EXCEPT ![w] = Due] /\ job[n] \in [Workers -> Jobs]
        BY SMT, <1>2, <3>1
      <4> QED BY SMT, <3>1, <4>1
    <3>2. CASE job' = [job EXCEPT ![n][w] = Due] /\ m # n
      BY SMT, <1>2, <3>2
    <3> QED BY <3>1, <3>2
  <2> QED BY <2>2, <2>3, <2>4
<1>11. ASSUME NEW k \in calls', NEW p \in Peers
       PROVE  k.infos[p] <= info'[p][p] /\ k.rows[p].ver <= conn'[p][p].ver
  <2>1. PICK c \in calls : k.infos = c.infos /\ k.rows = c.rows
    OBVIOUS
  <2>2. /\ c.infos[p] \in Nat /\ c.rows[p].ver \in Nat
        /\ c.infos[p] <= info[p][p] /\ c.rows[p].ver <= conn[p][p].ver
    BY <1>1, VersionTypes DEF VersionsAreNat, InFlightFromOwner
  <2> QED BY SMT, <1>4, <1>5, <2>1, <2>2
<1>12. OwnReachable'
  BY <1>7 DEF OwnReachable
<1>13. VersionsFromOwner'
  BY <1>6 DEF VersionsFromOwner
<1>14. InFlightFromOwner'
  BY <1>9, <1>10, <1>11 DEF InFlightFromOwner
<1> QED
  BY <1>12, <1>13, <1>14 DEF OwnerInv

LEMMA OwnerInit ==
    ASSUME Init
    PROVE  OwnerInv
<1>1. TypeOK
  BY TypeInit
<1>2. OwnReachable
  BY SMT DEF Init, OwnReachable
<1>3. ASSUME NEW n \in Peers, NEW p \in Peers
      PROVE  /\ info[n][p] <= info[p][p]
             /\ conn[n][p].ver <= conn[p][p].ver
             /\ cached[n].rows[p].ver <= conn[p][p].ver
  <2>1. info[n][p] <= info[p][p]
    BY SMT DEF Init
  <2>2. conn[p][p] = [ver |-> 1, peers |-> {}]
        /\ conn[n][p] = IF p = n THEN [ver |-> 1, peers |-> {}] ELSE NoConn
    BY DEF Init
  <2>3. conn[n][p].ver <= conn[p][p].ver /\ conn[n][p].ver \in Nat
    BY SMT, <2>2 DEF NoConn
  <2>4. conn[n] \in [Peers -> Versioned] /\ cached[n] = Bitmap({n}, conn[n])
    BY <1>1 DEF TypeOK, Init
  <2>5. cached[n].rows[p].ver <= conn[n][p].ver
    BY <2>4, BitmapBound
  <2>6. cached[n].rows[p].ver \in Nat /\ conn[p][p].ver \in Nat
    BY <1>1, VersionTypes DEF VersionsAreNat
  <2> QED BY SMT, <2>1, <2>3, <2>5, <2>6
<1>4. ASSUME NEW n \in Peers, NEW p \in Peers, NEW w \in Workers
      PROVE  job[n][w].ver[p] <= conn[p][p].ver
  <2>1. job[n][w].ver[p] = 0
    BY DEF Init, Idle, Zero
  <2>2. conn[p][p].ver \in Nat
    BY <1>1, VersionTypes DEF VersionsAreNat
  <2> QED BY SMT, <2>1, <2>2
<1>5. calls = {}
  BY DEF Init
<1> QED
  BY <1>1, <1>2, <1>3, <1>4, <1>5 DEF OwnerInv, VersionsFromOwner, InFlightFromOwner

LEMMA OwnerStep ==
    ASSUME OwnerInv, [Next]_vars
    PROVE  OwnerInv'
<1>0. /\ TypeOK /\ OwnReachable /\ VersionsFromOwner /\ InFlightFromOwner
      /\ VersionsAreNat
  BY VersionTypes DEF OwnerInv
<1>1. TypeOK' /\ VersionsAreNat'
  BY <1>0, TypeStep, VersionTypesNext
<1>2. ASSUME NEW n \in Peers,
             \/ UpdateMyPeerInfo(n)
             \/ UpdateMyConnInfo(n)
             \/ \E X \in SUBSET Peers : ClearExpiredPeer(n, X)
      PROVE  OwnerInv'
  <2>1. PICK I \in [Peers -> Nat], C \in [Peers -> Versioned] :
                /\ ChangeDb(n, "self", I, C, sess[n], calls)
                /\ \A p \in Peers : p # n => /\ I[p] <= info[n][p]
                                             /\ C[p].ver <= conn[n][p].ver
                /\ n \in reach[n] => /\ info[n][n] <= I[n]
                                     /\ conn[n][n].ver <= C[n].ver
    BY <1>0, <1>2, OwnUpdateEffect
  <2>2. "self" \in Workers /\ calls \in SUBSET Calls
        /\ sess[n] \in [Peers -> Sessions \cup {NoSession}]
    BY <1>0 DEF TypeOK, Workers
  <2>3. /\ info' = [info EXCEPT ![n] = I]
        /\ conn' = [conn EXCEPT ![n] = C]
        /\ reach' = reach
        /\ cached' = cached
        /\ job' = job \/ job' = [job EXCEPT ![n]["self"] = Due]
        /\ \A k \in calls' : \E c \in calls : SameCall(k, c)
    BY SMTT(30), <1>0, <2>1, <2>2, ChangeDbEffect
  <2>4. \A k \in calls' : \E c \in calls : k.infos = c.infos /\ k.rows = c.rows
    BY <2>3 DEF SameCall
  <2>5. info[n][n] <= I[n] /\ conn[n][n].ver <= C[n].ver
    BY <1>0, <2>1 DEF OwnReachable
  <2>6. ASSUME NEW p \in Peers, p # n
        PROVE  I[p] <= info[p][p] /\ C[p].ver <= conn[p][p].ver
    <3>1. I[p] \in Nat /\ C[p].ver \in Nat
      BY DEF Versioned
    <3>2. /\ info[n][p] <= info[p][p] /\ conn[n][p].ver <= conn[p][p].ver
          /\ info[n][p] \in Nat /\ conn[n][p].ver \in Nat
          /\ info[p][p] \in Nat /\ conn[p][p].ver \in Nat
      BY <1>0 DEF VersionsFromOwner, VersionsAreNat
    <3> QED BY SMT, <2>1, <2>6, <3>1, <3>2
  <2> QED BY ZenonT(30), <1>1, <2>2, <2>3, <2>4, <2>5, <2>6, OwnerDbStep
<1>3. ASSUME NEW c \in calls, DoSyncRouteInfo(c)
      PROVE  OwnerInv'
  <2>0. c.to \in Peers /\ info'[c.to] \in [Peers -> Nat]
        /\ conn'[c.to] \in [Peers -> Versioned]
    BY <1>0, <1>1 DEF TypeOK, Calls
  <2>1. PICK n \in Peers, I \in [Peers -> Nat], C \in [Peers -> Versioned] :
           n = c.to /\ I = info'[c.to] /\ C = conn'[c.to]
    BY <2>0
  <2>2. /\ info' = [info EXCEPT ![n] =
                         [p \in Peers |-> MergeInfo(info[n][p], c.infos[p])]]
        /\ \/ conn' = [conn EXCEPT ![n] =
                            [p \in Peers |-> MergeConn(conn[n][p], c.rows[p])]]
           \/ conn' = conn
        /\ reach' = reach
        /\ cached' = cached
        /\ job' = job \/ job' = [job EXCEPT ![n]["rpc"] = Due]
        /\ \A k \in calls' :
                \/ \E j \in calls : SameCall(k, j)
                \/ k.infos = c.infos /\ k.rows = c.rows
    <3>1. /\ info' = [info EXCEPT ![c.to] = [p \in Peers |->
                          MergeInfo(info[c.to][p], c.infos[p])]]
          /\ \/ conn' = [conn EXCEPT ![c.to] = [p \in Peers |->
                             MergeConn(conn[c.to][p], c.rows[p])]]
             \/ conn' = conn
          /\ reach' = reach
          /\ cached' = cached
          /\ job' = job \/ job' = [job EXCEPT ![c.to]["rpc"] = Due]
          /\ \A k \in calls' :
                  \/ \E j \in calls : SameCall(k, j)
                  \/ k.infos = c.infos /\ k.rows = c.rows
      BY <1>0, <1>3, DoSyncEffect
    <3>2. QED
      BY <2>1, <3>1
  <2>3. /\ info \in [Peers -> [Peers -> Nat]]
        /\ conn \in [Peers -> [Peers -> Versioned]]
    BY <1>0 DEF TypeOK
  <2>4. info' = [info EXCEPT ![n] = I] /\ conn' = [conn EXCEPT ![n] = C]
    BY <2>1, <2>2, <2>3
  <2>5. ASSUME NEW p \in Peers
        PROVE  /\ I[p] = info[n][p] \/ I[p] = c.infos[p]
               /\ C[p] = conn[n][p] \/ C[p] = c.rows[p]
               /\ info[n][p] <= I[p] /\ conn[n][p].ver <= C[p].ver
    <3>1. I[p] = MergeInfo(info[n][p], c.infos[p])
      BY <2>1, <2>2, <2>3
    <3>2. C[p] = MergeConn(conn[n][p], c.rows[p]) \/ C[p] = conn[n][p]
      BY SMT, <2>1, <2>2, <2>3
    <3>3. /\ info[n][p] \in Nat /\ conn[n][p].ver \in Nat
          /\ c.infos[p] \in Nat /\ c.rows[p].ver \in Nat
      BY <1>0, <2>1 DEF VersionsAreNat
    <3> QED BY SMT, <3>1, <3>2, <3>3 DEF MergeInfo, MergeConn, Larger
  <2>6. ASSUME NEW p \in Peers
        PROVE  I[p] <= info[p][p] /\ C[p].ver <= conn[p][p].ver
    <3>1. /\ info[n][p] <= info[p][p] /\ conn[n][p].ver <= conn[p][p].ver
          /\ c.infos[p] <= info[p][p] /\ c.rows[p].ver <= conn[p][p].ver
      BY <1>0, <2>1 DEF VersionsFromOwner, InFlightFromOwner
    <3> QED BY <2>5, <3>1
  <2>7. \A k \in calls' : \E j \in calls : k.infos = j.infos /\ k.rows = j.rows
    BY <2>2 DEF SameCall
  <2>8. "rpc" \in Workers
    BY DEF Workers
  <2>9. info[n][n] <= I[n] /\ conn[n][n].ver <= C[n].ver
    BY <2>1, <2>5
  <2>10. /\ reach' = reach
         /\ cached' = cached
         /\ job' = job \/ job' = [job EXCEPT ![n]["rpc"] = Due]
    BY <2>2
  <2>11. \A p \in Peers : p # n => /\ I[p] <= info[p][p]
                                   /\ C[p].ver <= conn[p][p].ver
    BY <2>6
  <2> QED BY ZenonT(30), <1>1, <2>4, <2>7, <2>8, <2>9, <2>10, <2>11, OwnerDbStep
<1>4. ASSUME NEW n \in Peers, NEW w \in Workers, RebuildTable(n, w)
      PROVE  OwnerInv'
  <2> DEFINE R == Reachable(n, info[n], conn[n])
             V == BitmapVersions(R, conn[n])
             j == [stage |-> "rows", v |-> dbv[n],
                   ids |-> BitmapIds(R, conn[n]), ver |-> V]
  <2>1. /\ UNCHANGED <<info, conn, cached, calls>>
        /\ reach' = [reach EXCEPT ![n] = R]
        /\ job' = [job EXCEPT ![n][w] = j]
    BY <1>0, <1>4, RebuildTableEffect
  <2>2. /\ info[n] \in [Peers -> Nat] /\ conn[n] \in [Peers -> Versioned]
        /\ reach \in [Peers -> SUBSET Peers]
        /\ job \in [Peers -> [Workers -> Jobs]]
    BY <1>0 DEF TypeOK
  <2>3. n \in R /\ R \in SUBSET Peers
    BY <1>0, <2>2, SelfReachable, ReachableType DEF OwnReachable
  <2>4. OwnReachable'
    <3> HIDE DEF R
    <3> QED BY <1>0, <2>1, <2>2, <2>3 DEF OwnReachable
  <2>5. ASSUME NEW m \in Peers, NEW p \in Peers, NEW u \in Workers
        PROVE  job'[m][u].ver[p] <= conn[p][p].ver
    <3>1. CASE m = n /\ u = w
      <4>1. job'[m][u] = j
        <5> HIDE DEF j
        <5> QED BY <2>1, <2>2, <3>1
      <4>2. j.ver[p] = V[p]
        OBVIOUS
      <4>3. V[p] <= conn[n][p].ver /\ V \in [Peers -> Nat]
        <5> HIDE DEF R
        <5> QED BY <2>2, <2>3, BitmapBound, BitmapType
      <4>4. conn[n][p].ver <= conn[p][p].ver /\ conn[n][p].ver \in Nat
            /\ conn[p][p].ver \in Nat
        BY <1>0 DEF VersionsFromOwner, VersionsAreNat
      <4> HIDE DEF j, V
      <4>5. V[p] \in Nat
        BY <4>3
      <4> QED BY SMT, <4>1, <4>2, <4>3, <4>4, <4>5
    <3>2. CASE ~(m = n /\ u = w)
      <4>1. job'[m][u] = job[m][u]
        <5> HIDE DEF j
        <5> QED BY <2>1, <2>2, <3>2
      <4> QED BY <1>0, <4>1 DEF InFlightFromOwner
    <3> QED BY <3>1, <3>2
  <2>6. InFlightFromOwner' /\ VersionsFromOwner'
    BY <1>0, <2>1, <2>5 DEF InFlightFromOwner, VersionsFromOwner
  <2> QED BY <1>1, <2>4, <2>6 DEF OwnerInv
<1>5. ASSUME NEW n \in Peers, NEW w \in Workers, RebuildRows(n, w)
      PROVE  OwnerInv'
  <2> DEFINE j == job[n][w]
             rows == BitmapRows(j.ids, j.ver, conn[n])
             b == [ids |-> j.ids, rows |-> rows]
  <2>1. /\ UNCHANGED <<info, conn, reach>>
        /\ cached' = cached \/ cached' = [cached EXCEPT ![n] = b]
        /\ \A m \in Peers, u \in Workers :
             job'[m][u] = Idle \/ job'[m][u].ver = job[m][u].ver
        /\ \A k \in calls' : \E c \in calls :
             k.infos = c.infos /\ k.rows = c.rows
    BY <1>0, <1>5, RebuildRowsEffect
  <2>2. cached \in [Peers -> [ids : SUBSET Peers, rows : [Peers -> Versioned]]]
        /\ j \in Jobs
    BY <1>0 DEF TypeOK
  <2>3. ASSUME NEW p \in Peers
        PROVE  rows[p].ver <= conn[p][p].ver
    <3>1. j.ver \in [Peers -> Nat]
      BY <2>2 DEF Jobs
    <3>2. rows[p].ver <= j.ver[p]
      BY <3>1, RowVersion
    <3>3. rows[p].ver \in Nat
      BY <3>1 DEF BitmapRows, NoConn
    <3>4. j.ver[p] <= conn[p][p].ver /\ j.ver[p] \in Nat /\ conn[p][p].ver \in Nat
      BY <1>0 DEF InFlightFromOwner, VersionsAreNat
    <3> HIDE DEF rows, j
    <3> QED BY SMTT(30), <3>2, <3>3, <3>4
  <2>4. ASSUME NEW m \in Peers, NEW p \in Peers
        PROVE  cached'[m].rows[p].ver <= conn[p][p].ver
    <3>1. cached'[m] = cached[m] \/ cached'[m] = b
      <4> HIDE DEF b
      <4> QED BY <2>1, <2>2
    <3>2. b.rows = rows
      OBVIOUS
    <3> HIDE DEF b, rows
    <3> QED BY <1>0, <2>3, <3>1, <3>2 DEF InFlightFromOwner
  <2>5. ASSUME NEW m \in Peers, NEW p \in Peers, NEW u \in Workers
        PROVE  job'[m][u].ver[p] <= conn[p][p].ver
    <3>1. Idle.ver[p] = 0 /\ conn[p][p].ver \in Nat
      BY <1>0 DEF Idle, Zero, VersionsAreNat
    <3> QED BY SMT, <1>0, <2>1, <3>1 DEF InFlightFromOwner
  <2> HIDE DEF b
  <2>6. InFlightFromOwner' /\ VersionsFromOwner' /\ OwnReachable'
    BY <1>0, <2>1, <2>4, <2>5 DEF InFlightFromOwner, VersionsFromOwner, OwnReachable
  <2> QED BY <1>1, <2>6 DEF OwnerInv
<1>6. ASSUME NEW n \in Peers, NEW d \in Peers, NEW force, SyncRouteWithPeer(n, d, force)
      PROVE  OwnerInv'
  <2>1. UNCHANGED <<info, conn, reach, cached, job>>
    BY <1>0, <1>6, SyncEffect
  <2>2. PICK c \in Calls :
                /\ calls' = calls \cup {c}
                /\ \A p \in Peers :
                     /\ c.infos[p] <= info[n][p]
                     /\ \/ c.rows[p] = NoConn
                        \/ c.rows[p] = conn[n][p]
                        \/ c.rows[p] = cached[n].rows[p]
    BY SMT, <1>0, <1>6, SyncEffect
  <2>3. ASSUME NEW p \in Peers
        PROVE  c.infos[p] <= info[p][p] /\ c.rows[p].ver <= conn[p][p].ver
    <3>1. /\ info[n][p] <= info[p][p] /\ conn[n][p].ver <= conn[p][p].ver
          /\ cached[n].rows[p].ver <= conn[p][p].ver
          /\ info[n][p] \in Nat /\ info[p][p] \in Nat /\ conn[p][p].ver \in Nat
      BY <1>0 DEF VersionsFromOwner, InFlightFromOwner, VersionsAreNat
    <3>2. c.infos[p] \in Nat /\ NoConn.ver = 0
      BY DEF Calls, NoConn
    <3> QED BY SMT, <2>2, <3>1, <3>2
  <2>4. InFlightFromOwner' /\ VersionsFromOwner' /\ OwnReachable'
    BY SMT, <1>0, <2>1, <2>2, <2>3 DEF InFlightFromOwner, VersionsFromOwner, OwnReachable
  <2> QED BY <1>1, <2>4 DEF OwnerInv
<1>7. ASSUME UNCHANGED <<info, conn, reach, cached, job>>,
             \A k \in calls' : \E c \in calls :
                k.infos = c.infos /\ k.rows = c.rows
      PROVE  OwnerInv'
  <2>1. ASSUME NEW k \in calls', NEW p \in Peers
        PROVE  k.infos[p] <= info[p][p] /\ k.rows[p].ver <= conn[p][p].ver
    <3>1. PICK c \in calls : k.infos = c.infos /\ k.rows = c.rows
      BY <1>7
    <3> QED BY <1>0, <3>1 DEF InFlightFromOwner
  <2>2. InFlightFromOwner' /\ VersionsFromOwner' /\ OwnReachable'
    BY <1>0, <1>7, <2>1 DEF InFlightFromOwner, VersionsFromOwner, OwnReachable
  <2> QED BY <1>1, <2>2 DEF OwnerInv
<1>8. ASSUME NEW c \in calls, SyncRouteDone(c)
      PROVE  OwnerInv'
  <2>1. UNCHANGED <<info, conn, reach, cached, job>> /\ calls' = calls \ {c}
    BY <1>0, <1>8, DoneEffect
  <2> QED BY <1>7, <2>1
<1>9. CASE \/ \E n, d \in Peers : \/ StartSession(n, d)
                                  \/ StopSession(n, d)
                                  \/ CleanDstSavedMap(n, d)
                                  \/ Connect(n, d)
                                  \/ Disconnect(n, d)
           \/ \E c \in calls : CallTimeout(c) \/ CallLost(c)
           \/ UNCHANGED vars
  <2>1. Quiet
    BY <1>0, <1>9, QuietSteps
  <2> QED BY <1>7, <2>1 DEF Quiet, SameCall
<1> QED
  BY <1>2, <1>3, <1>4, <1>5, <1>6, <1>8, <1>9 DEF Next, Sync

\* Flooding never runs ahead of its source, for any set of peers and links,
\* with lost calls, replaced sessions, removed entries and interleaved
\* rebuilds.
THEOREM VersionsComeFromOwner == Spec => []VersionsFromOwner
<1>1. Init => OwnerInv
  BY OwnerInit
<1>2. OwnerInv /\ [Next]_vars => OwnerInv'
  BY OwnerStep
<1>3. OwnerInv => VersionsFromOwner
  BY DEF OwnerInv
<1> QED
  BY <1>1, <1>2, <1>3, PTL DEF Spec

-----------------------------------------------------------------------------
\* A node holds what its bitmap and its rebuilds state; the sender of a call
\* holds what the call carries and, once it is merged, so does the receiver.
InFlightIsHeld ==
    /\ \A n, p \in Peers : cached[n].rows[p].ver <= conn[n][p].ver
    /\ \A n, p \in Peers, w \in Workers : job[n][w].ver[p] <= conn[n][p].ver
    /\ \A c \in calls : c.conns \/ c.rows = [p \in Peers |-> NoConn]
    /\ \A c \in calls, p \in Peers :
         /\ c.infos[p] <= info[c.from][p]
         /\ c.rows[p].ver <= conn[c.from][p].ver
         /\ c.phase # "req" => /\ c.infos[p] <= info[c.to][p]
                               /\ c.rows[p].ver <= conn[c.to][p].ver

HeldInv == TypeOK /\ SavedIsHeld /\ InFlightIsHeld

\* No database goes back.
Grows ==
    \A n, p \in Peers : /\ info[n][p] <= info'[n][p]
                        /\ conn[n][p].ver <= conn'[n][p].ver

\* The call k was the call c, and if it was merged in this step its receiver
\* now holds what it carries.
FollowsCall(k, c) ==
    /\ k.from = c.from /\ k.to = c.to
    /\ k.infos = c.infos /\ k.rows = c.rows /\ k.conns = c.conns
    /\ \/ k.phase = c.phase
       \/ c.phase # "req"
       \/ \A p \in Peers : /\ c.infos[p] <= info'[c.to][p]
                           /\ c.rows[p].ver <= conn'[c.to][p].ver

LEMMA CallEnds ==
    ASSUME TypeOK, NEW c \in calls
    PROVE  c.from \in Peers /\ c.to \in Peers /\ c \in Calls
BY DEF TypeOK, Calls

\* Calls in flight stay covered while databases grow.
LEMMA CallsHeld ==
    ASSUME HeldInv, TypeOK', Grows,
           \A k \in calls' : \E c \in calls : FollowsCall(k, c)
    PROVE  /\ \A k \in calls' : k.conns \/ k.rows = [p \in Peers |-> NoConn]
           /\ \A k \in calls', p \in Peers :
                /\ k.infos[p] <= info'[k.from][p]
                /\ k.rows[p].ver <= conn'[k.from][p].ver
                /\ k.phase # "req" => /\ k.infos[p] <= info'[k.to][p]
                                      /\ k.rows[p].ver <= conn'[k.to][p].ver
<1>0. TypeOK /\ InFlightIsHeld /\ VersionsAreNat /\ VersionsAreNat'
  BY VersionTypes, VersionTypesNext DEF HeldInv
<1>1. ASSUME NEW k \in calls'
      PROVE  /\ k.conns \/ k.rows = [p \in Peers |-> NoConn]
             /\ \A p \in Peers :
                  /\ k.infos[p] <= info'[k.from][p]
                  /\ k.rows[p].ver <= conn'[k.from][p].ver
                  /\ k.phase # "req" => /\ k.infos[p] <= info'[k.to][p]
                                        /\ k.rows[p].ver <= conn'[k.to][p].ver
  <2>1. PICK c \in calls : FollowsCall(k, c)
    OBVIOUS
  <2>2. /\ k.from = c.from /\ k.to = c.to
        /\ k.infos = c.infos /\ k.rows = c.rows /\ k.conns = c.conns
    BY <2>1 DEF FollowsCall
  <2>3. PICK f \in Peers, t \in Peers : f = c.from /\ t = c.to
    BY <1>0, CallEnds
  <2>4. c.conns \/ c.rows = [p \in Peers |-> NoConn]
    BY <1>0 DEF InFlightIsHeld
  <2>5. ASSUME NEW p \in Peers
        PROVE  /\ k.infos[p] <= info'[f][p]
               /\ k.rows[p].ver <= conn'[f][p].ver
               /\ k.phase # "req" => /\ k.infos[p] <= info'[t][p]
                                     /\ k.rows[p].ver <= conn'[t][p].ver
    <3>1. /\ info[f][p] \in Nat /\ info'[f][p] \in Nat
          /\ info[t][p] \in Nat /\ info'[t][p] \in Nat
          /\ conn[f][p].ver \in Nat /\ conn'[f][p].ver \in Nat
          /\ conn[t][p].ver \in Nat /\ conn'[t][p].ver \in Nat
          /\ c.infos[p] \in Nat /\ c.rows[p].ver \in Nat
      BY <1>0 DEF VersionsAreNat
    <3>2. /\ info[f][p] <= info'[f][p] /\ conn[f][p].ver <= conn'[f][p].ver
          /\ info[t][p] <= info'[t][p] /\ conn[t][p].ver <= conn'[t][p].ver
      BY DEF Grows
    <3>3. /\ c.infos[p] <= info[f][p] /\ c.rows[p].ver <= conn[f][p].ver
          /\ c.phase # "req" => /\ c.infos[p] <= info[t][p]
                                /\ c.rows[p].ver <= conn[t][p].ver
      BY <1>0, <2>3 DEF InFlightIsHeld
    <3>4. \/ k.phase = c.phase
          \/ c.phase # "req"
          \/ /\ c.infos[p] <= info'[t][p]
             /\ c.rows[p].ver <= conn'[t][p].ver
      BY <2>1, <2>3 DEF FollowsCall
    <3> QED BY SMT, <2>2, <3>1, <3>2, <3>3, <3>4
  <2> QED BY <2>2, <2>3, <2>4, <2>5
<1> QED
  BY <1>1

\* One node's database grows, and the rebuild follows at once or later.
LEMMA HeldDbStep ==
    ASSUME HeldInv, TypeOK', SavedIsHeld',
           NEW n \in Peers, NEW w \in Workers,
           NEW I \in [Peers -> Nat], NEW C \in [Peers -> Versioned],
           info' = [info EXCEPT ![n] = I],
           conn' = [conn EXCEPT ![n] = C],
           cached' = cached,
           job' = job \/ job' = [job EXCEPT ![n][w] = Due],
           Grows,
           \A k \in calls' : \E c \in calls : FollowsCall(k, c)
    PROVE  HeldInv'
<1>0. TypeOK /\ InFlightIsHeld /\ VersionsAreNat /\ VersionsAreNat'
  BY VersionTypes, VersionTypesNext DEF HeldInv
<1>1. /\ conn \in [Peers -> [Peers -> Versioned]]
      /\ cached \in [Peers -> [ids : SUBSET Peers, rows : [Peers -> Versioned]]]
      /\ job \in [Peers -> [Workers -> Jobs]]
  BY <1>0 DEF TypeOK
<1>2. ASSUME NEW m \in Peers, NEW p \in Peers
      PROVE  cached'[m].rows[p].ver <= conn'[m][p].ver
  <2>1. /\ cached[m].rows[p].ver \in Nat /\ cached'[m].rows[p].ver \in Nat
        /\ conn[m][p].ver \in Nat /\ conn'[m][p].ver \in Nat
        /\ cached[m].rows[p].ver <= conn[m][p].ver
        /\ conn[m][p].ver <= conn'[m][p].ver
    BY <1>0 DEF VersionsAreNat, InFlightIsHeld, Grows
  <2> QED BY SMT, <2>1
<1>3. ASSUME NEW m \in Peers, NEW p \in Peers, NEW u \in Workers
      PROVE  job'[m][u].ver[p] <= conn'[m][p].ver
  <2>1. /\ job[m][u].ver[p] \in Nat
        /\ conn[m][p].ver \in Nat /\ conn'[m][p].ver \in Nat
        /\ job[m][u].ver[p] <= conn[m][p].ver
        /\ conn[m][p].ver <= conn'[m][p].ver
    BY <1>0 DEF VersionsAreNat, InFlightIsHeld, Grows
  <2>2. CASE job'[m][u] = job[m][u]
    BY SMT, <2>1, <2>2
  <2>3. CASE job'[m][u] = Due
    <3>1. Due.ver[p] = 0
      BY DEF Due, Zero
    <3> QED BY SMT, <2>1, <2>3, <3>1
  <2>4. job'[m][u] = job[m][u] \/ job'[m][u] = Due
    <3>1. CASE job' = [job EXCEPT ![n][w] = Due] /\ m = n
      <4>1. job'[m] = [job[n] EXCEPT ![w] = Due] /\ job[n] \in [Workers -> Jobs]
        BY <1>1, <3>1
      <4> QED BY SMT, <3>1, <4>1
    <3>2. CASE job' = [job EXCEPT ![n][w] = Due] /\ m # n
      BY <1>1, <3>2
    <3> QED BY <3>1, <3>2
  <2> QED BY <2>2, <2>3, <2>4
<1>4. InFlightIsHeld'
  BY <1>2, <1>3, CallsHeld DEF InFlightIsHeld
<1> QED
  BY <1>4 DEF HeldInv

\* Sessions stay covered while databases grow and no session learns more than
\* its peer now holds.
LEMMA SessionsHeld ==
    ASSUME HeldInv, TypeOK', Grows,
           \A m, e \in Peers : sess'[m][e] # NoSession =>
             \A p \in Peers :
               LET T == sess[m][e]
                   U == sess'[m][e]
               IN  /\ \/ T # NoSession /\ U.savedInfo[p] <= T.savedInfo[p]
                      \/ U.savedInfo[p] <= info'[e][p]
                   /\ \/ T # NoSession /\ U.savedConn[p] <= T.savedConn[p]
                      \/ U.savedConn[p] <= conn'[e][p].ver
    PROVE  SavedIsHeld'
<1>0. /\ TypeOK /\ SavedIsHeld /\ VersionsAreNat /\ VersionsAreNat'
      /\ sess \in [Peers -> [Peers -> Sessions \cup {NoSession}]]
      /\ sess' \in [Peers -> [Peers -> Sessions \cup {NoSession}]]
  BY VersionTypes, VersionTypesNext DEF HeldInv, TypeOK
<1>1. ASSUME NEW m \in Peers, NEW e \in Peers, NEW p \in Peers,
             sess'[m][e] # NoSession
      PROVE  /\ sess'[m][e].savedInfo[p] <= info'[e][p]
             /\ sess'[m][e].savedConn[p] <= conn'[e][p].ver
  <2> DEFINE T == sess[m][e]
             U == sess'[m][e]
  <2>1. U \in Sessions
    BY <1>0, <1>1
  <2>2. U.savedInfo[p] \in Nat /\ U.savedConn[p] \in Nat
    BY <2>1 DEF Sessions
  <2>3. T # NoSession => T.savedInfo[p] \in Nat /\ T.savedConn[p] \in Nat
    <3>1. T # NoSession => T \in Sessions
      BY SMT, <1>0
    <3> QED BY <3>1 DEF Sessions
  <2>4. T # NoSession => /\ T.savedInfo[p] <= info[e][p]
                         /\ T.savedConn[p] <= conn[e][p].ver
    BY <1>0 DEF SavedIsHeld
  <2>5. /\ info[e][p] <= info'[e][p] /\ conn[e][p].ver <= conn'[e][p].ver
        /\ info[e][p] \in Nat /\ conn[e][p].ver \in Nat
        /\ info'[e][p] \in Nat /\ conn'[e][p].ver \in Nat
    BY <1>0 DEF Grows, VersionsAreNat
  <2>6. /\ \/ T # NoSession /\ U.savedInfo[p] <= T.savedInfo[p]
           \/ U.savedInfo[p] <= info'[e][p]
        /\ \/ T # NoSession /\ U.savedConn[p] <= T.savedConn[p]
           \/ U.savedConn[p] <= conn'[e][p].ver
    BY <1>1
  <2> HIDE DEF T, U
  <2>7. U.savedInfo[p] <= info'[e][p] /\ U.savedConn[p] <= conn'[e][p].ver
    BY SMT, <2>2, <2>3, <2>4, <2>5, <2>6
  <2> QED BY <2>7 DEF U
<1> QED
  BY <1>1 DEF SavedIsHeld

\* Sessions that keep what they have saved.
LEMMA SameSessionsHeld ==
    ASSUME HeldInv, TypeOK', Grows,
           \A m, e \in Peers : SameSaved(sess'[m][e], sess[m][e])
    PROVE  SavedIsHeld'
<1>1. ASSUME NEW m \in Peers, NEW e \in Peers, NEW p \in Peers,
             sess'[m][e] # NoSession
      PROVE  /\ sess[m][e] # NoSession
             /\ sess'[m][e].savedInfo[p] <= sess[m][e].savedInfo[p]
             /\ sess'[m][e].savedConn[p] <= sess[m][e].savedConn[p]
  <2>1. /\ sess[m][e] # NoSession
        /\ sess'[m][e].savedInfo = sess[m][e].savedInfo
        /\ sess'[m][e].savedConn = sess[m][e].savedConn
    BY <1>1 DEF SameSaved
  <2>2. sess[m][e] \in Sessions
    BY SMT, <2>1 DEF HeldInv, TypeOK
  <2>3. sess[m][e].savedInfo[p] \in Nat /\ sess[m][e].savedConn[p] \in Nat
    BY <2>2 DEF Sessions
  <2> QED BY SMT, <2>1, <2>3
<1> QED
  BY <1>1, SessionsHeld

\* A step that leaves databases, bitmaps and rebuilds alone.
LEMMA HeldQuietStep ==
    ASSUME HeldInv, TypeOK', SavedIsHeld',
           UNCHANGED <<info, conn, cached, job>>,
           \A k \in calls' : \E c \in calls : FollowsCall(k, c)
    PROVE  HeldInv'
<1>1. Grows
  BY VersionTypes, SMTT(30) DEF HeldInv, Grows, VersionsAreNat
<1>2. InFlightIsHeld'
  BY <1>1, CallsHeld DEF InFlightIsHeld, HeldInv
<1> QED
  BY <1>2 DEF HeldInv

LEMMA HeldInit ==
    ASSUME Init
    PROVE  HeldInv
<1>1. TypeOK /\ calls = {} /\ VersionsAreNat
  BY TypeInit, VersionTypes DEF Init
<1>2. SavedIsHeld
  BY DEF Init, SavedIsHeld
<1>3. ASSUME NEW n \in Peers, NEW p \in Peers
      PROVE  cached[n].rows[p].ver <= conn[n][p].ver
  <2>1. conn[n] \in [Peers -> Versioned] /\ cached[n] = Bitmap({n}, conn[n])
    BY <1>1 DEF TypeOK, Init
  <2> QED BY <2>1, BitmapBound
<1>4. ASSUME NEW n \in Peers, NEW p \in Peers, NEW w \in Workers
      PROVE  job[n][w].ver[p] <= conn[n][p].ver
  <2>1. job[n][w].ver[p] = 0
    BY DEF Init, Idle, Zero
  <2> QED BY SMT, <1>1, <2>1 DEF VersionsAreNat
<1> QED
  BY <1>1, <1>2, <1>3, <1>4 DEF HeldInv, InFlightIsHeld

LEMMA HeldStep ==
    ASSUME MaxExpired = 0, HeldInv, [Next]_vars
    PROVE  HeldInv'
<1>0. TypeOK /\ SavedIsHeld /\ InFlightIsHeld /\ VersionsAreNat
  BY VersionTypes DEF HeldInv
<1>1. TypeOK' /\ VersionsAreNat'
  BY <1>0, TypeStep, VersionTypesNext
<1>2. ASSUME NEW n \in Peers,
             \/ UpdateMyPeerInfo(n)
             \/ UpdateMyConnInfo(n)
             \/ \E X \in SUBSET Peers : ClearExpiredPeer(n, X)
      PROVE  HeldInv'
  <2>1. PICK I \in [Peers -> Nat], C \in [Peers -> Versioned] :
                /\ ChangeDb(n, "self", I, C, sess[n], calls)
                /\ \A p \in Peers : /\ info[n][p] <= I[p]
                                    /\ conn[n][p].ver <= C[p].ver
    BY SMT, <1>0, <1>2, OwnUpdateEffect
  <2>2. "self" \in Workers /\ calls \in SUBSET Calls
        /\ sess[n] \in [Peers -> Sessions \cup {NoSession}]
    BY <1>0 DEF TypeOK, Workers
  <2>3. /\ info' = [info EXCEPT ![n] = I]
        /\ conn' = [conn EXCEPT ![n] = C]
        /\ cached' = cached
        /\ job' = job \/ job' = [job EXCEPT ![n]["self"] = Due]
        /\ \A k \in calls' : \E c \in calls : SameCall(k, c)
    BY SMTT(30), <1>0, <2>1, <2>2, ChangeDbEffect
  <2>4. Grows
    <3>1. info \in [Peers -> [Peers -> Nat]]
          /\ conn \in [Peers -> [Peers -> Versioned]]
      BY <1>0 DEF TypeOK
    <3>2. \A m, p \in Peers : info[m][p] \in Nat /\ conn[m][p].ver \in Nat
      BY <1>0 DEF VersionsAreNat
    <3> QED BY SMT, <2>1, <2>3, <3>1, <3>2 DEF Grows
  <2>5. SavedIsHeld'
    <3>0. PICK S \in [Peers -> Sessions \cup {NoSession}] : S = sess[n]
      BY <2>2
    <3>1. ASSUME NEW m \in Peers, NEW d \in Peers
          PROVE  SameSaved(sess'[m][d], sess[m][d])
      <4>1. ChangeDb(n, "self", I, C, S, calls)
        BY <2>1, <3>0
      <4>2. SameSaved(sess'[m][d], IF m = n THEN S[d] ELSE sess[m][d])
        BY <1>0, <2>2, <4>1, ChangeDbEffect
      <4> QED BY <3>0, <4>2
    <3> QED BY <1>1, <2>4, <3>1, SameSessionsHeld
  <2>6. \A k \in calls' : \E c \in calls : FollowsCall(k, c)
    BY SMT, <2>3 DEF SameCall, FollowsCall
  <2> QED BY <1>1, <2>2, <2>3, <2>4, <2>5, <2>6, HeldDbStep
<1>3. ASSUME NEW c \in calls, DoSyncRouteInfo(c)
      PROVE  HeldInv'
  <2>0. /\ c.to \in Peers /\ c.from \in Peers
        /\ info'[c.to] \in [Peers -> Nat] /\ conn'[c.to] \in [Peers -> Versioned]
    BY <1>0, <1>1 DEF TypeOK, Calls
  <2>1. PICK n \in Peers, f \in Peers, I \in [Peers -> Nat],
              C \in [Peers -> Versioned] :
           n = c.to /\ f = c.from /\ I = info'[c.to] /\ C = conn'[c.to]
    BY <2>0
  <2>2. /\ info' = [info EXCEPT ![n] =
                         [p \in Peers |-> MergeInfo(info[n][p], c.infos[p])]]
        /\ \/ conn' = [conn EXCEPT ![n] =
                            [p \in Peers |-> MergeConn(conn[n][p], c.rows[p])]]
           \/ conn' = conn /\ ~c.conns
        /\ cached' = cached
        /\ job' = job \/ job' = [job EXCEPT ![n]["rpc"] = Due]
        /\ \A k \in calls' :
                \/ \E j \in calls : SameCall(k, j)
                \/ /\ k.from = c.from /\ k.to = c.to /\ k.infos = c.infos
                   /\ k.rows = c.rows /\ k.conns = c.conns
    <3>1. /\ info' = [info EXCEPT ![c.to] = [p \in Peers |->
                          MergeInfo(info[c.to][p], c.infos[p])]]
          /\ \/ conn' = [conn EXCEPT ![c.to] = [p \in Peers |->
                             MergeConn(conn[c.to][p], c.rows[p])]]
             \/ conn' = conn /\ ~c.conns
          /\ cached' = cached
          /\ job' = job \/ job' = [job EXCEPT ![c.to]["rpc"] = Due]
          /\ \A k \in calls' :
                  \/ \E j \in calls : SameCall(k, j)
                  \/ /\ k.from = c.from /\ k.to = c.to /\ k.infos = c.infos
                     /\ k.rows = c.rows /\ k.conns = c.conns
      BY <1>0, <1>3, DoSyncEffect
    <3>2. QED
      BY ZenonT(30), <2>1, <3>1
  <2>3. /\ info \in [Peers -> [Peers -> Nat]]
        /\ conn \in [Peers -> [Peers -> Versioned]]
    BY <1>0 DEF TypeOK
  <2>4. info' = [info EXCEPT ![n] = I] /\ conn' = [conn EXCEPT ![n] = C]
    BY ZenonT(30), <2>1, <2>2, <2>3
  <2>5. ASSUME NEW p \in Peers
        PROVE  /\ info[n][p] <= I[p] /\ conn[n][p].ver <= C[p].ver
               /\ c.infos[p] <= I[p] /\ c.rows[p].ver <= C[p].ver
    <3>1. I[p] = MergeInfo(info[n][p], c.infos[p])
      BY <2>1, <2>2, <2>3
    <3>2. \/ C[p] = MergeConn(conn[n][p], c.rows[p])
          \/ C[p] = conn[n][p] /\ ~c.conns
      BY SMT, <2>1, <2>2, <2>3
    <3>3. /\ info[n][p] \in Nat /\ conn[n][p].ver \in Nat
          /\ c.infos[p] \in Nat /\ c.rows[p].ver \in Nat
      BY <1>0 DEF VersionsAreNat
    <3>4. ~c.conns => c.rows[p].ver = 0
      BY SMT, <1>0 DEF InFlightIsHeld, NoConn
    <3> QED BY SMT, <3>1, <3>2, <3>3, <3>4 DEF MergeInfo, MergeConn, Larger
  <2>6. Grows
    <3>1. \A m, p \in Peers : info[m][p] \in Nat /\ conn[m][p].ver \in Nat
      BY <1>0 DEF VersionsAreNat
    <3> QED BY <2>3, <2>4, <2>5, <3>1, SMTT(30) DEF Grows
  <2>7. \A k \in calls' : \E j \in calls : FollowsCall(k, j)
    <3>1. info'[c.to] = I /\ conn'[c.to] = C
      BY <2>1
    <3>2. ASSUME NEW k \in calls'
          PROVE  \E j \in calls : FollowsCall(k, j)
      <4>1. CASE \E j \in calls : SameCall(k, j)
        BY <4>1 DEF SameCall, FollowsCall
      <4>2. CASE /\ k.from = c.from /\ k.to = c.to /\ k.infos = c.infos
                 /\ k.rows = c.rows /\ k.conns = c.conns
        <5>1. FollowsCall(k, c)
          BY <2>5, <3>1, <4>2 DEF FollowsCall
        <5> QED BY <5>1
      <4> QED BY <2>2, <4>1, <4>2
    <3> QED BY <3>2
  <2>8. SavedIsHeld'
    <3>1. ASSUME NEW m \in Peers, NEW e \in Peers, NEW p \in Peers,
                 sess'[m][e] # NoSession
          PROVE  /\ \/ sess[m][e] # NoSession /\ sess'[m][e].savedInfo[p] <= sess[m][e].savedInfo[p]
                    \/ sess'[m][e].savedInfo[p] <= info'[e][p]
                 /\ \/ sess[m][e] # NoSession /\ sess'[m][e].savedConn[p] <= sess[m][e].savedConn[p]
                    \/ sess'[m][e].savedConn[p] <= conn'[e][p].ver
      <4>1. CASE m = n /\ e = f
        <5> DEFINE T == sess[m][e]
                   U == sess'[m][e]
        <5>1. /\ \/ T # NoSession /\ U.savedInfo[p] <= T.savedInfo[p]
                 \/ p # c.from /\ U.savedInfo[p] <= c.infos[p]
                 \/ U.savedInfo[p] = 0
              /\ \/ T # NoSession /\ U.savedConn[p] <= T.savedConn[p]
                 \/ p # c.from /\ U.savedConn[p] <= c.rows[p].ver
                 \/ U.savedConn[p] = 0
          BY <1>0, <1>3, <2>1, <4>1, DoSyncEffect
        <5>2. c.infos[p] <= info[e][p] /\ c.rows[p].ver <= conn[e][p].ver
          BY <1>0, <2>1, <4>1 DEF InFlightIsHeld
        <5>3. /\ info[e][p] <= info'[e][p] /\ conn[e][p].ver <= conn'[e][p].ver
              /\ info[e][p] \in Nat /\ conn[e][p].ver \in Nat
              /\ info'[e][p] \in Nat /\ conn'[e][p].ver \in Nat
              /\ c.infos[p] \in Nat /\ c.rows[p].ver \in Nat
          BY <1>0, <1>1, <2>6 DEF VersionsAreNat, Grows
        <5>4. U \in Sessions
          BY SMT, <1>1, <3>1 DEF TypeOK
        <5>5. U.savedInfo[p] \in Nat /\ U.savedConn[p] \in Nat
          BY <5>4 DEF Sessions
        <5> HIDE DEF T, U
        <5>6. /\ \/ T # NoSession /\ U.savedInfo[p] <= T.savedInfo[p]
                 \/ U.savedInfo[p] <= info'[e][p]
              /\ \/ T # NoSession /\ U.savedConn[p] <= T.savedConn[p]
                 \/ U.savedConn[p] <= conn'[e][p].ver
          BY SMTT(30), <5>1, <5>2, <5>3, <5>5
        <5> QED BY <5>6 DEF T, U
      <4>2. CASE ~(m = n /\ e = f)
        <5>1. SameSaved(sess'[m][e], sess[m][e])
          BY <1>0, <1>3, <2>1, <4>2, DoSyncEffect
        <5>2. /\ sess[m][e] # NoSession
              /\ sess'[m][e].savedInfo = sess[m][e].savedInfo
              /\ sess'[m][e].savedConn = sess[m][e].savedConn
          BY <3>1, <5>1 DEF SameSaved
        <5>3. sess[m][e] \in Sessions
          BY SMT, <1>0, <5>2 DEF TypeOK
        <5>4. sess[m][e].savedInfo[p] \in Nat /\ sess[m][e].savedConn[p] \in Nat
          BY <5>3 DEF Sessions
        <5> QED BY SMTT(30), <5>2, <5>4
      <4> QED BY <4>1, <4>2
    <3> QED BY <1>1, <2>6, <3>1, SessionsHeld
  <2>9. "rpc" \in Workers
    BY DEF Workers
  <2>10. /\ cached' = cached
         /\ job' = job \/ job' = [job EXCEPT ![n]["rpc"] = Due]
    BY <2>2
  <2> QED BY <1>1, <2>4, <2>6, <2>7, <2>8, <2>9, <2>10, HeldDbStep
<1>4. ASSUME NEW n \in Peers, NEW w \in Workers, RebuildTable(n, w)
      PROVE  HeldInv'
  <2> DEFINE R == Reachable(n, info[n], conn[n])
             V == BitmapVersions(R, conn[n])
             j == [stage |-> "rows", v |-> dbv[n],
                   ids |-> BitmapIds(R, conn[n]), ver |-> V]
  <2>1. /\ UNCHANGED <<info, conn, cached, calls, sess>>
        /\ job' = [job EXCEPT ![n][w] = j]
    BY <1>0, <1>4, RebuildTableEffect
  <2>2. /\ conn[n] \in [Peers -> Versioned]
        /\ job \in [Peers -> [Workers -> Jobs]]
    BY <1>0 DEF TypeOK
  <2>3. R \in SUBSET Peers
    BY ReachableType
  <2>4. ASSUME NEW m \in Peers, NEW p \in Peers, NEW u \in Workers
        PROVE  job'[m][u].ver[p] <= conn[m][p].ver
    <3>1. CASE m = n /\ u = w
      <4>1. job'[m][u] = j
        <5> HIDE DEF j
        <5> QED BY <2>1, <2>2, <3>1
      <4>2. j.ver[p] = V[p]
        OBVIOUS
      <4>3. V[p] <= conn[n][p].ver
        <5> HIDE DEF R
        <5> QED BY <2>2, <2>3, BitmapBound
      <4> HIDE DEF j, V
      <4> QED BY <3>1, <4>1, <4>2, <4>3
    <3>2. CASE ~(m = n /\ u = w)
      <4>1. job'[m][u] = job[m][u]
        <5> HIDE DEF j
        <5> QED BY <2>1, <2>2, <3>2
      <4> QED BY <1>0, <4>1 DEF InFlightIsHeld
    <3> QED BY <3>1, <3>2
  <2>5. InFlightIsHeld' /\ SavedIsHeld'
    BY SMT, <1>0, <2>1, <2>4 DEF InFlightIsHeld, SavedIsHeld
  <2> QED BY <1>1, <2>5 DEF HeldInv
<1>5. ASSUME NEW n \in Peers, NEW w \in Workers, RebuildRows(n, w)
      PROVE  HeldInv'
  <2> DEFINE j == job[n][w]
             rows == BitmapRows(j.ids, j.ver, conn[n])
             b == [ids |-> j.ids, rows |-> rows]
  <2>1. /\ UNCHANGED <<info, conn, sess>>
        /\ cached' = cached \/ cached' = [cached EXCEPT ![n] = b]
        /\ \A m \in Peers, u \in Workers :
             job'[m][u] = Idle \/ job'[m][u].ver = job[m][u].ver
        /\ \A k \in calls' : \E c \in calls :
             /\ k.from = c.from /\ k.to = c.to /\ k.infos = c.infos
             /\ k.rows = c.rows /\ k.conns = c.conns
             /\ k.phase = c.phase \/ c.phase = "merged"
    BY <1>0, <1>5, RebuildRowsEffect
  <2>2. cached \in [Peers -> [ids : SUBSET Peers, rows : [Peers -> Versioned]]]
        /\ j \in Jobs
    BY <1>0 DEF TypeOK
  <2>3. ASSUME NEW p \in Peers
        PROVE  rows[p].ver <= conn[n][p].ver
    <3>1. j.ver \in [Peers -> Nat]
      BY <2>2 DEF Jobs
    <3>2. rows[p].ver <= j.ver[p]
      BY <3>1, RowVersion
    <3>3. rows[p].ver \in Nat
      BY <3>1 DEF BitmapRows, NoConn
    <3>4. j.ver[p] <= conn[n][p].ver /\ j.ver[p] \in Nat /\ conn[n][p].ver \in Nat
      BY <1>0 DEF InFlightIsHeld, VersionsAreNat
    <3> HIDE DEF rows, j
    <3> QED BY SMTT(30), <3>2, <3>3, <3>4
  <2>4. ASSUME NEW m \in Peers, NEW p \in Peers
        PROVE  cached'[m].rows[p].ver <= conn[m][p].ver
    <3>1. \/ cached'[m] = cached[m]
          \/ m = n /\ cached'[m] = b
      <4> HIDE DEF b
      <4> QED BY <2>1, <2>2
    <3>2. b.rows = rows
      OBVIOUS
    <3> HIDE DEF b, rows
    <3> QED BY <1>0, <2>3, <3>1, <3>2 DEF InFlightIsHeld
  <2>5. ASSUME NEW m \in Peers, NEW p \in Peers, NEW u \in Workers
        PROVE  job'[m][u].ver[p] <= conn[m][p].ver
    <3>1. Idle.ver[p] = 0 /\ conn[m][p].ver \in Nat
      BY <1>0 DEF Idle, Zero, VersionsAreNat
    <3> QED BY SMT, <1>0, <2>1, <3>1 DEF InFlightIsHeld
  <2>6. Grows
    BY <1>0, <2>1, SMTT(30) DEF Grows, VersionsAreNat
  <2>7. \A k \in calls' : \E c \in calls : FollowsCall(k, c)
    BY <2>1 DEF FollowsCall
  <2> HIDE DEF b
  <2>8. SavedIsHeld'
    BY <1>0, <2>1 DEF SavedIsHeld
  <2>9. InFlightIsHeld'
    BY <1>1, <2>1, <2>4, <2>5, <2>6, <2>7, CallsHeld DEF InFlightIsHeld
  <2> QED BY <1>1, <2>8, <2>9 DEF HeldInv
<1>6. ASSUME NEW n \in Peers, NEW d \in Peers, NEW force, SyncRouteWithPeer(n, d, force)
      PROVE  HeldInv'
  <2>1. /\ UNCHANGED <<info, conn, cached, job>>
        /\ \A m, e \in Peers : SameSaved(sess'[m][e], sess[m][e])
    BY <1>0, <1>6, SyncEffect
  <2>2. PICK c \in Calls :
                /\ calls' = calls \cup {c}
                /\ c.from = n /\ c.to = d /\ c.phase = "req"
                /\ c.conns \/ c.rows = [p \in Peers |-> NoConn]
                /\ \A p \in Peers :
                     /\ c.infos[p] <= info[n][p]
                     /\ \/ c.rows[p] = NoConn
                        \/ c.rows[p] = conn[n][p]
                        \/ c.rows[p] = cached[n].rows[p]
    BY SMT, <1>0, <1>6, SyncEffect
  <2>3. ASSUME NEW p \in Peers
        PROVE  c.rows[p].ver <= conn[n][p].ver
    <3>1. /\ cached[n].rows[p].ver <= conn[n][p].ver
          /\ conn[n][p].ver \in Nat /\ NoConn.ver = 0
      BY <1>0 DEF InFlightIsHeld, VersionsAreNat, NoConn
    <3> QED BY SMT, <2>2, <3>1
  <2>4. Grows
    BY SMT, <1>0, <2>1 DEF Grows, VersionsAreNat
  <2>5. SavedIsHeld'
    BY <1>1, <2>1, <2>4, SameSessionsHeld
  <2>6. InFlightIsHeld'
    BY SMT, <1>0, <2>1, <2>2, <2>3 DEF InFlightIsHeld
  <2> QED BY <1>1, <2>5, <2>6 DEF HeldInv
<1>7. ASSUME NEW c \in calls, SyncRouteDone(c)
      PROVE  HeldInv'
  <2>1. UNCHANGED <<info, conn, cached, job>> /\ calls' = calls \ {c}
    BY <1>0, <1>7, DoneEffect
  <2>2. Grows
    BY SMT, <1>0, <2>1 DEF Grows, VersionsAreNat
  <2>3. ASSUME NEW m \in Peers, NEW e \in Peers, NEW p \in Peers,
               sess'[m][e] # NoSession
        PROVE  /\ \/ sess[m][e] # NoSession /\ sess'[m][e].savedInfo[p] <= sess[m][e].savedInfo[p]
                  \/ sess'[m][e].savedInfo[p] <= info'[e][p]
               /\ \/ sess[m][e] # NoSession /\ sess'[m][e].savedConn[p] <= sess[m][e].savedConn[p]
                  \/ sess'[m][e].savedConn[p] <= conn'[e][p].ver
    <3> DEFINE T == sess[m][e]
               U == sess'[m][e]
    <3>1. \/ U = T
          \/ /\ c.phase = "resp" /\ e = c.to /\ T # NoSession
             /\ \/ U.savedInfo[p] <= T.savedInfo[p]
                \/ U.savedInfo[p] <= c.infos[p]
                \/ U.savedInfo[p] = 0
             /\ \/ U.savedConn[p] <= T.savedConn[p]
                \/ U.savedConn[p] <= c.rows[p].ver
                \/ U.savedConn[p] = 0
      BY SMTT(30), <1>0, <1>7, DoneEffect
    <3>2. U \in Sessions
      BY <1>1, <2>3 DEF TypeOK
    <3>3. U.savedInfo[p] \in Nat /\ U.savedConn[p] \in Nat
      BY <3>2 DEF Sessions
    <3>4. /\ info'[e][p] = info[e][p] /\ conn'[e][p] = conn[e][p]
          /\ info[e][p] \in Nat /\ conn[e][p].ver \in Nat
          /\ c.infos[p] \in Nat /\ c.rows[p].ver \in Nat
      BY <1>0, <2>1 DEF VersionsAreNat
    <3>5. c.phase = "resp" /\ e = c.to => /\ c.infos[p] <= info[e][p]
                                          /\ c.rows[p].ver <= conn[e][p].ver
      BY <1>0 DEF InFlightIsHeld
    <3>6. U # NoSession
      BY <2>3
    <3> HIDE DEF T, U
    <3>7. /\ \/ T # NoSession /\ U.savedInfo[p] <= T.savedInfo[p]
             \/ U.savedInfo[p] <= info'[e][p]
          /\ \/ T # NoSession /\ U.savedConn[p] <= T.savedConn[p]
             \/ U.savedConn[p] <= conn'[e][p].ver
      <4>1. CASE U = T
        BY SMTT(30), <3>3, <3>6, <4>1
      <4>2. CASE U # T
        BY SMTT(30), <3>1, <3>3, <3>4, <3>5, <4>2
      <4> QED BY <4>1, <4>2
    <3> QED BY <3>7 DEF T, U
  <2>4. SavedIsHeld'
    BY SMT, <1>1, <2>2, <2>3, SessionsHeld
  <2>5. \A k \in calls' : \E j \in calls : FollowsCall(k, j)
    BY <2>1 DEF FollowsCall
  <2> QED BY <1>1, <2>1, <2>4, <2>5, HeldQuietStep
<1>8. CASE \/ \E n, d \in Peers : \/ StartSession(n, d)
                                  \/ StopSession(n, d)
                                  \/ CleanDstSavedMap(n, d)
                                  \/ Connect(n, d)
                                  \/ Disconnect(n, d)
           \/ \E c \in calls : CallTimeout(c) \/ CallLost(c)
           \/ UNCHANGED vars
  <2>1. Quiet
    BY <1>0, <1>8, QuietSteps
  <2>2. UNCHANGED <<info, conn, cached, job>>
    BY <2>1 DEF Quiet
  <2>3. Grows
    BY <1>0, <2>2, SMTT(30) DEF Grows, VersionsAreNat
  <2>4. ASSUME NEW m \in Peers, NEW e \in Peers, NEW p \in Peers,
               sess'[m][e] # NoSession
        PROVE  /\ \/ sess[m][e] # NoSession /\ sess'[m][e].savedInfo[p] <= sess[m][e].savedInfo[p]
                  \/ sess'[m][e].savedInfo[p] <= info'[e][p]
               /\ \/ sess[m][e] # NoSession /\ sess'[m][e].savedConn[p] <= sess[m][e].savedConn[p]
                  \/ sess'[m][e].savedConn[p] <= conn'[e][p].ver
    <3>1. info'[e][p] \in Nat /\ conn'[e][p].ver \in Nat
      BY <1>1 DEF VersionsAreNat
    <3> QED BY SMT, <2>1, <2>4, <3>1 DEF Quiet
  <2>5. SavedIsHeld'
    BY <1>1, <2>3, <2>4, SessionsHeld
  <2>6. \A k \in calls' : \E c \in calls : FollowsCall(k, c)
    BY <2>1 DEF Quiet, SameCall, FollowsCall
  <2> QED BY <1>1, <2>2, <2>5, <2>6, HeldQuietStep
<1> QED
  BY <1>2, <1>3, <1>4, <1>5, <1>6, <1>7, <1>8 DEF Next, Sync

\* While clear_expired_peer removes nothing, the versions a session saved for
\* its peer never exceed what the peer holds, whatever calls are lost, time
\* out or arrive after the session they were built for is gone.
THEOREM SavedVersionsAreHeld ==
    ASSUME MaxExpired = 0
    PROVE  Spec => []SavedIsHeld
<1>1. Init => HeldInv
  BY HeldInit
<1>2. HeldInv /\ [Next]_vars => HeldInv'
  BY HeldStep
<1>3. HeldInv => SavedIsHeld
  BY DEF HeldInv
<1> QED
  BY <1>1, <1>2, <1>3, PTL DEF Spec

-----------------------------------------------------------------------------
\* Lists are not older than their versions

\* A half-done rebuild recorded no version that the database has not reached,
\* and its columns cover the lists that have not changed since.
JobsFollow ==
    \A n, p \in Peers, w \in Workers :
        job[n][w].ver[p] > 0 =>
            /\ job[n][w].ver[p] <= conn[n][p].ver
            /\ job[n][w].ver[p] = conn[n][p].ver =>
                    conn[n][p].peers \subseteq job[n][w].ids

ListInv ==
    /\ \A n, p \in Peers : Genuine(published[p], conn[n][p])
    /\ \A n, p \in Peers : Genuine(published[p], cached[n].rows[p])
    /\ \A c \in calls, p \in Peers : Genuine(published[p], c.rows[p])
    /\ JobsFollow

\* clear_expired_peer removes no entry whose version the request handler has
\* recorded for a bitmap whose rows it has yet to read.
SparesRebuilds ==
    \A n \in Peers, X \in SUBSET Peers :
        ClearExpiredPeer(n, X) => \A p \in X : job[n]["rpc"].ver[p] = 0

LEMMA GenuineGrows ==
    ASSUME NEW P, NEW Q, P \subseteq Q, NEW e, Genuine(P, e)
    PROVE  Genuine(Q, e)
BY DEF Genuine

\* A row with an earlier version than the entry it is read from, or with the
\* same version and the whole list, is as genuine as the entry.
LEMMA RowGenuine ==
    ASSUME NEW p \in Peers, NEW C \in [Peers -> Versioned], NEW ids,
           NEW ver \in [Peers -> Nat], NEW P \in SUBSET (Nat \X SUBSET Peers),
           Genuine(P, C[p]),
           ver[p] > 0 => /\ ver[p] <= C[p].ver
                         /\ ver[p] = C[p].ver => C[p].peers \subseteq ids
    PROVE  Genuine(P, BitmapRows(ids, ver, C)[p])
<1> DEFINE r == BitmapRows(ids, ver, C)[p]
<1>1. C[p].ver \in Nat /\ ver[p] \in Nat /\ \A q \in P : q[1] \in Nat
  BY DEF Versioned
<1>2. CASE ver[p] = 0
  <2>1. r.ver = 0
    BY <1>2 DEF BitmapRows, NoConn
  <2> QED BY SMT, <2>1 DEF Genuine
<1>3. CASE ver[p] > 0
  <2>1. r.ver = ver[p] /\ r.peers = C[p].peers \cap ids
    BY <1>3 DEF BitmapRows
  <2> HIDE DEF r
  <2>2. CASE ver[p] = C[p].ver
    <3>1. r.peers = C[p].peers
      BY <2>1, <2>2, <1>3
    <3>2. Genuine(P, r)
      BY <3>1, <2>1, <2>2 DEF Genuine
    <3> QED BY <3>2 DEF r
  <2>3. CASE ver[p] < C[p].ver
    <3>1. PICK q \in P : q[1] >= C[p].ver /\ C[p].peers \subseteq q[2]
      <4>1. CASE <<C[p].ver, C[p].peers>> \in P
        BY SMT, <4>1, <1>1
      <4>2. CASE \E q \in P : q[1] > C[p].ver /\ C[p].peers \subseteq q[2]
        BY SMT, <4>2, <1>1
      <4> QED BY SMT, <4>1, <4>2, <1>1, <2>3 DEF Genuine
    <3>2. q[1] > r.ver /\ r.peers \subseteq q[2]
      BY SMT, <3>1, <2>1, <2>3, <1>1
    <3>3. Genuine(P, r)
      BY <3>2 DEF Genuine
    <3> QED BY <3>3 DEF r
  <2> QED BY SMT, <1>1, <1>3, <2>2, <2>3
<1> QED BY SMT, <1>1, <1>2, <1>3

\* The versions and columns of a bitmap are those of the database.
LEMMA BitmapFollows ==
    ASSUME NEW R \in SUBSET Peers, NEW C \in [Peers -> Versioned], NEW p \in Peers
    PROVE  /\ BitmapVersions(R, C) \in [Peers -> Nat]
           /\ BitmapVersions(R, C)[p] > 0 =>
                /\ BitmapVersions(R, C)[p] = C[p].ver
                /\ C[p].peers \subseteq BitmapIds(R, C)
<1>1. \A q \in Peers : C[q].ver \in Nat
  BY DEF Versioned
<1>2. BitmapVersions(R, C) \in [Peers -> Nat]
  BY <1>1 DEF BitmapVersions
<1>3. BitmapVersions(R, C)[p] > 0 => p \in R /\ BitmapVersions(R, C)[p] = C[p].ver
  BY SMT DEF BitmapVersions
<1>4. p \in R => C[p].peers \subseteq BitmapIds(R, C)
  BY DEF BitmapIds
<1> QED BY <1>2, <1>3, <1>4

LEMMA BitmapGenuine ==
    ASSUME NEW R \in SUBSET Peers, NEW C \in [Peers -> Versioned], NEW p \in Peers,
           NEW P \in SUBSET (Nat \X SUBSET Peers), Genuine(P, C[p])
    PROVE  Genuine(P, Bitmap(R, C).rows[p])
<1>1. Bitmap(R, C).rows = BitmapRows(BitmapIds(R, C), BitmapVersions(R, C), C)
  BY DEF Bitmap
<1>2. C[p].ver \in Nat
  BY DEF Versioned
<1>3. /\ BitmapVersions(R, C) \in [Peers -> Nat]
      /\ BitmapVersions(R, C)[p] > 0 =>
            /\ BitmapVersions(R, C)[p] <= C[p].ver
            /\ BitmapVersions(R, C)[p] = C[p].ver => C[p].peers \subseteq BitmapIds(R, C)
  <2>1. /\ BitmapVersions(R, C) \in [Peers -> Nat]
        /\ BitmapVersions(R, C)[p] > 0 =>
              /\ BitmapVersions(R, C)[p] = C[p].ver
              /\ C[p].peers \subseteq BitmapIds(R, C)
    BY BitmapFollows
  <2> QED BY SMT, <1>2, <2>1
<1>4. Genuine(P, BitmapRows(BitmapIds(R, C), BitmapVersions(R, C), C)[p])
  BY <1>3, RowGenuine
<1> QED BY <1>1, <1>4

\* One node changes its database: every new entry is genuine, and an entry
\* that a half-done rebuild recorded is kept or gets a larger version.
GenuineChange(n, w, C) ==
    /\ conn' = [conn EXCEPT ![n] = C]
    /\ cached' = cached
    /\ job' = job \/ job' = [job EXCEPT ![n][w] = Due]
    /\ \A k \in calls' : \E c \in calls : k.rows = c.rows
    /\ \A p \in Peers : published[p] \subseteq published'[p]
    /\ \A p \in Peers : Genuine(published'[p], C[p])
    /\ \A p \in Peers, u \in Workers :
          job[n][u].ver[p] > 0 => C[p] = conn[n][p] \/ C[p].ver > conn[n][p].ver

LEMMA ListDbStep ==
    ASSUME TypeOK, TypeOK', ListInv,
           NEW n \in Peers, NEW w \in Workers,
           NEW C \in [Peers -> Versioned],
           GenuineChange(n, w, C)
    PROVE  ListInv'
<1>0. /\ conn' = [conn EXCEPT ![n] = C]
      /\ cached' = cached
      /\ job' = job \/ job' = [job EXCEPT ![n][w] = Due]
      /\ \A k \in calls' : \E c \in calls : k.rows = c.rows
      /\ \A p \in Peers : published[p] \subseteq published'[p]
      /\ \A p \in Peers : Genuine(published'[p], C[p])
      /\ \A p \in Peers, u \in Workers :
            job[n][u].ver[p] > 0 => C[p] = conn[n][p] \/ C[p].ver > conn[n][p].ver
  BY DEF GenuineChange
<1>1. /\ conn \in [Peers -> [Peers -> Versioned]]
      /\ cached \in [Peers -> [ids : SUBSET Peers, rows : [Peers -> Versioned]]]
      /\ job \in [Peers -> [Workers -> Jobs]]
      /\ published' \in [Peers -> SUBSET (Nat \X SUBSET Peers)]
  BY DEF TypeOK
<1>2. conn'[n] = C /\ \A m \in Peers : m # n => conn'[m] = conn[m]
  BY <1>0, <1>1
<1>3. ASSUME NEW m \in Peers, NEW p \in Peers
      PROVE  Genuine(published'[p], conn'[m][p])
  <2>1. Genuine(published'[p], conn[m][p])
    BY <1>0, GenuineGrows DEF ListInv
  <2> QED BY <1>0, <1>2, <2>1
<1>4. ASSUME NEW m \in Peers, NEW p \in Peers
      PROVE  Genuine(published'[p], cached'[m].rows[p])
  <2>1. Genuine(published'[p], cached[m].rows[p])
    BY SMT, <1>0, GenuineGrows DEF ListInv
  <2> QED BY <1>0, <2>1
<1>5. ASSUME NEW k \in calls', NEW p \in Peers
      PROVE  Genuine(published'[p], k.rows[p])
  <2>1. PICK c \in calls : k.rows = c.rows
    BY <1>0
  <2>2. Genuine(published[p], c.rows[p])
    BY DEF ListInv
  <2> QED BY <1>0, <2>1, <2>2, GenuineGrows
<1>6. ASSUME NEW m \in Peers, NEW p \in Peers, NEW u \in Workers,
             job'[m][u].ver[p] > 0
      PROVE  /\ job'[m][u].ver[p] <= conn'[m][p].ver
             /\ job'[m][u].ver[p] = conn'[m][p].ver =>
                    conn'[m][p].peers \subseteq job'[m][u].ids
  <2>1. job'[m][u] = job[m][u] \/ job'[m][u] = Due
    <3>1. CASE job' = [job EXCEPT ![n][w] = Due] /\ m = n
      <4>1. job'[m] = [job[n] EXCEPT ![w] = Due] /\ job[n] \in [Workers -> Jobs]
        BY <1>1, <3>1
      <4> QED BY <3>1, <4>1
    <3>2. CASE job' = [job EXCEPT ![n][w] = Due] /\ m # n
      BY <1>1, <3>2
    <3> QED BY <1>0, <3>1, <3>2
  <2>2. job'[m][u] = job[m][u]
    <3>1. Due.ver[p] = 0
      BY DEF Due, Zero
    <3> QED BY SMT, <2>1, <3>1, <1>6
  <2>3. /\ job[m][u].ver[p] > 0
        /\ job[m][u].ver[p] <= conn[m][p].ver
        /\ job[m][u].ver[p] = conn[m][p].ver => conn[m][p].peers \subseteq job[m][u].ids
    BY <1>6, <2>2 DEF ListInv, JobsFollow
  <2>4. /\ job[m][u].ver[p] \in Nat /\ conn[m][p].ver \in Nat /\ C[p].ver \in Nat
    BY VersionTypes DEF VersionsAreNat, Versioned
  <2>5. CASE m # n
    BY <1>2, <2>2, <2>3, <2>5
  <2>6. CASE m = n /\ C[p] = conn[n][p]
    BY <1>2, <2>2, <2>3, <2>6
  <2>7. CASE m = n /\ C[p].ver > conn[n][p].ver
    <3>1. conn'[m][p] = C[p]
      BY <1>2, <2>7
    <3>2. job[m][u].ver[p] < C[p].ver
      BY SMT, <2>3, <2>4, <2>7
    <3> QED BY SMT, <2>2, <2>4, <3>1, <3>2
  <2> QED BY <1>0, <2>3, <2>5, <2>6, <2>7
<1> QED
  BY <1>3, <1>4, <1>5, <1>6 DEF ListInv, JobsFollow

LEMMA ListInit ==
    ASSUME Init
    PROVE  ListInv
<1>1. TypeOK
  BY TypeInit
<1>2. ASSUME NEW n \in Peers, NEW p \in Peers
      PROVE  Genuine(published[p], conn[n][p]) /\ Genuine(published[p], cached[n].rows[p])
  <2>1. conn[n][p] = IF p = n THEN [ver |-> 1, peers |-> {}] ELSE NoConn
    BY DEF Init
  <2>2. published[p] = {<<1, {}>>}
    BY DEF Init
  <2>3. Genuine(published[p], conn[n][p])
    BY SMT, <2>1, <2>2 DEF Genuine, NoConn
  <2>4. /\ conn[n] \in [Peers -> Versioned] /\ cached[n] = Bitmap({n}, conn[n])
        /\ published[p] \in SUBSET (Nat \X SUBSET Peers)
    BY <1>1 DEF TypeOK, Init
  <2>5. {n} \in SUBSET Peers
    OBVIOUS
  <2>6. Genuine(published[p], Bitmap({n}, conn[n]).rows[p])
    BY <2>3, <2>4, <2>5, BitmapGenuine
  <2> QED BY <2>3, <2>4, <2>6
<1>3. JobsFollow
  <2>1. \A n, p \in Peers, w \in Workers : job[n][w].ver[p] = 0
    BY DEF Init, Idle, Zero
  <2> QED BY SMT, <2>1 DEF JobsFollow
<1>4. calls = {}
  BY DEF Init
<1> QED
  BY <1>2, <1>3, <1>4 DEF ListInv

\* What the node's own updates and clear_expired_peer do to its lists: they are
\* kept, or the node publishes its own list under the next version, or the
\* entry is removed.
LEMMA OwnListEffect ==
    ASSUME TypeOK, SparesRebuilds, NEW n \in Peers,
           \/ UpdateMyPeerInfo(n)
           \/ UpdateMyConnInfo(n)
           \/ \E X \in SUBSET Peers : ClearExpiredPeer(n, X)
    PROVE  \E I \in [Peers -> Nat], C \in [Peers -> Versioned] :
             /\ ChangeDb(n, "self", I, C, sess[n], calls)
             /\ \A p \in Peers : published[p] \subseteq published'[p]
             /\ \A p \in Peers :
                  \/ C[p] = conn[n][p]
                  \/ /\ C[p].ver > conn[n][p].ver
                     /\ <<C[p].ver, C[p].peers>> \in published'[p]
                  \/ C[p] = NoConn /\ \A u \in Workers : job[n][u].ver[p] = 0
<1>1. /\ info[n] \in [Peers -> Nat] /\ conn[n] \in [Peers -> Versioned]
      /\ conn[n][n].ver \in Nat /\ nbr[n] \in SUBSET Peers
      /\ published \in [Peers -> SUBSET (Nat \X SUBSET Peers)]
  BY SMT DEF TypeOK, Versioned
<1>2. CASE UpdateMyPeerInfo(n)
  <2> DEFINE I == [info[n] EXCEPT ![n] = @ + 1]
  <2>1. /\ ChangeDb(n, "self", I, conn[n], sess[n], calls)
        /\ published' = published
    BY <1>2 DEF UpdateMyPeerInfo
  <2>2. I \in [Peers -> Nat]
    BY SMT, <1>1
  <2> HIDE DEF I
  <2> QED BY <1>1, <2>1, <2>2
<1>3. CASE UpdateMyConnInfo(n)
  <2> DEFINE v == conn[n][n].ver + 1
             e == [ver |-> v, peers |-> nbr[n]]
             C == [conn[n] EXCEPT ![n] = e]
  <2>1. /\ ChangeDb(n, "self", info[n], C, sess[n], calls)
        /\ published' = [published EXCEPT ![n] = published[n] \cup {<<v, nbr[n]>>}]
    BY <1>3 DEF UpdateMyConnInfo
  <2>2. /\ e \in Versioned /\ e.ver = v /\ e.peers = nbr[n]
        /\ v > conn[n][n].ver
    BY SMT, <1>1 DEF Versioned
  <2> HIDE DEF v, e
  <2>3. /\ C \in [Peers -> Versioned] /\ C[n] = e
        /\ \A p \in Peers : p # n => C[p] = conn[n][p]
    BY <1>1, <2>2
  <2>4. /\ \A p \in Peers : published[p] \subseteq published'[p]
        /\ <<v, nbr[n]>> \in published'[n]
    BY <1>1, <2>1
  <2> HIDE DEF C
  <2>5. \A p \in Peers :
           \/ C[p] = conn[n][p]
           \/ C[p].ver > conn[n][p].ver /\ <<C[p].ver, C[p].peers>> \in published'[p]
    BY <2>2, <2>3, <2>4
  <2> QED BY <1>1, <2>1, <2>3, <2>4, <2>5
<1>4. ASSUME NEW X \in SUBSET Peers, ClearExpiredPeer(n, X)
      PROVE  \E I \in [Peers -> Nat], C \in [Peers -> Versioned] :
               /\ ChangeDb(n, "self", I, C, sess[n], calls)
               /\ \A p \in Peers : published[p] \subseteq published'[p]
               /\ \A p \in Peers :
                    \/ C[p] = conn[n][p]
                    \/ /\ C[p].ver > conn[n][p].ver
                       /\ <<C[p].ver, C[p].peers>> \in published'[p]
                    \/ C[p] = NoConn /\ \A u \in Workers : job[n][u].ver[p] = 0
  <2> DEFINE I == [p \in Peers |-> IF p \in X THEN 0 ELSE info[n][p]]
             C == [p \in Peers |-> IF p \in X THEN NoConn ELSE conn[n][p]]
  <2>1. /\ ChangeDb(n, "self", I, C, sess[n], calls)
        /\ published' = published
        /\ job[n]["self"] = Idle
    BY <1>4 DEF ClearExpiredPeer
  <2>2. I \in [Peers -> Nat] /\ C \in [Peers -> Versioned]
    BY <1>1, SessionTypes
  <2>3. \A p \in Peers : C[p] = conn[n][p] \/ (C[p] = NoConn /\ p \in X)
    OBVIOUS
  <2>4. \A p \in X : \A u \in Workers : job[n][u].ver[p] = 0
    <3>1. \A p \in X : job[n]["rpc"].ver[p] = 0
      BY <1>4 DEF SparesRebuilds
    <3>2. \A p \in X : job[n]["self"].ver[p] = 0
      BY SMT, <2>1 DEF Idle, Zero
    <3> QED BY <3>1, <3>2 DEF Workers
  <2> HIDE DEF I, C
  <2>5. \A p \in Peers :
           \/ C[p] = conn[n][p]
           \/ C[p] = NoConn /\ \A u \in Workers : job[n][u].ver[p] = 0
    BY <2>3, <2>4
  <2> QED BY <2>1, <2>2, <2>5
<1> QED BY <1>2, <1>3, <1>4

LEMMA ListStep ==
    ASSUME TypeOK, ListInv, [Next]_vars, [SparesRebuilds]_vars
    PROVE  ListInv'
<1>1. TypeOK' /\ VersionsAreNat /\ published \in [Peers -> SUBSET (Nat \X SUBSET Peers)]
  BY TypeStep, VersionTypes DEF TypeOK
<1>2. ASSUME NEW n \in Peers,
             \/ UpdateMyPeerInfo(n)
             \/ UpdateMyConnInfo(n)
             \/ \E X \in SUBSET Peers : ClearExpiredPeer(n, X),
             SparesRebuilds
      PROVE  ListInv'
  <2>1. PICK I \in [Peers -> Nat], C \in [Peers -> Versioned] :
           /\ ChangeDb(n, "self", I, C, sess[n], calls)
           /\ \A p \in Peers : published[p] \subseteq published'[p]
           /\ \A p \in Peers :
                \/ C[p] = conn[n][p]
                \/ /\ C[p].ver > conn[n][p].ver
                   /\ <<C[p].ver, C[p].peers>> \in published'[p]
                \/ C[p] = NoConn /\ \A u \in Workers : job[n][u].ver[p] = 0
    BY <1>2, OwnListEffect
  <2>2. "self" \in Workers /\ calls \in SUBSET Calls
        /\ sess[n] \in [Peers -> Sessions \cup {NoSession}]
    BY DEF TypeOK, Workers
  <2>3. /\ conn' = [conn EXCEPT ![n] = C]
        /\ cached' = cached
        /\ job' = job \/ job' = [job EXCEPT ![n]["self"] = Due]
        /\ \A k \in calls' : \E c \in calls : SameCall(k, c)
    BY SMTT(30), <2>1, <2>2, ChangeDbEffect
  <2>4. \A k \in calls' : \E c \in calls : k.rows = c.rows
    BY <2>3 DEF SameCall
  <2>5. ASSUME NEW p \in Peers
        PROVE  Genuine(published'[p], C[p])
    <3>1. CASE C[p] = conn[n][p]
      BY <2>1, <3>1, GenuineGrows DEF ListInv
    <3>2. CASE <<C[p].ver, C[p].peers>> \in published'[p]
      BY <3>2 DEF Genuine
    <3>3. CASE C[p] = NoConn
      BY SMT, <3>3 DEF Genuine, NoConn
    <3> QED BY <2>1, <3>1, <3>2, <3>3
  <2>6. ASSUME NEW p \in Peers, NEW u \in Workers, job[n][u].ver[p] > 0
        PROVE  C[p] = conn[n][p] \/ C[p].ver > conn[n][p].ver
    <3>1. ~ \A v \in Workers : job[n][v].ver[p] = 0
      BY SMT, <2>6
    <3> QED BY <2>1, <3>1
  <2>7. \A p \in Peers : published[p] \subseteq published'[p]
    BY <2>1
  <2>8. GenuineChange(n, "self", C)
    BY <2>3, <2>4, <2>5, <2>6, <2>7 DEF GenuineChange
  <2> QED BY <1>1, <2>2, <2>8, ListDbStep
<1>3. ASSUME NEW c \in calls, DoSyncRouteInfo(c)
      PROVE  ListInv'
  <2>0. /\ c.to \in Peers /\ info'[c.to] \in [Peers -> Nat]
        /\ conn'[c.to] \in [Peers -> Versioned]
    BY <1>1 DEF TypeOK, Calls
  <2>1. PICK n \in Peers, I \in [Peers -> Nat], C \in [Peers -> Versioned] :
           n = c.to /\ I = info'[c.to] /\ C = conn'[c.to]
    BY <2>0
  <2>2. /\ published' = published
        /\ \/ conn' = [conn EXCEPT ![n] =
                            [p \in Peers |-> MergeConn(conn[n][p], c.rows[p])]]
           \/ conn' = conn
        /\ cached' = cached
        /\ job' = job \/ job' = [job EXCEPT ![n]["rpc"] = Due]
        /\ \A k \in calls' :
                \/ \E j \in calls : SameCall(k, j)
                \/ k.rows = c.rows
    <3>1. /\ published' = published
          /\ \/ conn' = [conn EXCEPT ![c.to] = [p \in Peers |->
                             MergeConn(conn[c.to][p], c.rows[p])]]
             \/ conn' = conn
          /\ cached' = cached
          /\ job' = job \/ job' = [job EXCEPT ![c.to]["rpc"] = Due]
          /\ \A k \in calls' :
                  \/ \E j \in calls : SameCall(k, j)
                  \/ k.rows = c.rows
      BY <1>3, DoSyncEffect
    <3>2. QED
      BY <2>1, <3>1
  <2>3. conn \in [Peers -> [Peers -> Versioned]]
    BY DEF TypeOK
  <2>4. conn' = [conn EXCEPT ![n] = C]
    BY <2>1, <2>2, <2>3
  <2>5. ASSUME NEW p \in Peers
        PROVE  \/ C[p] = conn[n][p]
               \/ C[p] = c.rows[p] /\ C[p].ver > conn[n][p].ver
    <3>1. C[p] = MergeConn(conn[n][p], c.rows[p]) \/ C[p] = conn[n][p]
      BY SMT, <2>1, <2>2, <2>3
    <3> QED BY <3>1 DEF MergeConn
  <2>6. \A p \in Peers : Genuine(published'[p], C[p])
    BY <2>2, <2>5 DEF ListInv
  <2>7. \A k \in calls' : \E j \in calls : k.rows = j.rows
    BY <2>2 DEF SameCall
  <2>8. "rpc" \in Workers
    BY DEF Workers
  <2>9. \A p \in Peers : published[p] \subseteq published'[p]
    BY <2>2
  <2>10. \A p \in Peers, u \in Workers :
            job[n][u].ver[p] > 0 => C[p] = conn[n][p] \/ C[p].ver > conn[n][p].ver
    BY <2>5
  <2>11. /\ cached' = cached
         /\ job' = job \/ job' = [job EXCEPT ![n]["rpc"] = Due]
    BY <2>2
  <2>12. GenuineChange(n, "rpc", C)
    BY <2>4, <2>6, <2>7, <2>9, <2>10, <2>11 DEF GenuineChange
  <2> QED BY <1>1, <2>8, <2>12, ListDbStep
<1>4. ASSUME NEW n \in Peers, NEW w \in Workers, RebuildTable(n, w)
      PROVE  ListInv'
  <2> DEFINE R == Reachable(n, info[n], conn[n])
             V == BitmapVersions(R, conn[n])
             J == BitmapIds(R, conn[n])
             j == [stage |-> "rows", v |-> dbv[n], ids |-> J, ver |-> V]
  <2>1. /\ UNCHANGED <<conn, cached, calls, published>>
        /\ job' = [job EXCEPT ![n][w] = j]
    BY <1>4, RebuildTableEffect
  <2>2. /\ info[n] \in [Peers -> Nat] /\ conn[n] \in [Peers -> Versioned]
        /\ job \in [Peers -> [Workers -> Jobs]]
    BY DEF TypeOK
  <2>3. R \in SUBSET Peers
    BY <2>2, ReachableType
  <2>4. j.ver = V /\ j.ids = J
    OBVIOUS
  <2>5. \A p \in Peers : V[p] > 0 => V[p] = conn[n][p].ver /\ conn[n][p].peers \subseteq J
    <3> HIDE DEF R
    <3> QED BY <2>2, <2>3, BitmapFollows
  <2> HIDE DEF j, V, J
  <2>6. \A m \in Peers, u \in Workers :
           job'[m][u] = IF m = n /\ u = w THEN j ELSE job[m][u]
    BY <2>1, <2>2
  <2>7. JobsFollow'
    <3> SUFFICES ASSUME NEW m \in Peers, NEW p \in Peers, NEW u \in Workers,
                        job'[m][u].ver[p] > 0
                 PROVE  /\ job'[m][u].ver[p] <= conn[m][p].ver
                        /\ job'[m][u].ver[p] = conn[m][p].ver =>
                              conn[m][p].peers \subseteq job'[m][u].ids
      BY SMT, <2>1 DEF JobsFollow
    <3>1. CASE m = n /\ u = w
      <4>1. job'[m][u] = j
        BY <2>6, <3>1
      <4>2. conn[n][p].ver \in Nat
        BY <1>1 DEF VersionsAreNat
      <4> QED BY SMT, <2>4, <2>5, <3>1, <4>1, <4>2
    <3>2. CASE ~(m = n /\ u = w)
      <4>1. job'[m][u] = job[m][u]
        BY <2>6, <3>2
      <4> QED BY <4>1 DEF ListInv, JobsFollow
    <3> QED BY <3>1, <3>2
  <2> QED BY <2>1, <2>7 DEF ListInv
<1>5. ASSUME NEW n \in Peers, NEW w \in Workers, RebuildRows(n, w)
      PROVE  ListInv'
  <2> DEFINE j == job[n][w]
             rows == BitmapRows(j.ids, j.ver, conn[n])
             b == [ids |-> j.ids, rows |-> rows]
  <2>1. /\ UNCHANGED <<conn, published>>
        /\ cached' = cached \/ cached' = [cached EXCEPT ![n] = b]
        /\ \A m \in Peers, u \in Workers :
             \/ job'[m][u] = Idle
             \/ job'[m][u].ver = job[m][u].ver /\ job'[m][u].ids = job[m][u].ids
        /\ \A k \in calls' : \E c \in calls : k.rows = c.rows
    BY <1>5, RebuildRowsEffect
  <2>2. /\ cached \in [Peers -> [ids : SUBSET Peers, rows : [Peers -> Versioned]]]
        /\ conn[n] \in [Peers -> Versioned]
        /\ j \in Jobs
    BY DEF TypeOK
  <2>3. ASSUME NEW p \in Peers
        PROVE  Genuine(published[p], rows[p])
    <3>1. j.ver \in [Peers -> Nat] /\ published[p] \in SUBSET (Nat \X SUBSET Peers)
      BY <1>1, <2>2 DEF Jobs
    <3>2. Genuine(published[p], conn[n][p])
      BY DEF ListInv
    <3>3. j.ver[p] > 0 => /\ j.ver[p] <= conn[n][p].ver
                          /\ j.ver[p] = conn[n][p].ver => conn[n][p].peers \subseteq j.ids
      BY DEF ListInv, JobsFollow
    <3> HIDE DEF j
    <3> QED BY <2>2, <3>1, <3>2, <3>3, RowGenuine
  <2>4. ASSUME NEW m \in Peers, NEW p \in Peers
        PROVE  Genuine(published[p], cached'[m].rows[p])
    <3>1. cached'[m] = cached[m] \/ cached'[m] = b
      <4> HIDE DEF b
      <4> QED BY <2>1, <2>2
    <3>2. b.rows = rows
      OBVIOUS
    <3> HIDE DEF b, rows
    <3> QED BY <2>3, <3>1, <3>2 DEF ListInv
  <2> HIDE DEF b, rows
  <2>5. JobsFollow'
    <3> SUFFICES ASSUME NEW m \in Peers, NEW p \in Peers, NEW u \in Workers,
                        job'[m][u].ver[p] > 0
                 PROVE  /\ job'[m][u].ver[p] <= conn[m][p].ver
                        /\ job'[m][u].ver[p] = conn[m][p].ver =>
                              conn[m][p].peers \subseteq job'[m][u].ids
      BY <2>1 DEF JobsFollow
    <3>1. Idle.ver[p] = 0
      BY DEF Idle, Zero
    <3>2. job'[m][u].ver = job[m][u].ver /\ job'[m][u].ids = job[m][u].ids
      BY SMT, <2>1, <3>1
    <3> QED BY <3>2 DEF ListInv, JobsFollow
  <2>6. \A k \in calls', p \in Peers : Genuine(published[p], k.rows[p])
    BY <2>1 DEF ListInv
  <2> QED BY <2>1, <2>4, <2>5, <2>6 DEF ListInv
<1>6. ASSUME NEW n \in Peers, NEW d \in Peers, NEW force, SyncRouteWithPeer(n, d, force)
      PROVE  ListInv'
  <2>1. UNCHANGED <<conn, cached, job, published>>
    BY <1>6, SyncEffect
  <2>2. PICK c \in Calls :
                /\ calls' = calls \cup {c}
                /\ \A p \in Peers : \/ c.rows[p] = NoConn
                                    \/ c.rows[p] = conn[n][p]
                                    \/ c.rows[p] = cached[n].rows[p]
    BY SMT, <1>6, SyncEffect
  <2>3. \A p \in Peers : Genuine(published[p], NoConn)
    BY SMT DEF Genuine, NoConn
  <2>4. \A p \in Peers : Genuine(published[p], c.rows[p])
    BY <2>2, <2>3 DEF ListInv
  <2> QED BY <2>1, <2>2, <2>4 DEF ListInv, JobsFollow
<1>7. ASSUME UNCHANGED <<conn, cached, job, published>>,
             \A k \in calls' : \E c \in calls : k.rows = c.rows
      PROVE  ListInv'
  <2>1. \A k \in calls', p \in Peers : Genuine(published[p], k.rows[p])
    BY <1>7 DEF ListInv
  <2> QED BY <1>7, <2>1 DEF ListInv, JobsFollow
<1>8. ASSUME NEW c \in calls, SyncRouteDone(c)
      PROVE  ListInv'
  <2>1. UNCHANGED <<conn, cached, job, published>> /\ calls' = calls \ {c}
    BY <1>8 DEF SyncRouteDone
  <2> QED BY <1>7, <2>1
<1>9. CASE \/ \E n, d \in Peers : \/ StartSession(n, d)
                                  \/ StopSession(n, d)
                                  \/ CleanDstSavedMap(n, d)
                                  \/ Connect(n, d)
                                  \/ Disconnect(n, d)
           \/ \E c \in calls : CallTimeout(c) \/ CallLost(c)
           \/ UNCHANGED vars
  <2>1. Quiet
    BY <1>9, QuietSteps
  <2> QED BY <1>7, <2>1 DEF Quiet, SameCall
<1>10. SparesRebuilds \/ UNCHANGED vars
  OBVIOUS
<1> QED
  BY <1>2, <1>3, <1>4, <1>5, <1>6, <1>8, <1>9, <1>10 DEF Next, Sync

\* An older neighbour list never hides behind a newer version, whatever calls
\* are lost or late and however the two halves of a rebuild interleave with
\* other changes (peer_ospf_route.rs:2564-2612), as long as clear_expired_peer
\* removes no entry that a half-done rebuild has recorded the version of: the
\* rebuild would publish that version with an empty list.
THEOREM ListsNotOlder ==
    Spec /\ [][SparesRebuilds]_vars =>
        [](\A n, p \in Peers : Genuine(published[p], conn[n][p]))
<1>1. Init => TypeOK /\ ListInv
  BY TypeInit, ListInit
<1>2. TypeOK /\ ListInv /\ [Next]_vars /\ [SparesRebuilds]_vars => TypeOK' /\ ListInv'
  BY TypeStep, ListStep
<1>3. ListInv => \A n, p \in Peers : Genuine(published[p], conn[n][p])
  BY DEF ListInv
<1> QED
  BY <1>1, <1>2, <1>3, PTL DEF Spec

\* Until the first expiry no rebuild loses an entry it has recorded: a step that
\* leaves the count of expiries at 0 removes nothing.
LEMMA NoExpirySpares ==
    ASSUME TypeOK, TypeOK', [Next]_vars, expired' = 0
    PROVE  expired = 0 /\ [SparesRebuilds]_vars
<1>1. expired \in Nat
  BY DEF TypeOK
<1>2. \/ expired' = expired
      \/ expired' = expired + 1
  <2>1. CASE \E n \in Peers : UpdateMyPeerInfo(n) \/ UpdateMyConnInfo(n)
    BY <2>1 DEF UpdateMyPeerInfo, UpdateMyConnInfo
  <2>2. CASE \E n \in Peers, X \in SUBSET Peers : ClearExpiredPeer(n, X)
    BY <2>2 DEF ClearExpiredPeer
  <2>3. CASE \E n \in Peers, w \in Workers : RebuildTable(n, w) \/ RebuildRows(n, w)
    BY SMT, <2>3 DEF RebuildTable, RebuildRows
  <2>4. CASE \E n, d \in Peers : Sync(n, d)
    BY SMT, <2>4, SyncEffect DEF Sync
  <2>5. CASE \E c \in calls : DoSyncRouteInfo(c)
    BY <2>5 DEF DoSyncRouteInfo
  <2>6. CASE \E c \in calls : SyncRouteDone(c) \/ CallTimeout(c) \/ CallLost(c)
    BY <2>6 DEF SyncRouteDone, CallTimeout, CallLost
  <2>7. CASE \E n, d \in Peers : \/ StartSession(n, d) \/ StopSession(n, d)
                                 \/ CleanDstSavedMap(n, d)
                                 \/ Connect(n, d) \/ Disconnect(n, d)
    BY SMT, <2>7 DEF StartSession, StopSession, CleanDstSavedMap, Connect, Disconnect
  <2>8. CASE UNCHANGED vars
    BY <2>8 DEF vars
  <2> QED
    BY <2>1, <2>2, <2>3, <2>4, <2>5, <2>6, <2>7, <2>8 DEF Next
<1>3. expired = 0
  BY SMT, <1>1, <1>2
<1>4. SparesRebuilds
  <2> SUFFICES ASSUME NEW n \in Peers, NEW X \in SUBSET Peers, ClearExpiredPeer(n, X)
               PROVE  FALSE
    BY DEF SparesRebuilds
  <2>1. expired' = expired + 1
    BY DEF ClearExpiredPeer
  <2> QED BY SMT, <1>3, <2>1
<1> QED BY <1>3, <1>4

\* With any number of nodes, links, losses and timeouts, and with rebuilds that
\* every other task may interrupt, no older neighbour list hides behind a newer
\* version before the first expiry.
THEOREM ListsNotOlderBeforeExpiry == Spec => []ListNotOlderThanVersion
<1> DEFINE Inv == TypeOK /\ (expired = 0 => ListInv)
<1>1. Init => Inv
  BY TypeInit, ListInit
<1>2. Inv /\ [Next]_vars => Inv'
  BY TypeStep, ListStep, NoExpirySpares
<1>3. Inv => ListNotOlderThanVersion
  BY DEF ListInv, ListNotOlderThanVersion
<1> QED
  BY <1>1, <1>2, <1>3, PTL DEF Spec
=============================================================================
