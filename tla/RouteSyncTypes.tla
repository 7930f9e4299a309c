--------------------------- MODULE RouteSyncTypes ---------------------------
(***************************************************************************)
(* What the operators of RouteSync return, what each of its steps does to the *)
(* state, and type correctness.                                            *)
(***************************************************************************)
EXTENDS RouteSync, TLAPS

\* Most leaves of these proofs are first-order, and Zenon is their prover.  A leaf
\* that needs arithmetic, or more of functions and records, names SMT.
USE Zenon

\* The sets of TypeOK are not empty of the values the actions build.
LEMMA SessionTypes ==
    /\ Zero \in [Peers -> Nat]
    /\ NoConn \in Versioned
    /\ Idle \in Jobs
    /\ \A s \in Nat \ {0} : NewSession(s) \in Sessions
    /\ \A s \in Nat \ {0} : NewSession(s) # NoSession
    /\ NoSession \notin Sessions
BY DEF Zero, NoConn, Versioned, Idle, Jobs, NewSession, Sessions, NoSession

LEMMA ReachableType ==
    ASSUME NEW n \in Peers, NEW I, NEW C
    PROVE  Reachable(n, I, C) \in SUBSET Peers
BY DEF Reachable

LEMMA BitmapType ==
    ASSUME NEW R \in SUBSET Peers, NEW C \in [Peers -> Versioned]
    PROVE  /\ BitmapIds(R, C) \in SUBSET Peers
           /\ BitmapVersions(R, C) \in [Peers -> Nat]
           /\ Bitmap(R, C) \in [ids : SUBSET Peers, rows : [Peers -> Versioned]]
<1>1. BitmapIds(R, C) \in SUBSET Peers
  BY SMT DEF BitmapIds, Versioned
<1>2. BitmapVersions(R, C) \in [Peers -> Nat]
  BY DEF BitmapVersions, Versioned
<1>3. BitmapRows(BitmapIds(R, C), BitmapVersions(R, C), C) \in [Peers -> Versioned]
  BY <1>1, <1>2, SessionTypes DEF BitmapRows, Versioned
<1> QED
  BY <1>1, <1>2, <1>3 DEF Bitmap

\* T is S up to what it recorded about unreachable or recently changed entries.
SameSaved(T, S) ==
    /\ T = NoSession <=> S = NoSession
    /\ S # NoSession => T.savedInfo = S.savedInfo /\ T.savedConn = S.savedConn

\* c is k up to who waits for it and what changed since it was built.
SameCall(c, k) ==
    /\ c.from = k.from /\ c.to = k.to /\ c.phase = k.phase
    /\ c.infos = k.infos /\ c.rows = k.rows /\ c.conns = k.conns

\* Stamping a session or a call changes only which entries it counts as old.
LEMMA TouchType ==
    ASSUME NEW X \in SUBSET Peers, NEW Y \in SUBSET Peers
    PROVE  /\ \A S \in Sessions \cup {NoSession} :
                /\ Touch(S, X, Y) \in Sessions \cup {NoSession}
                /\ SameSaved(Touch(S, X, Y), S)
           /\ \A c \in Calls, n \in Peers :
                /\ TouchCall(c, n, X, Y) \in Calls
                /\ SameCall(TouchCall(c, n, X, Y), c)
<1>1. ASSUME NEW S \in Sessions \cup {NoSession}
      PROVE  /\ Touch(S, X, Y) \in Sessions \cup {NoSession}
             /\ SameSaved(Touch(S, X, Y), S)
  BY DEF Touch, Sessions, NoSession, SameSaved
<1>2. ASSUME NEW c \in Calls, NEW n \in Peers
      PROVE  /\ TouchCall(c, n, X, Y) \in Calls
             /\ SameCall(TouchCall(c, n, X, Y), c)
  BY DEF TouchCall, Calls, SameCall
<1> QED
  BY <1>1, <1>2

\* What ChangeDb does: the rebuild becomes due, and nothing of it is done yet.
LEMMA ChangeDbEffect ==
    ASSUME TypeOK, NEW n \in Peers, NEW w \in Workers,
           NEW I \in [Peers -> Nat], NEW C \in [Peers -> Versioned],
           NEW S \in [Peers -> Sessions \cup {NoSession}],
           NEW K \in SUBSET Calls,
           ChangeDb(n, w, I, C, S, K)
    PROVE  /\ info' = [info EXCEPT ![n] = I]
           /\ conn' = [conn EXCEPT ![n] = C]
           /\ info' \in [Peers -> [Peers -> Nat]]
           /\ conn' \in [Peers -> [Peers -> Versioned]]
           /\ dbv' \in [Peers -> Nat]
           /\ reach' \in [Peers -> SUBSET Peers]
           /\ cached' \in [Peers -> [ids : SUBSET Peers,
                                     rows : [Peers -> Versioned]]]
           /\ job' \in [Peers -> [Workers -> Jobs]]
           /\ sess' \in [Peers -> [Peers -> Sessions \cup {NoSession}]]
           /\ calls' \in SUBSET Calls
           /\ reach' = reach
           /\ cached' = cached
           /\ job' = [job EXCEPT ![n][w] = Due]
           /\ \A m, d \in Peers :
                SameSaved(sess'[m][d], IF m = n THEN S[d] ELSE sess[m][d])
           /\ \A c \in calls' : \E k \in K : SameCall(c, k)
<1> DEFINE chI == {p \in Peers : I[p] # info[n][p]}
           chC == {p \in Peers : C[p] # conn[n][p]}
<1> HIDE DEF chI, chC
<1>0. chI \in SUBSET Peers /\ chC \in SUBSET Peers
  BY DEF chI, chC
<1>1. /\ info' = [info EXCEPT ![n] = I]
      /\ conn' = [conn EXCEPT ![n] = C]
      /\ sess' = [sess EXCEPT ![n] = [d \in Peers |-> Touch(S[d], chI, chC)]]
      /\ calls' = {TouchCall(c, n, chI, chC) : c \in K}
  BY DEF ChangeDb, chI, chC
<1>2. /\ \/ dbv' = [dbv EXCEPT ![n] = dbv[n]]
         \/ dbv' = [dbv EXCEPT ![n] = dbv[n] + 1]
      /\ reach' = reach /\ cached' = cached
      /\ job' = [job EXCEPT ![n][w] = Due]
  BY DEF ChangeDb, chI, chC
<1>3. /\ info' \in [Peers -> [Peers -> Nat]]
      /\ conn' \in [Peers -> [Peers -> Versioned]]
  BY <1>1 DEF TypeOK
<1>6. Due \in Jobs
  BY DEF Due, Jobs, Zero
<1>7. /\ dbv' \in [Peers -> Nat]
      /\ reach' \in [Peers -> SUBSET Peers]
      /\ cached' \in [Peers -> [ids : SUBSET Peers, rows : [Peers -> Versioned]]]
  <2>1. dbv \in [Peers -> Nat]
    BY DEF TypeOK
  <2>2. dbv' \in [Peers -> Nat]
    BY SMT, <1>2, <2>1
  <2> QED BY <1>2, <2>2 DEF TypeOK
<1>8. job' \in [Peers -> [Workers -> Jobs]]
  <2>1. job \in [Peers -> [Workers -> Jobs]]
    BY DEF TypeOK
  <2>2. [job[n] EXCEPT ![w] = Due] \in [Workers -> Jobs]
    BY <1>6, <2>1
  <2> QED
    BY <1>2, <2>1, <2>2
<1>9. sess' \in [Peers -> [Peers -> Sessions \cup {NoSession}]]
  BY <1>0, <1>1, TouchType DEF TypeOK
<1>10. ASSUME NEW m \in Peers, NEW d \in Peers
       PROVE  SameSaved(sess'[m][d], IF m = n THEN S[d] ELSE sess[m][d])
  <2>1. CASE m = n
    <3>1. sess'[m][d] = Touch(S[d], chI, chC) /\ S[d] \in Sessions \cup {NoSession}
      BY <1>1, <2>1 DEF TypeOK
    <3> QED
      BY SMT, <3>1, <2>1, <1>0, TouchType
  <2>2. CASE m # n
    BY <1>1, <2>2 DEF TypeOK, SameSaved
  <2> QED
    BY <2>1, <2>2
<1>11. calls' \in SUBSET Calls
  <2>1. \A c \in K : TouchCall(c, n, chI, chC) \in Calls
    BY <1>0, TouchType
  <2> QED
    BY <1>1, <2>1
<1>12. ASSUME NEW c \in calls'
       PROVE  \E k \in K : SameCall(c, k)
  <2>1. PICK k \in K : c = TouchCall(k, n, chI, chC)
    BY <1>1
  <2>2. SameCall(c, k)
    BY <2>1, <1>0, TouchType
  <2> QED
    BY <2>2
<1> QED
  BY <1>1, <1>2, <1>3, <1>7, <1>8, <1>9, <1>10, <1>11, <1>12

\* A fresh session id is a number.
LEMMA FreshSidType ==
    ASSUME NEW n \in Peers, NEW d \in Peers, FreshSids(n, d) # {}
    PROVE  FreshSid(n, d) \in Nat \ {0}
BY SMT, ConstAssumption DEF FreshSid, FreshSids

\* ChangeDb keeps TypeOK when the caller changes nbr, faults, expired and
\* published within their types.
LEMMA ChangeDbType ==
    ASSUME TypeOK, NEW n \in Peers, NEW w \in Workers,
           NEW I \in [Peers -> Nat], NEW C \in [Peers -> Versioned],
           NEW S \in [Peers -> Sessions \cup {NoSession}],
           NEW K \in SUBSET Calls,
           ChangeDb(n, w, I, C, S, K),
           nbr' = nbr, faults' = faults, expired' \in Nat,
           published' \in [Peers -> SUBSET (Nat \X SUBSET Peers)]
    PROVE  TypeOK'
<1>1. /\ info' \in [Peers -> [Peers -> Nat]]
      /\ conn' \in [Peers -> [Peers -> Versioned]]
      /\ dbv' \in [Peers -> Nat]
      /\ reach' \in [Peers -> SUBSET Peers]
      /\ cached' \in [Peers -> [ids : SUBSET Peers, rows : [Peers -> Versioned]]]
      /\ job' \in [Peers -> [Workers -> Jobs]]
      /\ sess' \in [Peers -> [Peers -> Sessions \cup {NoSession}]]
      /\ calls' \in SUBSET Calls
  BY ChangeDbEffect
<1>2. nbr' \in [Peers -> SUBSET Peers] /\ faults' \in Nat
  BY DEF TypeOK
<1> QED
  BY <1>1, <1>2 DEF TypeOK

LEMMA MergeType ==
    /\ \A a, b \in Nat : MergeInfo(a, b) \in Nat
    /\ \A a, b \in Versioned : MergeConn(a, b) \in Versioned
BY DEF MergeInfo, MergeConn, Larger

LEMMA SavedType ==
    ASSUME NEW saved \in [Peers -> Nat], NEW d \in Peers,
           NEW vs \in [Peers -> Nat]
    PROVE  Saved(saved, d, vs) \in [Peers -> Nat]
BY DEF Saved, Larger

LEMMA VersionsType ==
    ASSUME NEW C \in [Peers -> Versioned]
    PROVE  Versions(C) \in [Peers -> Nat]
BY DEF Versions, Versioned

LEMMA UnreachableType ==
    ASSUME NEW unr \in [Peers -> Nat], NEW saved \in [Peers -> Nat],
           NEW old, NEW d \in Peers, NEW vs \in [Peers -> Nat], NEW R
    PROVE  Unreachable(unr, saved, old, d, vs, R) \in [Peers -> Nat]
<1>1. ASSUME NEW p \in Peers
      PROVE  Unreachable(unr, saved, old, d, vs, R)[p] \in Nat
  BY DEF Unreachable
<1>2. Unreachable(unr, saved, old, d, vs, R)
        = [p \in Peers |-> Unreachable(unr, saved, old, d, vs, R)[p]]
  BY DEF Unreachable
<1> QED
  BY <1>1, <1>2

LEMMA DstSessionType ==
    ASSUME NEW S \in Sessions, NEW s \in Nat
    PROVE  /\ UpdateDstSessionId(S, s) \in Sessions
           /\ UpdateDstSessionId(S, s).sid = S.sid
           /\ \/ UpdateDstSessionId(S, s) = S
              \/ /\ UpdateDstSessionId(S, s).savedInfo = Zero
                 /\ UpdateDstSessionId(S, s).savedConn = Zero
BY DEF UpdateDstSessionId, NewSession, Sessions, Zero
-----------------------------------------------------------------------------
\* Type correctness.

\* The request that sync_route_with_peer builds is a well-formed call that
\* holds nothing but n's own entries and rows of its cached bitmap, and the
\* session it is built from changes only its lists of unreachable entries.
LEMMA SyncEffect ==
    ASSUME TypeOK, NEW n \in Peers, NEW d \in Peers, NEW force,
           SyncRouteWithPeer(n, d, force)
    PROVE  /\ TypeOK'
           /\ UNCHANGED <<nbr, info, conn, dbv, reach, cached, job, faults,
                          expired, published>>
           /\ \A m, e \in Peers : SameSaved(sess'[m][e], sess[m][e])
           /\ \E c \in Calls :
                /\ calls' = calls \cup {c}
                /\ c.from = n /\ c.to = d /\ c.phase = "req"
                /\ c.conns \/ c.rows = [p \in Peers |-> NoConn]
                /\ \A p \in Peers :
                     /\ c.infos[p] <= info[n][p]
                     /\ \/ c.rows[p] = NoConn
                        \/ c.rows[p] = conn[n][p]
                        \/ c.rows[p] = cached[n].rows[p]
<1> DEFINE S  == sess[n][d]
           vI == info[n]
           vC == Versions(conn[n])
           sI == ToSend(S.unrInfo, S.savedInfo, S.oldInfo, d, vI, reach[n])
           sC == ToSend(S.unrConn, S.savedConn, S.oldConn, d, vC, reach[n])
           uI == Unreachable(S.unrInfo, S.savedInfo, S.oldInfo, d, vI, reach[n])
           uC == Unreachable(S.unrConn, S.savedConn, S.oldConn, d, vC, reach[n])
           rows == IF sC = {} THEN [p \in Peers |-> NoConn]
                   ELSE IF UsesList(n, d, sC)
                   THEN [p \in Peers |-> IF p \in sC THEN conn[n][p] ELSE NoConn]
                   ELSE cached[n].rows
           c == [from |-> n, to |-> d, sid |-> S.sid,
                 phase |-> "req", waiting |-> TRUE, rsid |-> 0,
                 infos |-> [p \in Peers |-> IF p \in sI THEN vI[p] ELSE 0],
                 rows |-> rows, conns |-> sC # {},
                 freshInfo |-> {}, freshConn |-> {}]
           T == [S EXCEPT !.unrInfo = uI, !.unrConn = uC]
<1>1. /\ sess' = [sess EXCEPT ![n][d] = T]
      /\ calls' = calls \cup {c}
      /\ S # NoSession
      /\ UNCHANGED <<nbr, info, conn, dbv, reach, cached, job, faults,
                     expired, published>>
  BY DEF SyncRouteWithPeer
<1>2. S \in Sessions
  BY SMT, <1>1 DEF TypeOK
<1>3. /\ conn[n] \in [Peers -> Versioned] /\ vI \in [Peers -> Nat]
      /\ cached[n].rows \in [Peers -> Versioned]
      /\ sess \in [Peers -> [Peers -> Sessions \cup {NoSession}]]
      /\ calls \in SUBSET Calls
  BY DEF TypeOK
<1>4. vC \in [Peers -> Nat]
  BY <1>3, VersionsType
<1>5. uI \in [Peers -> Nat] /\ uC \in [Peers -> Nat]
  <2>1. /\ S.unrInfo \in [Peers -> Nat] /\ S.savedInfo \in [Peers -> Nat]
        /\ S.unrConn \in [Peers -> Nat] /\ S.savedConn \in [Peers -> Nat]
    BY <1>2 DEF Sessions
  <2> QED
    BY <2>1, <1>3, <1>4, UnreachableType
<1>6. T \in Sessions
  <2> HIDE DEF S, uI, uC
  <2> QED BY <1>2, <1>5 DEF Sessions
<1>7. rows \in [Peers -> Versioned]
  <2> HIDE DEF sC
  <2> QED BY <1>3, SessionTypes
<1>8. [p \in Peers |-> IF p \in sI THEN vI[p] ELSE 0] \in [Peers -> Nat]
  BY <1>3
<1>9. c \in Calls
  <2>1. S.sid \in Nat \ {0}
    BY <1>2 DEF Sessions
  <2> HIDE DEF S, rows, sI, sC, vI
  <2> QED BY <1>7, <1>8, <2>1 DEF Calls
<1>10. sess' \in [Peers -> [Peers -> Sessions \cup {NoSession}]]
  <2> HIDE DEF T, S
  <2> QED BY <1>1, <1>3, <1>6
<1>11. calls' \in SUBSET Calls
  <2> HIDE DEF c
  <2> QED BY <1>1, <1>3, <1>9
<1>12. TypeOK'
  BY <1>1, <1>10, <1>11 DEF TypeOK
<1>13. ASSUME NEW m \in Peers, NEW e \in Peers
       PROVE  SameSaved(sess'[m][e], sess[m][e])
  <2>1. SameSaved(T, S)
    <3> HIDE DEF S, uI, uC
    <3> QED BY <1>1, <1>2, <1>6, SessionTypes DEF SameSaved, Sessions
  <2> HIDE DEF T, S
  <2>2. CASE m = n /\ e = d
    BY <1>1, <1>3, <2>1, <2>2 DEF S
  <2>3. CASE ~(m = n /\ e = d)
    BY <1>1, <1>3, <2>3 DEF SameSaved
  <2> QED
    BY <2>2, <2>3
<1>14. ASSUME NEW p \in Peers
       PROVE  /\ c.infos[p] <= info[n][p]
              /\ \/ c.rows[p] = NoConn
                 \/ c.rows[p] = conn[n][p]
                 \/ c.rows[p] = cached[n].rows[p]
  <2>1. info[n][p] \in Nat
    BY <1>3
  <2>2. c.infos[p] <= info[n][p]
    <3>1. c.infos = [q \in Peers |-> IF q \in sI THEN vI[q] ELSE 0]
      OBVIOUS
    <3> HIDE DEF sI, c
    <3> QED BY SMTT(30), <2>1, <3>1
  <2>3. \/ rows[p] = NoConn
        \/ rows[p] = conn[n][p]
        \/ rows[p] = cached[n].rows[p]
    <3> HIDE DEF sC
    <3> QED OBVIOUS
  <2> QED
    BY <2>2, <2>3
<1>15. /\ c.from = n /\ c.to = d /\ c.phase = "req"
       /\ c.conns \/ c.rows = [p \in Peers |-> NoConn]
  OBVIOUS
<1> HIDE DEF c
<1> QED
  BY SMT, <1>1, <1>9, <1>12, <1>13, <1>14, <1>15

\* do_sync_route_info: the database takes over what is newer in the request,
\* and the session of the sender records what came with it; if the sender has
\* a new session, what was recorded before is dropped.
LEMMA DoSyncEffect ==
    ASSUME TypeOK, NEW c \in calls, DoSyncRouteInfo(c)
    PROVE  LET n == c.to
           IN
           /\ TypeOK'
           /\ UNCHANGED <<nbr, faults, expired, published>>
           /\ info' = [info EXCEPT ![n] =
                         [p \in Peers |-> MergeInfo(info[n][p], c.infos[p])]]
           /\ \/ conn' = [conn EXCEPT ![n] =
                            [p \in Peers |-> MergeConn(conn[n][p], c.rows[p])]]
              \/ conn' = conn /\ ~c.conns
           /\ reach' = reach
           /\ cached' = cached
           /\ job' = job \/ job' = [job EXCEPT ![n]["rpc"] = Due]
           /\ \A m, e \in Peers :
                ~(m = n /\ e = c.from) => SameSaved(sess'[m][e], sess[m][e])
           /\ \A p \in Peers :
                LET T == sess[n][c.from]
                    U == sess'[n][c.from]
                IN  /\ \/ T # NoSession /\ U.savedInfo[p] <= T.savedInfo[p]
                       \/ p # c.from /\ U.savedInfo[p] <= c.infos[p]
                       \/ U.savedInfo[p] = 0
                    /\ \/ T # NoSession /\ U.savedConn[p] <= T.savedConn[p]
                       \/ p # c.from /\ U.savedConn[p] <= c.rows[p].ver
                       \/ U.savedConn[p] = 0
           /\ \A k \in calls' :
                \/ \E j \in calls : SameCall(k, j)
                \/ /\ k.from = c.from /\ k.to = c.to /\ k.infos = c.infos
                   /\ k.rows = c.rows /\ k.conns = c.conns
<1> DEFINE n == c.to
           S0 == IF sess[n][c.from] = NoSession
                 THEN NewSession(FreshSid(n, c.from)) ELSE sess[n][c.from]
           S1 == UpdateDstSessionId(S0, c.sid)
           S2 == [S1 EXCEPT !.savedInfo = Saved(@, c.from, c.infos),
                            !.savedConn = Saved(@, c.from, Versions(c.rows))]
           some == c.conns \/ \E p \in Peers : c.infos[p] > 0
           I  == [p \in Peers |-> MergeInfo(info[n][p], c.infos[p])]
           C  == [p \in Peers |-> MergeConn(conn[n][p], c.rows[p])]
           done == [c EXCEPT !.rsid = S0.sid,
                             !.phase = IF some THEN "merged" ELSE "resp"]
           K  == (calls \ {c}) \cup {done}
           SS == [sess[n] EXCEPT ![c.from] = S2]
<1>1. /\ c.phase = "req" /\ FreshSids(n, c.from) # {}
      /\ IF some
         THEN ChangeDb(n, "rpc", I, C, SS, K)
         ELSE /\ sess' = [sess EXCEPT ![n] = SS]
              /\ calls' = K
              /\ UNCHANGED <<info, conn, dbv, reach, cached, job>>
      /\ UNCHANGED <<nbr, faults, expired, published>>
  BY DEF DoSyncRouteInfo
<1>2. /\ c \in Calls /\ n \in Peers /\ c.from \in Peers
      /\ c.sid \in Nat /\ c.infos \in [Peers -> Nat]
      /\ c.rows \in [Peers -> Versioned]
  BY DEF TypeOK, Calls
<1>2a. /\ info \in [Peers -> [Peers -> Nat]]
       /\ conn \in [Peers -> [Peers -> Versioned]]
       /\ sess \in [Peers -> [Peers -> Sessions \cup {NoSession}]]
  BY DEF TypeOK
<1>3. S0 \in Sessions
  <2>1. sess[n][c.from] \in Sessions \cup {NoSession}
    BY <1>2, <1>2a
  <2>2. NewSession(FreshSid(n, c.from)) \in Sessions
    BY <1>1, <1>2, FreshSidType, SessionTypes
  <2> QED
    BY <2>1, <2>2
<1>4. S1 \in Sessions
  BY <1>2, <1>3, DstSessionType
<1>5. S2 \in Sessions
  <2>1. /\ Saved(S1.savedInfo, c.from, c.infos) \in [Peers -> Nat]
        /\ Saved(S1.savedConn, c.from, Versions(c.rows)) \in [Peers -> Nat]
    BY <1>2, <1>4, SavedType, VersionsType DEF Sessions
  <2> HIDE DEF S1
  <2> QED BY <1>4, <2>1 DEF Sessions
<1>6. I \in [Peers -> Nat]
  <2>1. ASSUME NEW p \in Peers PROVE MergeInfo(info[n][p], c.infos[p]) \in Nat
    <3>1. info[n][p] \in Nat /\ c.infos[p] \in Nat
      BY <1>2, <1>2a
    <3> QED BY <3>1, MergeType
  <2> QED BY <2>1
<1>7. C \in [Peers -> Versioned]
  <2>1. ASSUME NEW p \in Peers PROVE MergeConn(conn[n][p], c.rows[p]) \in Versioned
    <3>1. conn[n][p] \in Versioned /\ c.rows[p] \in Versioned
      BY <1>2, <1>2a
    <3> QED BY <3>1, MergeType
  <2> QED BY <2>1
<1>8. done \in Calls
  <2>1. S0.sid \in Nat
    BY <1>3 DEF Sessions
  <2> HIDE DEF S0, some
  <2> QED BY <1>2, <2>1 DEF Calls
<1>9. K \in SUBSET Calls
  <2> HIDE DEF done
  <2> QED BY <1>8 DEF TypeOK
<1>10. SS \in [Peers -> Sessions \cup {NoSession}]
  <2>1. sess[n] \in [Peers -> Sessions \cup {NoSession}]
    BY <1>2, <1>2a
  <2> HIDE DEF S2, n
  <2> QED BY <1>5, <2>1
<1>11. ASSUME NEW p \in Peers
       PROVE  LET T == sess[n][c.from]
              IN  /\ \/ T # NoSession /\ S2.savedInfo[p] <= T.savedInfo[p]
                     \/ p # c.from /\ S2.savedInfo[p] <= c.infos[p]
                     \/ S2.savedInfo[p] = 0
                  /\ \/ T # NoSession /\ S2.savedConn[p] <= T.savedConn[p]
                     \/ p # c.from /\ S2.savedConn[p] <= c.rows[p].ver
                     \/ S2.savedConn[p] = 0
  <2>1. /\ S2.savedInfo = Saved(S1.savedInfo, c.from, c.infos)
        /\ S2.savedConn = Saved(S1.savedConn, c.from, Versions(c.rows))
    <3> HIDE DEF S1
    <3> QED BY <1>4 DEF Sessions
  <2>2. \/ S1 = S0
        \/ S1.savedInfo = Zero /\ S1.savedConn = Zero
    BY <1>2, <1>3, DstSessionType
  <2>3. \/ S0 = sess[n][c.from] /\ sess[n][c.from] # NoSession
        \/ S0.savedInfo = Zero /\ S0.savedConn = Zero
    BY DEF NewSession
  <2>4. S1.savedInfo[p] \in Nat /\ S1.savedConn[p] \in Nat
    BY <1>4 DEF Sessions
  <2>5. c.infos[p] \in Nat /\ c.rows[p].ver \in Nat
    BY <1>2 DEF Versioned
  <2>6. Zero[p] = 0
    BY DEF Zero
  <2>7. /\ \/ S2.savedInfo[p] = S1.savedInfo[p]
           \/ p # c.from /\ S2.savedInfo[p] = c.infos[p]
        /\ \/ S2.savedConn[p] = S1.savedConn[p]
           \/ p # c.from /\ S2.savedConn[p] = c.rows[p].ver
    <3> HIDE DEF S1, S2
    <3> QED BY <2>1 DEF Saved, Larger, Versions
  <2> HIDE DEF S0, S1, S2
  <2> QED
    BY SMT, <2>2, <2>3, <2>4, <2>5, <2>6, <2>7
<1>12. /\ done.from = c.from /\ done.to = c.to /\ done.infos = c.infos
       /\ done.rows = c.rows /\ done.conns = c.conns
  <2> HIDE DEF S0, some
  <2> QED BY <1>2 DEF Calls
<1>13. SS[c.from] = S2 /\ \A e \in Peers : e # c.from => SS[e] = sess[n][e]
  <2> HIDE DEF S2, n
  <2> QED BY <1>2, <1>2a
<1>14. S2 # NoSession
  BY <1>5, SessionTypes
<1> HIDE DEF S2, SS, done, I, C
<1>15. CASE some
  <2>1. ChangeDb(n, "rpc", I, C, SS, K)
    BY <1>1, <1>15
  <2>2. TypeOK'
    BY <1>1, <1>2, <1>6, <1>7, <1>9, <1>10, <2>1, ChangeDbType DEF Workers, TypeOK
  <2>3. /\ info' = [info EXCEPT ![n] = I]
        /\ conn' = [conn EXCEPT ![n] = C]
        /\ reach' = reach
        /\ cached' = cached
        /\ job' = job \/ job' = [job EXCEPT ![n]["rpc"] = Due]
        /\ \A m, d \in Peers :
             SameSaved(sess'[m][d], IF m = n THEN SS[d] ELSE sess[m][d])
        /\ \A k \in calls' : \E j \in K : SameCall(k, j)
    <3>1. n \in Peers /\ "rpc" \in Workers
      BY <1>2 DEF Workers
    <3> HIDE DEF n, K, some, S0, S1
    <3> QED
      BY SMT, <1>6, <1>7, <1>9, <1>10, <2>1, <3>1, ChangeDbEffect
  <2>4. info'[n] = I /\ conn'[n] = C
    BY <1>2, <1>2a, <2>3
  <2>5. ASSUME NEW m \in Peers, NEW e \in Peers, ~(m = n /\ e = c.from)
        PROVE  SameSaved(sess'[m][e], sess[m][e])
    BY <2>3, <2>5, <1>13
  <2>6. SameSaved(sess'[n][c.from], S2)
    BY <2>3, <1>2, <1>13
  <2>7. /\ sess'[n][c.from].savedInfo = S2.savedInfo
        /\ sess'[n][c.from].savedConn = S2.savedConn
    BY <2>6, <1>14 DEF SameSaved
  <2>8. ASSUME NEW k \in calls'
        PROVE  \/ \E j \in calls : SameCall(k, j)
               \/ /\ k.from = c.from /\ k.to = c.to /\ k.infos = c.infos
                  /\ k.rows = c.rows /\ k.conns = c.conns
    <3>1. PICK j \in K : SameCall(k, j)
      BY <2>3
    <3>2. CASE j = done
      BY <3>1, <3>2, <1>12 DEF SameCall
    <3>3. CASE j \in calls
      BY <3>1, <3>3
    <3> QED
      BY <3>2, <3>3
  <2> QED
    BY <1>1, <1>11, <2>2, <2>3, <2>4, <2>5, <2>7, <2>8 DEF I, C
<1>16. CASE ~some
  <2>1. /\ sess' = [sess EXCEPT ![n] = SS]
        /\ calls' = K
        /\ UNCHANGED <<info, conn, dbv, reach, cached, job>>
        /\ ~c.conns
    BY <1>1, <1>16
  <2>2. TypeOK'
    <3>1. sess' \in [Peers -> [Peers -> Sessions \cup {NoSession}]]
      BY <1>2a, <1>10, <2>1
    <3> QED
      BY <1>1, <1>9, <2>1, <3>1 DEF TypeOK
  <2>3. I = info[n]
    <3>1. ASSUME NEW p \in Peers PROVE MergeInfo(info[n][p], c.infos[p]) = info[n][p]
      <4>1. info[n][p] \in Nat /\ c.infos[p] = 0
        BY SMT, <1>2, <1>2a, <1>16
      <4> QED
        BY SMT, <4>1 DEF MergeInfo, Larger
    <3> QED
      BY <3>1, <1>2, <1>2a DEF I
  <2>4. info' = [info EXCEPT ![n] = I]
    BY <2>1, <2>3, <1>2, <1>2a
  <2>5. ASSUME NEW m \in Peers, NEW e \in Peers, ~(m = n /\ e = c.from)
        PROVE  SameSaved(sess'[m][e], sess[m][e])
    BY <2>1, <2>5, <1>2a, <1>13 DEF SameSaved
  <2>6. sess'[n][c.from] = S2
    BY <2>1, <1>2, <1>2a, <1>13
  <2>7. ASSUME NEW k \in calls'
        PROVE  \/ \E j \in calls : SameCall(k, j)
               \/ /\ k.from = c.from /\ k.to = c.to /\ k.infos = c.infos
                  /\ k.rows = c.rows /\ k.conns = c.conns
    BY <2>1, <1>12 DEF SameCall
  <2> QED
    BY <1>1, <1>11, <2>1, <2>2, <2>4, <2>5, <2>6, <2>7 DEF I
<1> QED
  BY <1>15, <1>16

-----------------------------------------------------------------------------
\* sync_route_with_peer after the answer: the session records what it sent;
\* if the peer has a new session, what was recorded before is dropped.
LEMMA DoneEffect ==
    ASSUME TypeOK, NEW c \in calls, SyncRouteDone(c)
    PROVE  /\ TypeOK'
           /\ UNCHANGED <<nbr, info, conn, dbv, reach, cached, job,
                          faults, expired, published>>
           /\ calls' = calls \ {c}
           /\ \A m, e \in Peers : sess'[m][e] = sess[m][e]
                \/ /\ c.phase = "resp" /\ m = c.from /\ e = c.to
                   /\ sess[m][e] # NoSession
                   /\ \A p \in Peers :
                       LET T == sess[m][e]
                           U == sess'[m][e]
                       IN  /\ \/ U.savedInfo[p] <= T.savedInfo[p]
                              \/ p # e /\ U.savedInfo[p] <= c.infos[p]
                              \/ U.savedInfo[p] = 0
                           /\ \/ U.savedConn[p] <= T.savedConn[p]
                              \/ p # e /\ U.savedConn[p] <= c.rows[p].ver
                              \/ U.savedConn[p] = 0
<1> DEFINE S == sess[c.from][c.to]
           T == UpdateDstSessionId(S, c.rsid)
           U == [T EXCEPT !.savedInfo = Saved(@, c.to, c.infos),
                          !.savedConn = Saved(@, c.to, Versions(c.rows)),
                          !.oldInfo = Peers \ c.freshInfo,
                          !.oldConn = Peers \ c.freshConn]
<1>1. /\ c.phase = "resp"
      /\ calls' = calls \ {c}
      /\ IF c.waiting /\ S.sid = c.sid
         THEN sess' = [sess EXCEPT ![c.from][c.to] = U]
         ELSE sess' = sess
      /\ UNCHANGED <<nbr, info, conn, dbv, reach, cached, job,
                     faults, expired, published>>
  BY DEF SyncRouteDone
<1>2. /\ c \in Calls /\ c.from \in Peers /\ c.to \in Peers
      /\ c.sid \in Nat \ {0} /\ c.rsid \in Nat
      /\ c.infos \in [Peers -> Nat]
      /\ c.rows \in [Peers -> Versioned]
      /\ c.freshInfo \in SUBSET Peers /\ c.freshConn \in SUBSET Peers
  BY DEF TypeOK, Calls
<1>3. sess \in [Peers -> [Peers -> Sessions \cup {NoSession}]]
  BY DEF TypeOK
<1>4. CASE ~(c.waiting /\ S.sid = c.sid)
  <2>1. sess' = sess
    BY <1>1, <1>4
  <2> QED
    BY <1>1, <2>1 DEF TypeOK
<1>5. CASE c.waiting /\ S.sid = c.sid
  <2>1. S \in Sessions /\ S # NoSession
    BY SMT, <1>2, <1>3, <1>5, SessionTypes DEF NoSession
  <2>2. /\ T \in Sessions
        /\ \/ T = S
           \/ T.savedInfo = Zero /\ T.savedConn = Zero
    BY <1>2, <2>1, DstSessionType
  <2> HIDE DEF T
  <2>3. /\ T.savedInfo \in [Peers -> Nat] /\ T.savedConn \in [Peers -> Nat]
    BY <2>2 DEF Sessions
  <2>4. /\ Saved(T.savedInfo, c.to, c.infos) \in [Peers -> Nat]
        /\ Saved(T.savedConn, c.to, Versions(c.rows)) \in [Peers -> Nat]
    BY <1>2, <2>3, SavedType, VersionsType
  <2>5. /\ U \in Sessions
        /\ U.savedInfo = Saved(T.savedInfo, c.to, c.infos)
        /\ U.savedConn = Saved(T.savedConn, c.to, Versions(c.rows))
    BY <1>2, <2>2, <2>4 DEF Sessions
  <2>6. ASSUME NEW p \in Peers
        PROVE  /\ \/ U.savedInfo[p] <= S.savedInfo[p]
                  \/ p # c.to /\ U.savedInfo[p] <= c.infos[p]
                  \/ U.savedInfo[p] = 0
               /\ \/ U.savedConn[p] <= S.savedConn[p]
                  \/ p # c.to /\ U.savedConn[p] <= c.rows[p].ver
                  \/ U.savedConn[p] = 0
    <3>1. T.savedInfo[p] \in Nat /\ T.savedConn[p] \in Nat
      BY <2>3
    <3>2. c.infos[p] \in Nat /\ c.rows[p].ver \in Nat
      BY <1>2 DEF Versioned
    <3>3. Zero[p] = 0
      BY DEF Zero
    <3> HIDE DEF U, S
    <3>4. /\ \/ U.savedInfo[p] = T.savedInfo[p]
             \/ p # c.to /\ U.savedInfo[p] = c.infos[p]
          /\ \/ U.savedConn[p] = T.savedConn[p]
             \/ p # c.to /\ U.savedConn[p] = c.rows[p].ver
      BY <2>5 DEF Saved, Larger, Versions
    <3> QED
      BY SMT, <2>2, <3>1, <3>2, <3>3, <3>4
  <2> HIDE DEF U
  <2>7. sess' = [sess EXCEPT ![c.from][c.to] = U]
    BY <1>1, <1>5
  <2>8. sess' \in [Peers -> [Peers -> Sessions \cup {NoSession}]]
    BY <1>2, <1>3, <2>5, <2>7
  <2>9. TypeOK'
    BY <1>1, <2>8 DEF TypeOK
  <2>10. /\ sess'[c.from][c.to] = U
         /\ \A m, e \in Peers : \/ m = c.from /\ e = c.to
                                \/ sess'[m][e] = sess[m][e]
    BY <1>2, <1>3, <2>7
  <2> QED
    BY SMT, <1>1, <2>1, <2>6, <2>9, <2>10
<1> QED
  BY <1>4, <1>5

\* The first half of a rebuild: the table and the versions are those of the
\* database.
LEMMA RebuildTableEffect ==
    ASSUME TypeOK, NEW n \in Peers, NEW w \in Workers, RebuildTable(n, w)
    PROVE  LET R == Reachable(n, info[n], conn[n])
               j == [stage |-> "rows", v |-> dbv[n],
                     ids |-> BitmapIds(R, conn[n]),
                     ver |-> BitmapVersions(R, conn[n])]
           IN  /\ TypeOK'
               /\ UNCHANGED <<nbr, info, conn, dbv, cached, sess, calls,
                              faults, expired, published>>
               /\ reach' = [reach EXCEPT ![n] = R]
               /\ job' = [job EXCEPT ![n][w] = j]
<1> DEFINE R == Reachable(n, info[n], conn[n])
           j == [stage |-> "rows", v |-> dbv[n],
                 ids |-> BitmapIds(R, conn[n]),
                 ver |-> BitmapVersions(R, conn[n])]
<1>1. /\ UNCHANGED <<nbr, info, conn, dbv, cached, sess, calls,
                     faults, expired, published>>
      /\ reach' = [reach EXCEPT ![n] = R]
      /\ job' = [job EXCEPT ![n][w] = j]
  BY DEF RebuildTable
<1>2. /\ conn[n] \in [Peers -> Versioned] /\ dbv[n] \in Nat
      /\ reach \in [Peers -> SUBSET Peers]
      /\ job \in [Peers -> [Workers -> Jobs]]
  BY DEF TypeOK
<1>3. R \in SUBSET Peers
  BY ReachableType
<1>4. j \in Jobs
  <2>1. BitmapIds(R, conn[n]) \in SUBSET Peers
         /\ BitmapVersions(R, conn[n]) \in [Peers -> Nat]
    BY <1>2, <1>3, BitmapType
  <2> HIDE DEF R
  <2> QED BY <1>2, <2>1 DEF Jobs
<1>5. reach' \in [Peers -> SUBSET Peers]
  BY <1>1, <1>2, <1>3
<1>6. job' \in [Peers -> [Workers -> Jobs]]
  <2> HIDE DEF j
  <2> QED BY <1>1, <1>2, <1>4
<1> QED
  BY <1>1, <1>5, <1>6 DEF TypeOK

\* The second half: the rows carry the versions read in the first half.
LEMMA RebuildRowsEffect ==
    ASSUME TypeOK, NEW n \in Peers, NEW w \in Workers, RebuildRows(n, w)
    PROVE  LET j == job[n][w]
               b == [ids |-> j.ids, rows |-> BitmapRows(j.ids, j.ver, conn[n])]
           IN  /\ TypeOK'
               /\ UNCHANGED <<nbr, info, conn, reach, sess, faults, expired,
                              published>>
               /\ cached' = cached \/ cached' = [cached EXCEPT ![n] = b]
               /\ \A m \in Peers, u \in Workers :
                    \/ job'[m][u] = Idle
                    \/ /\ job'[m][u].ver = job[m][u].ver
                       /\ job'[m][u].ids = job[m][u].ids
               /\ \A k \in calls' : \E c \in calls :
                    /\ k.from = c.from /\ k.to = c.to /\ k.infos = c.infos
                    /\ k.rows = c.rows /\ k.conns = c.conns
                    /\ k.phase = c.phase \/ c.phase = "merged"
<1> DEFINE j == job[n][w]
           b == [ids |-> j.ids, rows |-> BitmapRows(j.ids, j.ver, conn[n])]
           Rebase(k) == IF k.stage = "rows" THEN [k EXCEPT !.v = Ahead(@, j.v)]
                        ELSE k
           J == [u \in Workers |-> IF u = w THEN Idle ELSE Rebase(job[n][u])]
           Ans(c) == IF w = "rpc" /\ c.to = n /\ c.phase = "merged"
                     THEN [c EXCEPT !.phase = "resp"] ELSE c
<1>1. /\ cached' = cached \/ cached' = [cached EXCEPT ![n] = b]
      /\ dbv' = [dbv EXCEPT ![n] = Ahead(@, j.v)]
      /\ job' = [job EXCEPT ![n] = J]
      /\ calls' = {Ans(c) : c \in calls}
      /\ UNCHANGED <<nbr, info, conn, reach, sess, faults, expired, published>>
  BY DEF RebuildRows
<1>2. /\ conn[n] \in [Peers -> Versioned]
      /\ dbv \in [Peers -> Nat]
      /\ job \in [Peers -> [Workers -> Jobs]]
      /\ calls \in SUBSET Calls
      /\ cached \in [Peers -> [ids : SUBSET Peers, rows : [Peers -> Versioned]]]
  BY DEF TypeOK
<1>3. /\ j \in Jobs /\ j.ids \in SUBSET Peers /\ j.v \in Nat
      /\ j.ver \in [Peers -> Nat]
  BY SMT, <1>2 DEF Jobs
<1> HIDE DEF j
<1>4. \A a \in Nat : Ahead(a, j.v) \in Nat
  BY SMTT(30), <1>3 DEF Ahead
<1>5. b \in [ids : SUBSET Peers, rows : [Peers -> Versioned]]
  <2>1. BitmapRows(j.ids, j.ver, conn[n]) \in [Peers -> Versioned]
    BY <1>2, <1>3, SessionTypes DEF BitmapRows, Versioned
  <2> QED BY <1>3, <2>1
<1>6. cached' \in [Peers -> [ids : SUBSET Peers, rows : [Peers -> Versioned]]]
  <2> HIDE DEF b
  <2> QED BY <1>1, <1>2, <1>5
<1>7. dbv' \in [Peers -> Nat]
  BY <1>1, <1>2, <1>4
<1>8. ASSUME NEW k \in Jobs
      PROVE  Rebase(k) \in Jobs /\ Rebase(k).ver = k.ver /\ Rebase(k).ids = k.ids
  BY <1>4 DEF Jobs
<1>9. ASSUME NEW c \in Calls
      PROVE  /\ Ans(c) \in Calls
             /\ Ans(c).from = c.from /\ Ans(c).to = c.to
             /\ Ans(c).infos = c.infos /\ Ans(c).rows = c.rows
             /\ Ans(c).conns = c.conns
             /\ Ans(c).phase = c.phase \/ c.phase = "merged"
  BY DEF Calls
<1> HIDE DEF Rebase, Ans
<1>10. J \in [Workers -> Jobs]
  BY SMT, <1>2, <1>8, SessionTypes
<1>11. job' \in [Peers -> [Workers -> Jobs]]
  <2> HIDE DEF J
  <2> QED BY <1>1, <1>2, <1>10
<1>12. ASSUME NEW m \in Peers, NEW u \in Workers
       PROVE  \/ job'[m][u] = Idle
              \/ /\ job'[m][u].ver = job[m][u].ver
                 /\ job'[m][u].ids = job[m][u].ids
  <2>1. CASE m = n
    <3>1. job'[m][u] = IF u = w THEN Idle ELSE Rebase(job[n][u])
      BY <1>1, <1>2, <2>1
    <3>2. job[n][u] \in Jobs
      BY SMT, <1>2
    <3> QED BY SMT, <1>8, <2>1, <3>1, <3>2
  <2>2. CASE m # n
    BY <1>1, <1>2, <2>2
  <2> QED BY <2>1, <2>2
<1>13. calls' \in SUBSET Calls
  <2>1. \A c \in calls : Ans(c) \in Calls
    BY <1>2, <1>9
  <2> QED BY <1>1, <2>1
<1>14. TypeOK'
  BY <1>1, <1>6, <1>7, <1>11, <1>13 DEF TypeOK
<1>15. ASSUME NEW k \in calls'
       PROVE  \E c \in calls :
                /\ k.from = c.from /\ k.to = c.to /\ k.infos = c.infos
                /\ k.rows = c.rows /\ k.conns = c.conns
                /\ k.phase = c.phase \/ c.phase = "merged"
  <2>1. PICK c \in calls : k = Ans(c)
    BY <1>1
  <2>2. c \in Calls
    BY <1>2
  <2>3. /\ k.from = c.from /\ k.to = c.to /\ k.infos = c.infos
        /\ k.rows = c.rows /\ k.conns = c.conns
        /\ k.phase = c.phase \/ c.phase = "merged"
    BY <1>9, <2>1, <2>2
  <2> QED BY <2>3
<1> QED
  BY <1>1, <1>12, <1>14, <1>15 DEF j

\* A step that leaves the databases, bitmaps and rebuilds alone and makes no
\* session believe more and no call say more than before.
Quiet ==
    /\ UNCHANGED <<info, conn, reach, cached, job, published>>
    /\ \A m, e \in Peers : sess'[m][e] # NoSession =>
         \A p \in Peers :
            LET T == sess[m][e]
                U == sess'[m][e]
            IN  /\ \/ T # NoSession /\ U.savedInfo[p] <= T.savedInfo[p]
                   \/ U.savedInfo[p] = 0
                /\ \/ T # NoSession /\ U.savedConn[p] <= T.savedConn[p]
                   \/ U.savedConn[p] = 0
    /\ \A k \in calls' : \E c \in calls : SameCall(k, c)

\* A step that replaces at most one session.
LEMMA SessionStep ==
    ASSUME TypeOK, NEW n \in Peers, NEW d \in Peers,
           NEW U \in Sessions \cup {NoSession},
           sess' = [sess EXCEPT ![n][d] = U],
           U # NoSession => \A p \in Peers :
              /\ \/ sess[n][d] # NoSession /\ U.savedInfo[p] <= sess[n][d].savedInfo[p]
                 \/ U.savedInfo[p] = 0
              /\ \/ sess[n][d] # NoSession /\ U.savedConn[p] <= sess[n][d].savedConn[p]
                 \/ U.savedConn[p] = 0,
           faults' \in Nat, expired' \in Nat,
           UNCHANGED <<nbr, info, conn, dbv, reach, cached, job, calls, published>>
    PROVE  TypeOK' /\ Quiet
<1>1. sess \in [Peers -> [Peers -> Sessions \cup {NoSession}]]
  BY DEF TypeOK
<1>2. sess' \in [Peers -> [Peers -> Sessions \cup {NoSession}]]
  BY <1>1
<1>3. TypeOK'
  BY <1>2 DEF TypeOK
<1>4. ASSUME NEW m \in Peers, NEW e \in Peers, sess'[m][e] # NoSession,
             NEW p \in Peers
      PROVE  /\ \/ sess[m][e] # NoSession /\ sess'[m][e].savedInfo[p] <= sess[m][e].savedInfo[p]
                \/ sess'[m][e].savedInfo[p] = 0
             /\ \/ sess[m][e] # NoSession /\ sess'[m][e].savedConn[p] <= sess[m][e].savedConn[p]
                \/ sess'[m][e].savedConn[p] = 0
  <2>1. CASE m = n /\ e = d
    <3>1. sess'[m][e] = U
      BY <1>1, <2>1
    <3> QED BY <1>4, <2>1, <3>1
  <2>2. CASE ~(m = n /\ e = d)
    <3>1. sess'[m][e] = sess[m][e]
      BY <1>1, <2>2
    <3>2. sess[m][e] \in Sessions
      BY SMT, <1>1, <1>4, <3>1
    <3>3. sess[m][e].savedInfo[p] \in Nat /\ sess[m][e].savedConn[p] \in Nat
      BY <3>2 DEF Sessions
    <3> QED BY SMT, <1>4, <3>1, <3>3
  <2> QED BY <2>1, <2>2
<1>5. \A k \in calls' : \E c \in calls : SameCall(k, c)
  BY DEF SameCall
<1> QED
  BY <1>3, <1>4, <1>5 DEF Quiet

\* The steps of the environment and of maintain_sessions are quiet.
LEMMA QuietSteps ==
    ASSUME TypeOK,
           \/ \E n, d \in Peers : \/ StartSession(n, d)
                                  \/ StopSession(n, d)
                                  \/ CleanDstSavedMap(n, d)
                                  \/ Connect(n, d)
                                  \/ Disconnect(n, d)
           \/ \E c \in calls : CallTimeout(c) \/ CallLost(c)
           \/ UNCHANGED vars
    PROVE  TypeOK' /\ Quiet
<1>0. /\ sess \in [Peers -> [Peers -> Sessions \cup {NoSession}]]
      /\ calls \in SUBSET Calls
      /\ nbr \in [Peers -> SUBSET Peers]
      /\ faults \in Nat /\ expired \in Nat
  BY DEF TypeOK
<1>1. ASSUME NEW n \in Peers, NEW d \in Peers, StartSession(n, d)
      PROVE  TypeOK' /\ Quiet
  <2> DEFINE U == NewSession(FreshSid(n, d))
  <2>1. /\ sess' = [sess EXCEPT ![n][d] = U]
        /\ UNCHANGED <<nbr, info, conn, dbv, reach, cached, job, calls, faults,
                       expired, published>>
        /\ FreshSids(n, d) # {}
    BY <1>1 DEF StartSession
  <2>2. U \in Sessions
    BY <2>1, FreshSidType, SessionTypes
  <2>3. \A p \in Peers : U.savedInfo[p] = 0 /\ U.savedConn[p] = 0
    BY DEF NewSession, Zero
  <2> HIDE DEF U
  <2> QED BY <1>0, <2>1, <2>2, <2>3, SessionStep
<1>2. ASSUME NEW n \in Peers, NEW d \in Peers, StopSession(n, d)
      PROVE  TypeOK' /\ Quiet
  <2>1. /\ sess' = [sess EXCEPT ![n][d] = NoSession]
        /\ faults' = faults + 1 \/ faults' = faults
        /\ UNCHANGED <<nbr, info, conn, dbv, reach, cached, job, calls,
                       expired, published>>
    BY <1>2 DEF StopSession
  <2>2. faults' \in Nat /\ expired' \in Nat
    BY SMT, <1>0, <2>1
  <2> DEFINE U == NoSession
  <2>3. U \in Sessions \cup {NoSession} /\ U = NoSession
    OBVIOUS
  <2> HIDE DEF U
  <2> QED BY <2>1, <2>2, <2>3, SessionStep
<1>3. ASSUME NEW n \in Peers, NEW d \in Peers, CleanDstSavedMap(n, d)
      PROVE  TypeOK' /\ Quiet
  <2> DEFINE S == sess[n][d]
             Clean(saved, old, unr) ==
                [p \in Peers |-> IF p \in old /\ unr[p] = 0 THEN 0 ELSE saved[p]]
             cI == Clean(S.savedInfo, S.oldInfo, S.unrInfo)
             cC == Clean(S.savedConn, S.oldConn, S.unrConn)
             U == [S EXCEPT !.savedInfo = cI, !.savedConn = cC]
  <2>1. /\ S # NoSession
        /\ sess' = [sess EXCEPT ![n][d] = U]
        /\ expired' = expired + 1
        /\ UNCHANGED <<nbr, info, conn, dbv, reach, cached, job, calls,
                       faults, published>>
    BY <1>3 DEF CleanDstSavedMap
  <2>2. S \in Sessions
    BY <1>0, <2>1
  <2> HIDE DEF S
  <2>3. S.savedInfo \in [Peers -> Nat] /\ S.savedConn \in [Peers -> Nat]
    BY <2>2 DEF Sessions
  <2>4. /\ cI \in [Peers -> Nat] /\ cC \in [Peers -> Nat]
        /\ \A p \in Peers : cI[p] <= S.savedInfo[p] /\ cC[p] <= S.savedConn[p]
    BY SMT, <2>3
  <2> HIDE DEF cI, cC
  <2>5. U \in Sessions /\ U.savedInfo = cI /\ U.savedConn = cC
    BY <2>2, <2>4 DEF Sessions
  <2> HIDE DEF U
  <2>6. expired' \in Nat /\ faults' \in Nat
    BY SMT, <1>0, <2>1
  <2>7. \A p \in Peers :
           /\ sess[n][d] # NoSession /\ U.savedInfo[p] <= sess[n][d].savedInfo[p]
           /\ sess[n][d] # NoSession /\ U.savedConn[p] <= sess[n][d].savedConn[p]
    BY <2>1, <2>4, <2>5 DEF S
  <2> QED BY <2>1, <2>5, <2>6, <2>7, SessionStep
<1>4. ASSUME sess' = sess, calls' = calls, nbr' \in [Peers -> SUBSET Peers],
             faults' \in Nat,
             UNCHANGED <<info, conn, dbv, reach, cached, job, expired, published>>
      PROVE  TypeOK' /\ Quiet
  <2>1. TypeOK'
    BY <1>4 DEF TypeOK
  <2>2. ASSUME NEW m \in Peers, NEW e \in Peers, sess[m][e] # NoSession
        PROVE  /\ sess[m][e].savedInfo \in [Peers -> Nat]
               /\ sess[m][e].savedConn \in [Peers -> Nat]
    <3>1. sess[m][e] \in Sessions
      BY <1>0, <2>2
    <3> QED BY <3>1 DEF Sessions
  <2>3. \A k \in calls' : \E c \in calls : SameCall(k, c)
    BY <1>4 DEF SameCall
  <2> QED BY SMTT(30), <1>4, <2>1, <2>2, <2>3 DEF Quiet
<1>5. ASSUME NEW n \in Peers, NEW d \in Peers,
             Connect(n, d) \/ Disconnect(n, d)
      PROVE  TypeOK' /\ Quiet
  <2>1. nbr' \in [Peers -> SUBSET Peers]
    <3>1. CASE Connect(n, d)
      BY <1>0, <3>1 DEF Connect
    <3>2. CASE Disconnect(n, d)
      BY <1>0, <3>2 DEF Disconnect
    <3> QED BY <1>5, <3>1, <3>2
  <2>2. faults' \in Nat
    BY SMT, <1>0, <1>5 DEF Connect, Disconnect
  <2> QED BY <1>4, <1>5, <2>1, <2>2 DEF Connect, Disconnect
<1>6. CASE UNCHANGED vars
  BY <1>0, <1>4, <1>6 DEF vars
<1>7. ASSUME NEW c \in calls, CallTimeout(c) \/ CallLost(c)
      PROVE  TypeOK' /\ Quiet
  <2> DEFINE k == [c EXCEPT !.waiting = FALSE]
  <2>1. /\ calls' \subseteq calls \cup {k}
        /\ faults' = faults + 1 \/ faults' = faults
        /\ UNCHANGED <<nbr, info, conn, dbv, reach, cached, job, sess,
                       expired, published>>
    BY <1>7 DEF CallTimeout, CallLost
  <2>2. k \in Calls /\ SameCall(k, c)
    BY <1>0 DEF Calls, SameCall
  <2> HIDE DEF k
  <2>3. calls' \in SUBSET Calls
    BY <1>0, <2>1, <2>2
  <2>4. TypeOK'
    BY SMT, <2>1, <2>3 DEF TypeOK
  <2>5. \A j \in calls' : \E i \in calls : SameCall(j, i)
    BY <2>1, <2>2 DEF SameCall
  <2>6. ASSUME NEW m \in Peers, NEW e \in Peers, sess[m][e] # NoSession
        PROVE  /\ sess[m][e].savedInfo \in [Peers -> Nat]
               /\ sess[m][e].savedConn \in [Peers -> Nat]
    <3>1. sess[m][e] \in Sessions
      BY <1>0, <2>6
    <3> QED BY <3>1 DEF Sessions
  <2> QED BY SMT, <2>1, <2>4, <2>5, <2>6 DEF Quiet
<1> QED
  BY <1>1, <1>2, <1>3, <1>5, <1>6, <1>7

\* The node's own updates and clear_expired_peer only change the database of
\* one node: its own entries get the next version, expired ones are dropped.
LEMMA OwnUpdateEffect ==
    ASSUME TypeOK, NEW n \in Peers,
           \/ UpdateMyPeerInfo(n)
           \/ UpdateMyConnInfo(n)
           \/ \E X \in SUBSET Peers : ClearExpiredPeer(n, X)
    PROVE  /\ TypeOK'
           /\ \E I \in [Peers -> Nat], C \in [Peers -> Versioned] :
                /\ ChangeDb(n, "self", I, C, sess[n], calls)
                /\ \A p \in Peers : p # n => /\ I[p] <= info[n][p]
                                             /\ C[p].ver <= conn[n][p].ver
                /\ n \in reach[n] => /\ info[n][n] <= I[n]
                                     /\ conn[n][n].ver <= C[n].ver
                /\ MaxExpired = 0 =>
                     \A p \in Peers : /\ info[n][p] <= I[p]
                                      /\ conn[n][p].ver <= C[p].ver
<1>1. /\ info \in [Peers -> [Peers -> Nat]] /\ info[n] \in [Peers -> Nat]
      /\ conn[n] \in [Peers -> Versioned]
      /\ \A p \in Peers : conn[n][p].ver \in Nat
      /\ nbr[n] \in SUBSET Peers /\ expired \in Nat
      /\ sess[n] \in [Peers -> Sessions \cup {NoSession}]
      /\ calls \in SUBSET Calls
      /\ published \in [Peers -> SUBSET (Nat \X SUBSET Peers)]
  BY SMT DEF TypeOK, Versioned
<1>2. "self" \in Workers
  BY DEF Workers
<1>3. CASE UpdateMyPeerInfo(n)
  <2> DEFINE I == [info[n] EXCEPT ![n] = @ + 1]
             C == conn[n]
  <2>1. /\ ChangeDb(n, "self", I, C, sess[n], calls)
        /\ UNCHANGED <<nbr, faults, expired, published>>
    BY <1>3 DEF UpdateMyPeerInfo
  <2>2. /\ I \in [Peers -> Nat]
        /\ \A p \in Peers : p # n => I[p] <= info[n][p]
        /\ \A p \in Peers : info[n][p] <= I[p]
    BY SMT, <1>1
  <2>3. /\ C \in [Peers -> Versioned]
        /\ \A p \in Peers : C[p].ver <= conn[n][p].ver
        /\ \A p \in Peers : conn[n][p].ver <= C[p].ver
    BY SMT, <1>1
  <2> HIDE DEF I, C
  <2>4. TypeOK'
    BY <1>1, <1>2, <2>1, <2>2, <2>3, ChangeDbType
  <2> QED BY <2>1, <2>2, <2>3, <2>4
<1>4. CASE UpdateMyConnInfo(n)
  <2> DEFINE v == conn[n][n].ver + 1
             I == info[n]
             C == [conn[n] EXCEPT ![n] = [ver |-> v, peers |-> nbr[n]]]
  <2>1. /\ ChangeDb(n, "self", I, C, sess[n], calls)
        /\ published' = [published EXCEPT ![n] = @ \cup {<<v, nbr[n]>>}]
        /\ UNCHANGED <<nbr, faults, expired>>
    BY <1>4 DEF UpdateMyConnInfo
  <2>2. /\ I \in [Peers -> Nat]
        /\ \A p \in Peers : I[p] <= info[n][p] /\ info[n][p] <= I[p]
    BY SMT, <1>1
  <2>3. v \in Nat /\ conn[n][n].ver <= v
    BY SMT, <1>1
  <2>4. [ver |-> v, peers |-> nbr[n]] \in Versioned
    BY <1>1, <2>3 DEF Versioned
  <2>5. /\ C \in [Peers -> Versioned]
        /\ \A p \in Peers : p # n => C[p] = conn[n][p]
        /\ C[n].ver = v
    BY <1>1, <2>4
  <2>6. published' \in [Peers -> SUBSET (Nat \X SUBSET Peers)]
    <3>1. <<v, nbr[n]>> \in Nat \X SUBSET Peers
      BY <1>1, <2>3
    <3> HIDE DEF v
    <3> QED BY SMT, <1>1, <2>1, <3>1
  <2> HIDE DEF I, C, v
  <2>7. /\ \A p \in Peers : p # n => C[p].ver <= conn[n][p].ver
        /\ \A p \in Peers : conn[n][p].ver <= C[p].ver
    <3>1. ASSUME NEW p \in Peers, p # n
          PROVE  C[p].ver <= conn[n][p].ver /\ conn[n][p].ver <= C[p].ver
      <4>1. C[p] = conn[n][p] /\ conn[n][p].ver \in Nat
        BY <1>1, <2>5, <3>1
      <4> QED BY SMT, <4>1
    <3>2. conn[n][n].ver <= C[n].ver
      BY <2>3, <2>5
    <3> QED BY <3>1, <3>2
  <2>8. TypeOK'
    BY <1>1, <1>2, <2>1, <2>2, <2>5, <2>6, ChangeDbType
  <2> QED BY <2>1, <2>2, <2>5, <2>7, <2>8
<1>5. ASSUME NEW X \in SUBSET Peers, ClearExpiredPeer(n, X)
      PROVE  /\ TypeOK'
             /\ MaxExpired # 0
             /\ \E I \in [Peers -> Nat], C \in [Peers -> Versioned] :
                /\ ChangeDb(n, "self", I, C, sess[n], calls)
                /\ \A p \in Peers : p # n => /\ I[p] <= info[n][p]
                                             /\ C[p].ver <= conn[n][p].ver
                /\ n \in reach[n] => /\ info[n][n] <= I[n]
                                     /\ conn[n][n].ver <= C[n].ver
  <2> DEFINE I == [p \in Peers |-> IF p \in X THEN 0 ELSE info[n][p]]
             C == [p \in Peers |-> IF p \in X THEN NoConn ELSE conn[n][p]]
  <2>1. /\ ChangeDb(n, "self", I, C, sess[n], calls)
        /\ n \in reach[n] => n \notin X
        /\ expired < MaxExpired
        /\ expired' = expired + 1
        /\ UNCHANGED <<nbr, faults, published>>
    BY <1>5 DEF ClearExpiredPeer, Renewed
  <2>2. /\ I \in [Peers -> Nat]
        /\ \A p \in Peers : I[p] <= info[n][p]
        /\ n \in reach[n] => info[n][n] <= I[n]
    BY SMTT(30), <1>1, <2>1
  <2>3. NoConn.ver = 0
    BY DEF NoConn
  <2>4. /\ C \in [Peers -> Versioned]
        /\ \A p \in Peers : C[p] = NoConn \/ C[p] = conn[n][p]
        /\ n \in reach[n] => C[n] = conn[n][n]
    BY <1>1, <2>1, SessionTypes
  <2> HIDE DEF I, C
  <2>5. \A p \in Peers : C[p].ver <= conn[n][p].ver
    BY SMT, <1>1, <2>3, <2>4
  <2>6. n \in reach[n] => conn[n][n].ver <= C[n].ver
    BY SMT, <1>1, <2>4
  <2>7. expired' \in Nat /\ MaxExpired # 0
    BY SMT, <1>1, <2>1, ConstAssumption
  <2>8. TypeOK'
    BY <1>1, <1>2, <2>1, <2>2, <2>4, <2>7, ChangeDbType
  <2> QED BY <2>1, <2>2, <2>4, <2>5, <2>6, <2>7, <2>8
<1> QED
  BY <1>3, <1>4, <1>5

\* Every step keeps the types.
LEMMA TypeStep ==
    ASSUME TypeOK, [Next]_vars
    PROVE  TypeOK'
<1>1. ASSUME NEW n \in Peers,
             \/ UpdateMyPeerInfo(n)
             \/ UpdateMyConnInfo(n)
             \/ \E X \in SUBSET Peers : ClearExpiredPeer(n, X)
      PROVE  TypeOK'
  BY <1>1, OwnUpdateEffect
<1>2. ASSUME NEW n \in Peers, NEW w \in Workers,
             RebuildTable(n, w) \/ RebuildRows(n, w)
      PROVE  TypeOK'
  BY <1>2, RebuildTableEffect, RebuildRowsEffect
<1>3. ASSUME NEW n \in Peers, NEW d \in Peers, Sync(n, d)
      PROVE  TypeOK'
  BY <1>3, SyncEffect DEF Sync
<1>4. ASSUME NEW c \in calls, DoSyncRouteInfo(c)
      PROVE  TypeOK'
  BY <1>4, DoSyncEffect
<1>5. ASSUME NEW c \in calls, SyncRouteDone(c)
      PROVE  TypeOK'
  BY <1>5, DoneEffect
<1>6. CASE \/ \E n, d \in Peers : \/ StartSession(n, d)
                                  \/ StopSession(n, d)
                                  \/ CleanDstSavedMap(n, d)
                                  \/ Connect(n, d)
                                  \/ Disconnect(n, d)
           \/ \E c \in calls : CallTimeout(c) \/ CallLost(c)
           \/ UNCHANGED vars
  BY <1>6, QuietSteps
<1> QED
  BY <1>1, <1>2, <1>3, <1>4, <1>5, <1>6 DEF Next

LEMMA TypeInit ==
    ASSUME Init
    PROVE  TypeOK
<1>1. /\ nbr \in [Peers -> SUBSET Peers]
      /\ info \in [Peers -> [Peers -> Nat]]
      /\ dbv \in [Peers -> Nat]
      /\ reach \in [Peers -> SUBSET Peers]
      /\ calls \in SUBSET Calls
      /\ faults \in Nat /\ expired \in Nat
  BY DEF Init
<1>2. [ver |-> 1, peers |-> {}] \in Versioned
  BY DEF Versioned
<1>3. conn \in [Peers -> [Peers -> Versioned]]
  BY <1>2, SessionTypes DEF Init
<1>4. cached \in [Peers -> [ids : SUBSET Peers, rows : [Peers -> Versioned]]]
  <2>1. cached = [n \in Peers |-> Bitmap({n}, conn[n])]
    BY DEF Init
  <2>2. ASSUME NEW n \in Peers
        PROVE  Bitmap({n}, conn[n]) \in [ids : SUBSET Peers, rows : [Peers -> Versioned]]
    <3>1. conn[n] \in [Peers -> Versioned] /\ {n} \in SUBSET Peers
      BY <1>3
    <3> QED BY <3>1, BitmapType
  <2> QED BY <2>1, <2>2
<1>5. job \in [Peers -> [Workers -> Jobs]]
  BY SessionTypes DEF Init
<1>6. sess \in [Peers -> [Peers -> Sessions \cup {NoSession}]]
  BY DEF Init
<1>7. published \in [Peers -> SUBSET (Nat \X SUBSET Peers)]
  BY SMT DEF Init
<1> QED
  BY <1>1, <1>3, <1>4, <1>5, <1>6, <1>7 DEF TypeOK

\* Databases, sessions, calls in flight and half-done rebuilds are well formed
\* whatever the peers, links and tasks do, and no rebuild ever counts behind
\* the version of the cached bitmap (set_if_larger).
THEOREM TypeCorrect == Spec => []TypeOK
<1>1. Init => TypeOK
  BY TypeInit
<1>2. TypeOK /\ [Next]_vars => TypeOK'
  BY TypeStep
<1> QED
  BY <1>1, <1>2, PTL DEF Spec
-----------------------------------------------------------------------------
\* The numbers the two invariants compare.
VersionsAreNat ==
    /\ \A n, p \in Peers : /\ info[n][p] \in Nat
                           /\ conn[n][p].ver \in Nat
                           /\ conn[n][p] \in Versioned
                           /\ cached[n].rows[p].ver \in Nat
    /\ \A n, p \in Peers, w \in Workers : job[n][w].ver[p] \in Nat
    /\ \A c \in calls, p \in Peers : /\ c.infos[p] \in Nat
                                     /\ c.rows[p].ver \in Nat
                                     /\ c.rows[p] \in Versioned

LEMMA VersionTypes == TypeOK => VersionsAreNat
<1> SUFFICES ASSUME TypeOK PROVE VersionsAreNat
  OBVIOUS
<1>1. ASSUME NEW n \in Peers, NEW p \in Peers
      PROVE  /\ info[n][p] \in Nat /\ conn[n][p].ver \in Nat
             /\ conn[n][p] \in Versioned
             /\ cached[n].rows[p].ver \in Nat
  <2>1. /\ info[n] \in [Peers -> Nat] /\ conn[n] \in [Peers -> Versioned]
        /\ cached[n].rows \in [Peers -> Versioned]
    BY DEF TypeOK
  <2> QED BY <2>1 DEF Versioned
<1>2. ASSUME NEW n \in Peers, NEW p \in Peers, NEW w \in Workers
      PROVE  job[n][w].ver[p] \in Nat
  <2>1. job[n][w] \in Jobs
    BY SMT DEF TypeOK
  <2> QED BY <2>1 DEF Jobs
<1>3. ASSUME NEW c \in calls, NEW p \in Peers
      PROVE  /\ c.infos[p] \in Nat /\ c.rows[p].ver \in Nat
             /\ c.rows[p] \in Versioned
  <2>1. c \in Calls
    BY DEF TypeOK
  <2>2. c.infos \in [Peers -> Nat] /\ c.rows \in [Peers -> Versioned]
    BY <2>1 DEF Calls
  <2> QED BY <2>2 DEF Versioned
<1> QED
  BY <1>1, <1>2, <1>3 DEF VersionsAreNat

LEMMA VersionTypesNext == TypeOK' => VersionsAreNat'
BY VersionTypes, PTL

\* A bitmap states no version that the database it is built from lacks.
LEMMA BitmapBound ==
    ASSUME NEW R \in SUBSET Peers, NEW C \in [Peers -> Versioned],
           NEW p \in Peers
    PROVE  /\ BitmapVersions(R, C)[p] <= C[p].ver
           /\ Bitmap(R, C).rows[p].ver <= C[p].ver
<1>1. C[p].ver \in Nat
  BY DEF Versioned
<1>2. /\ BitmapVersions(R, C)[p] \in Nat
      /\ BitmapVersions(R, C)[p] <= C[p].ver
  BY SMT, <1>1 DEF BitmapVersions
<1>3. Bitmap(R, C).rows[p] = BitmapRows(BitmapIds(R, C), BitmapVersions(R, C), C)[p]
  BY DEF Bitmap
<1>4. \/ BitmapRows(BitmapIds(R, C), BitmapVersions(R, C), C)[p].ver = BitmapVersions(R, C)[p]
      \/ BitmapRows(BitmapIds(R, C), BitmapVersions(R, C), C)[p].ver = 0
  BY DEF BitmapRows, NoConn
<1> QED
  BY SMTT(30), <1>1, <1>2, <1>3, <1>4

\* A row of a bitmap has the version it was given, or 0.
LEMMA RowVersion ==
    ASSUME NEW ids, NEW ver \in [Peers -> Nat], NEW C, NEW p \in Peers
    PROVE  BitmapRows(ids, ver, C)[p].ver <= ver[p]
BY SMT DEF BitmapRows, NoConn
=============================================================================
