---------------------------- MODULE PeerConnsProofs ----------------------------
(***************************************************************************)
(* No connection of PeerConns is leaked and no URL is forgotten while a    *)
(* connection to it is open, for every number of connections, URLs and     *)
(* calls from outside.  What is carried along is where a connection is: in *)
(* the Peer its task worked on, which somebody refers to.                  *)
(***************************************************************************)
EXTENDS PeerConns, TLAPS

\* A task has its Peer from the moment it holds one, and only a task that made
\* a Peer of its own publishes it.
PeerOfTask ==
    /\ \A c \in Conns : pc[c] \in {"insert", "publish", "done"} => peer[c] \in Conns
    /\ \A c \in Conns : pc[c] = "publish" => peer[c] = c

\* An open connection is in the Peer that add_peer_conn put it in.
OpenIsInPeer ==
    \A c \in Conns : pc[c] \in {"publish", "done"} /\ c \notin closed =>
        c \in conns[peer[c]]

IInv == TypeOK /\ PeerOfTask /\ OpenIsInPeer /\ OpenUrlIsAlive

LEMMA InitEstablishes == Init => IInv
<1> SUFFICES ASSUME Init PROVE IInv
  OBVIOUS
<1>1. closes \in 0..MaxCloses
  BY ConnsAssumption DEF Init
<1> QED
  BY <1>1 DEF Init, IInv, TypeOK, PeerOfTask, OpenIsInPeer, OpenUrlIsAlive, Adding

\* A step of one kind for every action.
LEMMA StartKeeps ==
  ASSUME IInv, NEW c \in Conns, Start(c)
  PROVE  IInv'
<1>1. \A i \in Conns : Referred(i) => Referred(i)'
  BY DEF IInv, TypeOK, Start, Referred, Holding
<1> QED
  BY <1>1 DEF IInv, TypeOK, PeerOfTask, OpenIsInPeer, OpenUrlIsAlive, Start, Adding

LEMMA CheckKeeps ==
  ASSUME IInv, NEW c \in Conns, Check(c)
  PROVE  IInv'
<1>1. \A i \in Conns : Referred(i) => Referred(i)'
  BY DEF IInv, TypeOK, Check, Referred, Holding
<1> QED
  BY <1>1 DEF IInv, TypeOK, PeerOfTask, OpenIsInPeer, OpenUrlIsAlive, Check, Adding

LEMMA GetPeerKeeps ==
  ASSUME IInv, NEW c \in Conns, GetPeer(c)
  PROVE  IInv'
<1>1. \A i \in Conns : Referred(i) => Referred(i)'
  BY DEF IInv, TypeOK, GetPeer, Referred, Holding
<1> QED
  BY <1>1 DEF IInv, TypeOK, PeerOfTask, OpenIsInPeer, OpenUrlIsAlive, GetPeer, Adding

\* add_peer_conn: the Peer stays if somebody else refers to it, and otherwise
\* goes with all its connections closed.
LEMMA InsertKeeps ==
  ASSUME IInv, NEW c \in Conns, InsertConn(c)
  PROVE  IInv'
<1> DEFINE i == peer[c]
<1>1. /\ i \in Conns /\ pc[c] = "insert"
      /\ pc' = [pc EXCEPT ![c] = IF i = c THEN "publish" ELSE "done"]
      /\ watched' = watched \cup {c}
      /\ UNCHANGED <<peer_map, peer, alive, cleaner, closes>>
  BY DEF IInv, PeerOfTask, InsertConn
<1>2. CASE i = c \/ i = peer_map \/ \E d \in Conns \ {c} : Holding(d) /\ peer[d] = i
  <2>1. conns' = [conns EXCEPT ![i] = @ \cup {c}] /\ UNCHANGED <<events, closed>>
    BY <1>2 DEF InsertConn
  <2>2. \A j \in Conns : Referred(j) => Referred(j)'
    BY <1>1, <1>2 DEF IInv, TypeOK, Referred, Holding
  <2>3. Referred(i)'
    BY <1>1, <1>2 DEF IInv, TypeOK, Referred, Holding
  <2>4. TypeOK'
    BY <1>1, <2>1, <2>2, <2>3 DEF IInv, TypeOK, Adding
  <2>5. PeerOfTask'
    BY <1>1 DEF IInv, TypeOK, PeerOfTask
  <2>6. OpenIsInPeer'
    BY <1>1, <2>1 DEF IInv, TypeOK, PeerOfTask, OpenIsInPeer
  <2>7. OpenUrlIsAlive'
    BY <1>1, <2>1 DEF IInv, TypeOK, OpenUrlIsAlive
  <2> QED
    BY <2>4, <2>5, <2>6, <2>7 DEF IInv
<1>3. CASE ~(i = c \/ i = peer_map \/ \E d \in Conns \ {c} : Holding(d) /\ peer[d] = i)
  <2>1. /\ conns' = [conns EXCEPT ![i] = {}]
        /\ closed' = closed \cup {c} \cup conns[i]
        /\ events' = [events EXCEPT ![i] = {}]
    BY <1>3 DEF InsertConn
  <2>2. \A j \in Conns \ {i} : Referred(j) => Referred(j)'
    BY <1>1, <1>3 DEF IInv, TypeOK, Referred, Holding
  <2>4. TypeOK'
    BY <1>1, <2>1, <2>2 DEF IInv, TypeOK, Adding
  <2>5. PeerOfTask'
    BY <1>1 DEF IInv, TypeOK, PeerOfTask
  <2>6. OpenIsInPeer'
    BY <1>1, <2>1 DEF IInv, TypeOK, PeerOfTask, OpenIsInPeer
  <2>7. OpenUrlIsAlive'
    BY <1>1, <2>1 DEF IInv, TypeOK, OpenUrlIsAlive
  <2> QED
    BY <2>4, <2>5, <2>6, <2>7 DEF IInv
<1> QED
  BY <1>2, <1>3

\* The Peers nobody refers to any more are dropped: those that are left are
\* referred to, and what the others held is closed.
LEMMA ReleaseKeeps ==
  ASSUME IInv, NEW m \in Conns \cup {None}, NEW H \in SUBSET Conns, Release(m, H),
         peer_map' = m, peer' = peer,
         \A d \in H : Holding(d)',
         pc' \in [Conns -> Adding \cup {"new", "done", "panicked"}],
         \A c \in Conns : pc'[c] # pc[c] => pc[c] = "publish" /\ pc'[c] = "done",
         UNCHANGED <<watched, alive>>,
         cleaner' \in {"idle", "listed", "remove"}, closes' \in 0..MaxCloses
  PROVE  IInv'
<1> DEFINE freed == {i \in Conns : i # m /\ \A c \in H : peer[c] # i}
<1>1. /\ closed' = closed \cup UNION {conns[i] : i \in freed}
      /\ conns' = [i \in Conns |-> IF i \in freed THEN {} ELSE conns[i]]
      /\ events' = [i \in Conns |-> IF i \in freed THEN {} ELSE events[i]]
  BY DEF Release
<1>2. \A i \in Conns : i \notin freed => Referred(i)'
  BY DEF Referred
<1>3. closed \subseteq closed' /\ closed' \subseteq Conns
  BY <1>1 DEF IInv, TypeOK
<1>4. \A i \in freed : conns[i] \subseteq closed'
  BY <1>1
<1>5. conns' \in [Conns -> SUBSET Conns] /\ events' \in [Conns -> SUBSET Conns]
  BY <1>1 DEF IInv, TypeOK
<1>6. \A i \in Conns : /\ i \in freed => conns'[i] = {}
                       /\ i \notin freed => conns'[i] = conns[i]
  BY <1>1
<1> HIDE DEF freed
<1>7. TypeOK'
  BY <1>2, <1>3, <1>5, <1>6 DEF IInv, TypeOK
<1>8. PeerOfTask'
  BY DEF IInv, PeerOfTask
<1>9. OpenIsInPeer'
  BY <1>3, <1>4, <1>6 DEF IInv, PeerOfTask, OpenIsInPeer
<1>10. OpenUrlIsAlive'
  BY <1>3 DEF IInv, OpenUrlIsAlive
<1> QED
  BY <1>7, <1>8, <1>9, <1>10 DEF IInv

LEMMA PublishKeeps ==
  ASSUME IInv, NEW c \in Conns, Publish(c)
  PROVE  IInv'
<1> DEFINE H == {d \in Conns \ {c} : Holding(d)}
<1>1. /\ pc[c] = "publish" /\ pc' = [pc EXCEPT ![c] = "done"]
      /\ peer_map' = c /\ Release(c, H)
      /\ UNCHANGED <<peer, watched, alive, cleaner, closes>>
  BY DEF Publish
<1>2. \A d \in H : Holding(d)'
  BY <1>1 DEF Holding, IInv, TypeOK
<1>3. /\ pc' \in [Conns -> Adding \cup {"new", "done", "panicked"}]
      /\ \A d \in Conns : pc'[d] # pc[d] => pc[d] = "publish" /\ pc'[d] = "done"
      /\ cleaner' \in {"idle", "listed", "remove"} /\ closes' \in 0..MaxCloses
  BY <1>1 DEF IInv, TypeOK
<1> HIDE DEF H
<1>4. H \in SUBSET Conns
  BY DEF H
<1> QED
  BY <1>1, <1>2, <1>3, <1>4, ReleaseKeeps

LEMMA ClosePeerKeeps ==
  ASSUME IInv, ClosePeer, cleaner' \in {"idle", "listed", "remove"}, closes' \in 0..MaxCloses
  PROVE  IInv'
<1> DEFINE H == {d \in Conns : Holding(d)}
<1>1. /\ peer_map' = None /\ Release(None, H)
      /\ UNCHANGED <<pc, peer, watched, alive>>
  BY DEF ClosePeer
<1>2. \A d \in H : Holding(d)'
  BY <1>1 DEF Holding
<1>3. /\ pc' \in [Conns -> Adding \cup {"new", "done", "panicked"}]
      /\ H \in SUBSET Conns
  BY <1>1 DEF IInv, TypeOK
<1> HIDE DEF H
<1> QED
  BY <1>1, <1>2, <1>3, ReleaseKeeps

\* The end of a connection and what takes it out of its Peer: a connection that
\* leaves its Peer is closed.
LEMMA EndKeeps ==
  ASSUME IInv, UNCHANGED <<peer_map, pc, peer>>,
         conns' \in [Conns -> SUBSET Conns], events' \in [Conns -> SUBSET Conns],
         closed \subseteq closed', closed' \subseteq Conns,
         watched' \subseteq Conns, alive' \subseteq alive,
         \A i \in Conns : conns'[i] \subseteq conns[i],
         \A i \in Conns : conns[i] \ conns'[i] \subseteq closed',
         alive \ alive' \subseteq closed',
         cleaner' \in {"idle", "listed", "remove"}, closes' \in 0..MaxCloses
  PROVE  IInv'
<1>1. \A i \in Conns : Referred(i) => Referred(i)'
  BY DEF Referred, Holding
<1>2. TypeOK'
  BY <1>1 DEF IInv, TypeOK
<1> QED
  BY <1>2 DEF IInv, PeerOfTask, OpenIsInPeer, OpenUrlIsAlive

LEMMA NextKeeps == IInv /\ [Next]_vars => IInv'
<1> SUFFICES ASSUME IInv, [Next]_vars PROVE IInv'
  OBVIOUS
<1>1. ASSUME NEW c \in Conns, Start(c) \/ Add(c) PROVE IInv'
  BY <1>1, StartKeeps, CheckKeeps, GetPeerKeeps, InsertKeeps, PublishKeeps DEF Add
<1>2. ASSUME NEW c \in Conns, Close(c) PROVE IInv'
  BY <1>2, EndKeeps DEF Close, IInv, TypeOK
<1>3. ASSUME NEW c \in Conns, Notify(c) PROVE IInv'
  <2>1. events' \in [Conns -> SUBSET Conns]
    BY <1>3 DEF Notify, IInv, TypeOK
  <2> QED
    BY <1>3, <2>1, EndKeeps DEF Notify, IInv, TypeOK
<1>4. ASSUME NEW c \in Conns, ForgetUrl(c) PROVE IInv'
  BY <1>4, EndKeeps DEF ForgetUrl, IInv, TypeOK
<1>5. ASSUME NEW c \in Conns, CallCloseConn(c) PROVE IInv'
  <2>1. events' \in [Conns -> SUBSET Conns] /\ closes' \in 0..MaxCloses
    BY <1>5, ConnsAssumption DEF CallCloseConn, IInv, TypeOK
  <2> QED
    BY <1>5, <2>1, EndKeeps DEF CallCloseConn, IInv, TypeOK
<1>6. ASSUME NEW i \in Conns, NEW c \in events[i], Listen(i, c) PROVE IInv'
  <2>1. c \in Conns /\ events' \in [Conns -> SUBSET Conns]
        /\ conns' \in [Conns -> SUBSET Conns]
    BY <1>6 DEF Listen, IInv, TypeOK
  <2>2. /\ \A j \in Conns : conns'[j] \subseteq conns[j]
        /\ \A j \in Conns : conns[j] \ conns'[j] \subseteq closed'
        /\ closed \subseteq closed' /\ closed' \subseteq Conns
    BY <1>6, <2>1 DEF Listen, IInv, TypeOK
  <2> QED
    BY <1>6, <2>1, <2>2, EndKeeps DEF Listen, IInv, TypeOK
<1>7. CASE CleanerList
  <2>1. events' \in [Conns -> SUBSET Conns] /\ cleaner' \in {"idle", "listed", "remove"}
    BY <1>7 DEF CleanerList, AskListener, IInv, TypeOK
  <2> QED
    BY <1>7, <2>1, EndKeeps DEF CleanerList, IInv, TypeOK
<1>8. CASE CleanerRemove
  BY <1>8, ClosePeerKeeps DEF CleanerRemove, IInv, TypeOK
<1>9. CASE CallClosePeer
  <2>1. closes' \in 0..MaxCloses
    BY <1>9, ConnsAssumption DEF CallClosePeer, IInv, TypeOK
  <2> QED
    BY <1>9, <2>1, ClosePeerKeeps DEF CallClosePeer, IInv, TypeOK
<1>0. CASE CleanerStart
  BY <1>0, EndKeeps DEF CleanerStart, IInv, TypeOK
<1>10. CASE UNCHANGED vars
  BY <1>10, EndKeeps DEF vars, IInv, TypeOK
<1> QED
  BY <1>0, <1>1, <1>2, <1>3, <1>4, <1>5, <1>6, <1>7, <1>8, <1>9, <1>10 DEF Next

\* The inductive invariant holds in every state.
THEOREM IInvAlways == Spec => []IInv
BY InitEstablishes, NextKeeps, PTL DEF Spec

\* A Peer nobody refers to holds no connections, whatever order the tasks that add
\* connections, the close listeners, the cleaner and the callers run in.
THEOREM TypesAlways == Spec => []TypeOK
<1>1. IInv => TypeOK
  BY DEF IInv
<1> QED
  BY <1>1, IInvAlways, PTL

\* A connection that add_new_peer_conn has taken over is closed or in a Peer that is
\* referred to.
THEOREM NoneIsLeakedAlways == Spec => []NoneIsLeaked
<1>1. IInv => NoneIsLeaked
  BY DEF IInv, TypeOK, PeerOfTask, OpenIsInPeer, NoneIsLeaked
<1> QED
  BY <1>1, IInvAlways, PTL

\* The URL of an open connection stays in alive_client_urls.
THEOREM OpenUrlIsAliveAlways == Spec => []OpenUrlIsAlive
<1>1. IInv => OpenUrlIsAlive
  BY DEF IInv
<1> QED
  BY <1>1, IInvAlways, PTL
=============================================================================
