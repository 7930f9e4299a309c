-------------------------- MODULE RouteSessionProofs --------------------------
(***************************************************************************)
(* A node is the initiator of at most one session, for every graph of      *)
(* links, every set of nodes without a NAT and every number of faults.     *)
(***************************************************************************)
EXTENDS RouteSession, WellFoundedInduction, FiniteSetTheorems, TLAPS

\* The smallest of some peer ids is one of them.
LEMMA MinIsMember ==
  ASSUME NEW S \in SUBSET Nat, S # {}
  PROVE  Min(S) \in S
<1> DEFINE R == {ss \in Nat \X Nat : ss[1] < ss[2]}
<1>1. IsWellFoundedOn(R, Nat)
  BY NatLessThanWellFounded DEF OpToRel
<1>2. \A x, y \in Nat : y < x => <<y, x>> \in R
  OBVIOUS
<1> HIDE DEF R
<1>3. PICK x \in S : \A y \in S : ~ (<<y, x>> \in R)
  BY <1>1, WFMin
<1>4. \A y \in S : ~ (y < x)
  BY <1>2, <1>3
<1>5. \A y \in S : x <= y
  BY <1>4
<1> QED
  BY <1>5 DEF Min

LEMMA PairFacts ==
  ASSUME NEW p \in Pairs
  PROVE  /\ p[1] \in Nodes /\ p[2] \in Nodes /\ p = <<p[1], p[2]>>
         /\ Back(p) \in Pairs
BY DEF Pairs, Back

\* A link has two ends.
LEMMA LinksAreProper == \A n \in Nodes : {n, n} \notin Links
<1> SUFFICES ASSUME NEW n \in Nodes, {n, n} \in Links PROVE FALSE
  OBVIOUS
<1>1. Cardinality({n, n}) = 2
  BY NodesAreNumbers DEF kSubset
<1>2. {n, n} = {n} /\ Cardinality({n}) = 1
  BY FS_Singleton
<1> QED
  BY <1>1, <1>2

\* The neighbours of a node are at the other end of a link.
PeersAreLinked == \A n \in Nodes : \A m \in peers[n] : <<n, m>> \in Pairs

\* A message is a request or an answer.
CallRecords ==
  [pair : Pairs, at : {"sent", "answered"}, is_initiator : BOOLEAN, live : BOOLEAN]

IInv == TypeOK /\ PeersAreLinked /\ calls \subseteq CallRecords /\ OneInitiatorSession

LEMMA InitEstablishes == Init => IInv
<1> SUFFICES ASSUME Init PROVE IInv
  OBVIOUS
<1>1. peers \in [Nodes -> SUBSET Nodes] /\ PeersAreLinked
  BY DEF Init, PeersAreLinked
<1>2. sess \in [Pairs -> Session] /\ \A p \in Pairs : sess[p] = NoSession
  BY DEF Init, NoSession, Session
<1> QED
  BY <1>1, <1>2 DEF Init, IInv, TypeOK, OneInitiatorSession, NoSession, CallRecords

-----------------------------------------------------------------------------
\* maintain_sessions

LEMMA SessionFacts ==
  /\ NoSession \in Session
  /\ \A s \in Session, b \in BOOLEAN :
        /\ Started(s) \in Session /\ Started(s).on
        /\ Started(s).we_are_initiator = s.we_are_initiator
        /\ Flagged(s, b) \in Session /\ Flagged(s, b).on = s.on
        /\ Flagged(s, b).we_are_initiator = b
        /\ Cleared(s) \in {s, NoSession}
BY DEF NoSession, Session, Started, Flagged, Cleared

\* The peer the round chooses is a node, and if there was a choice a neighbour.
LEMMA ChosenFacts ==
  ASSUME IInv, NEW n \in Nodes
  PROVE  /\ NewInitiatorDst(n) \in Nodes \cup {None}
         /\ Candidates(n) # {} => NewInitiatorDst(n) \in peers[n]
         /\ Candidates(n) = {} => NewInitiatorDst(n) = Current(n)
         /\ Current(n) \in {cur[n], None}
         /\ cur[n] \in peers[n] => Current(n) = cur[n]
<1>1. Candidates(n) \in SUBSET peers[n] /\ peers[n] \in SUBSET Nodes /\ peers[n] \in SUBSET Nat
  BY NodesAreNumbers DEF IInv, TypeOK, Candidates
<1>2. Current(n) \in {cur[n], None} /\ (cur[n] \in peers[n] => Current(n) = cur[n])
  BY DEF Current
<1>3. CASE Candidates(n) = {}
  <2>1. NewInitiatorDst(n) = Current(n)
    BY <1>3 DEF NewInitiatorDst
  <2>2. cur[n] \in Nodes \cup {None}
    BY DEF IInv, TypeOK
  <2> QED
    BY <1>2, <1>3, <2>1, <2>2
<1>4. CASE Candidates(n) # {}
  <2> DEFINE open == {m \in Candidates(n) : m \in Open /\ <<n, m>> \in known}
  <2>1. open # {} => Min(open) \in open
    BY <1>1, MinIsMember
  <2>2. Min(Candidates(n)) \in Candidates(n)
    BY <1>1, <1>4, MinIsMember
  <2>3. NewInitiatorDst(n) = IF open # {} THEN Min(open) ELSE Min(Candidates(n))
    BY <1>4 DEF NewInitiatorDst
  <2>4. NewInitiatorDst(n) \in Candidates(n)
    BY <2>1, <2>2, <2>3
  <2> QED
    BY <1>1, <1>2, <1>4, <2>4
<1> QED
  BY <1>3, <1>4

\* What the round makes of a session of n: if it is still flagged, its peer is the
\* one that was chosen.
LEMMA MaintainedFacts ==
  ASSUME IInv, NEW p \in Pairs
  PROVE  LET s == Maintained(p, NewInitiatorDst(p[1]))
         IN  /\ s \in Session
             /\ ~s.on => s = NoSession
             /\ s.we_are_initiator => NewInitiatorDst(p[1]) = p[2]
<1> DEFINE n == p[1]
           dst == NewInitiatorDst(n)
           s == Maintained(p, dst)
<1>1. n \in Nodes /\ sess[p] \in Session
      /\ (~sess[p].on => sess[p] = NoSession)
      /\ (sess[p].we_are_initiator => cur[n] = p[2])
  BY PairFacts DEF IInv, TypeOK, OneInitiatorSession
<1>2. CASE p[2] \notin peers[n]
  BY <1>2, SessionFacts DEF Maintained, NoSession
<1>3. CASE p[2] \in peers[n] /\ Candidates(n) = {}
  <2>1. s = sess[p]
    BY <1>3 DEF Maintained
  <2>2. sess[p].we_are_initiator => dst = p[2]
    BY <1>1, <1>3, ChosenFacts
  <2> QED
    BY <1>1, <2>1, <2>2
<1>4. CASE p[2] \in peers[n] /\ Candidates(n) # {}
  <2> DEFINE t == Moved(p, dst)
  <2>1. s = Cleared(t)
    BY <1>4 DEF Maintained
  <2>2. sess[p].we_are_initiator => Current(n) = p[2] /\ sess[p].on
    BY <1>1, <1>4, ChosenFacts DEF NoSession
  <2>3. /\ t \in Session /\ (~t.on => t = NoSession)
        /\ (t.we_are_initiator => dst = p[2])
    BY <1>1, <2>2, SessionFacts DEF Moved
  <2>4. s \in {t, NoSession}
    BY <2>1, <2>3, SessionFacts
  <2> QED
    BY <2>3, <2>4, SessionFacts DEF NoSession
<1> QED
  BY <1>2, <1>3, <1>4

\* The calls that are left when sessions stop: none of a stopped session waits.
LEMMA AbandonedFacts ==
  ASSUME TypeOK, NEW C \in SUBSET calls, calls \subseteq CallRecords
  PROVE  /\ Abandoned(C) \subseteq CallRecords
         /\ \A c \in Abandoned(C) :
              /\ c.live => sess[c.pair].on /\ ~Stops(c.pair)
              /\ c.at = "answered" => c.live
<1> SUFFICES ASSUME NEW c \in Abandoned(C)
             PROVE  /\ c \in CallRecords
                    /\ c.live => sess[c.pair].on /\ ~Stops(c.pair)
                    /\ c.at = "answered" => c.live
  OBVIOUS
<1>1. CASE c \in C /\ ~Stops(c.pair)
  BY <1>1 DEF TypeOK
<1>2. ASSUME NEW d \in C, d.at = "sent", c = [d EXCEPT !.live = FALSE]
      PROVE  c \in CallRecords /\ ~c.live /\ c.at = "sent"
  <2>1. d \in CallRecords
    OBVIOUS
  <2> QED
    BY <1>2, <2>1 DEF CallRecords
<1> QED
  BY <1>1, <1>2 DEF Abandoned

LEMMA MaintainKeeps ==
  ASSUME IInv, NEW n \in Nodes, Maintain(n)
  PROVE  IInv'
<1>1. /\ cur' = [cur EXCEPT ![n] = NewInitiatorDst(n)]
      /\ sess' = [p \in Pairs |-> IF p[1] = n THEN Maintained(p, cur'[n]) ELSE sess[p]]
      /\ calls' = Abandoned(calls)
      /\ UNCHANGED <<peers, known>>
  BY DEF Maintain
<1>2. cur \in [Nodes -> Nodes \cup {None}] /\ cur' \in [Nodes -> Nodes \cup {None}]
      /\ cur'[n] = NewInitiatorDst(n)
      /\ \A m \in Nodes \ {n} : cur'[m] = cur[m]
  BY <1>1, ChosenFacts DEF IInv, TypeOK
<1>3. ASSUME NEW p \in Pairs
      PROVE  /\ sess'[p] \in Session
             /\ ~sess'[p].on => sess'[p] = NoSession
             /\ sess'[p].we_are_initiator => cur'[p[1]] = p[2]
  <2>1. CASE p[1] = n
    <3>1. sess'[p] = Maintained(p, NewInitiatorDst(p[1]))
      BY <1>1, <1>2, <2>1
    <3> QED
      BY <1>2, <2>1, <3>1, MaintainedFacts
  <2>2. CASE p[1] # n
    <3>1. sess'[p] = sess[p] /\ p[1] \in Nodes
      BY <1>1, <2>2, PairFacts
    <3> QED
      BY <1>2, <2>2, <3>1 DEF IInv, TypeOK, OneInitiatorSession
  <2> QED
    BY <2>1, <2>2
<1>4. sess' \in [Pairs -> Session]
  BY <1>1, <1>3
<1>5. ASSUME NEW c \in calls'
      PROVE  /\ c \in CallRecords
             /\ c.live => sess'[c.pair].on
             /\ c.at = "answered" => c.live
  <2>1. /\ c \in CallRecords
        /\ c.live => sess[c.pair].on /\ ~Stops(c.pair)
        /\ c.at = "answered" => c.live
    BY <1>1, AbandonedFacts DEF IInv
  <2>2. sess'[c.pair].on \in BOOLEAN
    BY <1>4, <2>1 DEF CallRecords, Session
  <2> QED
    BY <2>1, <2>2 DEF Stops
<1>6. TypeOK'
  BY <1>1, <1>2, <1>3, <1>4, <1>5 DEF IInv, TypeOK, CallRecords
<1> QED
  BY <1>1, <1>3, <1>5, <1>6 DEF IInv, PeersAreLinked, OneInitiatorSession

-----------------------------------------------------------------------------
\* The other steps change one session and do not set its initiator flag.

LEMMA OneSessionKeeps ==
  ASSUME IInv, NEW q \in Pairs, NEW s \in Session,
         sess' = [sess EXCEPT ![q] = s],
         ~s.on => s = NoSession,
         s.we_are_initiator => sess[q].we_are_initiator,
         UNCHANGED <<peers, cur>>,
         known' \subseteq Pairs,
         calls' \subseteq CallRecords,
         \A c \in calls' : /\ c.live => sess'[c.pair].on
                           /\ c.at = "answered" => c.live
  PROVE  IInv'
<1>1. sess' \in [Pairs -> Session] /\ sess'[q] = s
      /\ \A p \in Pairs \ {q} : sess'[p] = sess[p]
  BY DEF IInv, TypeOK
<1>2. TypeOK'
  BY <1>1 DEF IInv, TypeOK, CallRecords
<1> QED
  BY <1>1, <1>2 DEF IInv, PeersAreLinked, OneInitiatorSession

\* Waiting calls when session q stays, or starts.
LEMMA StaysOn ==
  ASSUME IInv, NEW q \in Pairs, NEW s, s.on,
         sess' = [sess EXCEPT ![q] = s],
         NEW c \in CallRecords, c.live, sess[c.pair].on
  PROVE  sess'[c.pair].on
<1>1. c.pair \in Pairs /\ sess \in [Pairs -> Session]
  BY DEF IInv, TypeOK, CallRecords
<1> QED
  BY <1>1

LEMMA CallFacts ==
  ASSUME IInv, NEW c \in calls
  PROVE  /\ c \in CallRecords /\ c.pair \in Pairs /\ Back(c.pair) \in Pairs
         /\ c.live \in BOOLEAN /\ c.is_initiator \in BOOLEAN
         /\ c.live => sess[c.pair].on
         /\ c.at = "answered" => c.live
         /\ [c EXCEPT !.live = FALSE] \in CallRecords
         /\ \A b \in BOOLEAN : Answer(c, b) \in CallRecords
<1>1. c \in CallRecords
  BY DEF IInv
<1> QED
  BY <1>1, PairFacts DEF IInv, TypeOK, CallRecords, Answer

LEMMA SyncKeeps ==
  ASSUME IInv, NEW p \in Pairs, SyncRouteWithPeer(p)
  PROVE  IInv'
<1> DEFINE s == [sess[p] EXCEPT !.need_sync_initiator_info = FALSE]
<1>1. sess[p] \in Session /\ sess[p].running /\ sess[p].on
  BY DEF IInv, TypeOK, SyncRouteWithPeer, NoSession
<1>2. sess' = [sess EXCEPT ![p] = s]
  BY DEF SyncRouteWithPeer
<1>3. s \in Session /\ s.on /\ s.we_are_initiator = sess[p].we_are_initiator
  BY <1>1 DEF Session
<1>4. calls' = calls \cup {Request(p)} /\ UNCHANGED <<peers, cur, known>>
  BY DEF SyncRouteWithPeer
<1>5. Request(p) \in CallRecords /\ Request(p).pair = p /\ Request(p).at = "sent"
  BY <1>1 DEF Request, CallRecords, Session
<1> HIDE DEF s
<1>6. ASSUME NEW c \in calls'
      PROVE  /\ c \in CallRecords
             /\ c.live => sess'[c.pair].on
             /\ c.at = "answered" => c.live
  <2>1. CASE c \in calls
    BY <1>2, <1>3, <2>1, CallFacts, StaysOn
  <2>2. CASE c = Request(p)
    BY <1>1, <1>2, <1>3, <1>5, <2>2, StaysOn
  <2> QED
    BY <1>4, <2>1, <2>2
<1>7. known' \subseteq Pairs
  BY <1>4 DEF IInv, TypeOK
<1> QED
  BY <1>2, <1>3, <1>4, <1>6, <1>7, OneSessionKeeps

LEMMA DoSyncKeeps ==
  ASSUME IInv, NEW c \in calls, DoSyncRouteInfo(c)
  PROVE  IInv'
<1> DEFINE q == Back(c.pair)
           s == [Started(sess[q]) EXCEPT !.dst_is_initiator = c.is_initiator]
           a == Answer(c, sess[q].we_are_initiator)
<1>1. /\ sess' = [sess EXCEPT ![q] = s]
      /\ calls' = (calls \ {c}) \cup (IF c.live THEN {a} ELSE {})
      /\ UNCHANGED <<peers, cur>>
      /\ known' = IF c.pair[1] \in Open THEN known \cup {q} ELSE known
  BY DEF DoSyncRouteInfo, LearnNatType, Reply
<1>2. q \in Pairs /\ sess[q] \in Session
  BY CallFacts DEF IInv, TypeOK
<1>3. s \in Session /\ s.on /\ s.we_are_initiator = sess[q].we_are_initiator
  <2>1. Started(sess[q]) \in Session /\ Started(sess[q]).on
        /\ Started(sess[q]).we_are_initiator = sess[q].we_are_initiator
    BY <1>2, SessionFacts
  <2> QED
    BY <2>1, CallFacts DEF Session
<1>4. a \in CallRecords /\ a.pair = c.pair /\ a.live
  BY <1>2, CallFacts DEF Answer, Session
<1>5. known' \subseteq Pairs
  BY <1>1, <1>2 DEF IInv, TypeOK
<1> HIDE DEF s, a, q
<1>6. ASSUME NEW d \in calls'
      PROVE  /\ d \in CallRecords
             /\ d.live => sess'[d.pair].on
             /\ d.at = "answered" => d.live
  <2>1. CASE d \in calls
    BY <1>1, <1>2, <1>3, <2>1, CallFacts, StaysOn
  <2>2. CASE d = a /\ c.live
    BY <1>1, <1>2, <1>3, <1>4, <2>2, CallFacts, StaysOn
  <2> QED
    BY <1>1, <2>1, <2>2
<1> QED
  BY <1>1, <1>2, <1>3, <1>5, <1>6, OneSessionKeeps

\* The handler's session is stopped before it has the flag: whoever waits for an
\* answer to a call of that session is told.
LEMMA OrphanedKeeps ==
  ASSUME IInv, NEW c \in calls, DoSyncRouteInfoOrphaned(c)
  PROVE  IInv'
<1> DEFINE q == Back(c.pair)
           a == Answer(c, FALSE)
<1>1. /\ sess' = [sess EXCEPT ![q] = NoSession]
      /\ calls' = Abandoned(calls \ {c}) \cup (IF c.live THEN {a} ELSE {})
      /\ UNCHANGED <<peers, cur>>
      /\ known' = IF c.pair[1] \in Open THEN known \cup {q} ELSE known
  BY DEF DoSyncRouteInfoOrphaned, LearnNatType, Reply
<1>2. q \in Pairs /\ sess[q] \in Session /\ c.pair \in Pairs /\ q # c.pair
  <2>1. c.pair \in Pairs /\ q \in Pairs
    BY CallFacts
  <2>2. c.pair[1] # c.pair[2]
    BY <2>1, LinksAreProper DEF Pairs
  <2>3. q[1] = c.pair[2]
    BY DEF Back
  <2> QED
    BY <2>1, <2>2, <2>3 DEF IInv, TypeOK
<1>4. a \in CallRecords /\ a.pair = c.pair /\ a.live
  BY CallFacts DEF Answer
<1>5. known' \subseteq Pairs
  BY <1>1, <1>2 DEF IInv, TypeOK
<1>6. sess' \in [Pairs -> Session] /\ sess'[c.pair] = sess[c.pair]
  BY <1>1, <1>2, SessionFacts DEF IInv, TypeOK
<1> HIDE DEF a, q
<1>7. ASSUME NEW d \in calls'
      PROVE  /\ d \in CallRecords
             /\ d.live => sess'[d.pair].on
             /\ d.at = "answered" => d.live
  <2>1. CASE d \in Abandoned(calls \ {c})
    <3>1. /\ d \in CallRecords
          /\ d.live => sess[d.pair].on /\ ~Stops(d.pair)
          /\ d.at = "answered" => d.live
      BY <2>1, AbandonedFacts DEF IInv
    <3>2. sess'[d.pair].on \in BOOLEAN
      BY <1>6, <3>1 DEF CallRecords, Session
    <3> QED
      BY <3>1, <3>2 DEF Stops
  <2>2. CASE d = a /\ c.live
    BY <1>4, <1>6, <2>2, CallFacts
  <2> QED
    BY <1>1, <2>1, <2>2
<1> QED
  BY <1>1, <1>2, <1>5, <1>7, OneSessionKeeps, SessionFacts DEF NoSession

LEMMA AnswerKeeps ==
  ASSUME IInv, NEW c \in calls, Receive(c) \/ Timeout(c)
  PROVE  IInv'
<1>1. c.pair \in Pairs /\ c \in CallRecords /\ sess[c.pair] \in Session
      /\ sess[c.pair].on /\ c.is_initiator \in BOOLEAN
  BY CallFacts DEF IInv, TypeOK, Receive, Timeout
<1>2. PICK s : s \in {[sess[c.pair] EXCEPT !.dst_is_initiator = c.is_initiator],
                     [sess[c.pair] EXCEPT !.need_sync_initiator_info = TRUE]}
               /\ sess' = [sess EXCEPT ![c.pair] = s]
  BY DEF Receive, Timeout
<1>3. s \in Session /\ s.on /\ s.we_are_initiator = sess[c.pair].we_are_initiator
  BY <1>1, <1>2 DEF Session
<1>4. UNCHANGED <<peers, cur, known>>
      /\ calls' \subseteq calls \cup {[c EXCEPT !.live = FALSE]}
      /\ (calls' \subseteq calls \/ c.at = "sent")
  BY DEF Receive, Timeout
<1>5. ASSUME NEW d \in calls'
      PROVE  /\ d \in CallRecords
             /\ d.live => sess'[d.pair].on
             /\ d.at = "answered" => d.live
  <2>1. CASE d \in calls
    BY <1>1, <1>2, <1>3, <2>1, CallFacts, StaysOn
  <2>2. CASE d = [c EXCEPT !.live = FALSE] /\ c.at = "sent"
    BY <1>1, <2>2 DEF CallRecords
  <2> QED
    BY <1>4, <2>1, <2>2
<1>6. known' \subseteq Pairs
  BY <1>4 DEF IInv, TypeOK
<1> QED
  BY <1>1, <1>2, <1>3, <1>4, <1>5, <1>6, OneSessionKeeps

LEMMA TaskEndsKeeps ==
  ASSUME IInv, NEW p \in Pairs, TaskEnds(p)
  PROVE  IInv'
<1> DEFINE s == [sess[p] EXCEPT !.running = FALSE]
<1>1. sess[p] \in Session /\ sess[p].on
  BY DEF IInv, TypeOK, TaskEnds, NoSession
<1>2. sess' = [sess EXCEPT ![p] = s] /\ UNCHANGED <<peers, cur, known, calls>>
  BY DEF TaskEnds
<1>3. s \in Session /\ s.on /\ s.we_are_initiator = sess[p].we_are_initiator
  BY <1>1 DEF Session
<1>4. ASSUME NEW c \in calls'
      PROVE  /\ c \in CallRecords
             /\ c.live => sess'[c.pair].on
             /\ c.at = "answered" => c.live
  BY <1>2, <1>3, CallFacts, StaysOn
<1> HIDE DEF s
<1>5. known' \subseteq Pairs
  BY <1>2 DEF IInv, TypeOK
<1> QED
  BY <1>2, <1>3, <1>4, <1>5, OneSessionKeeps

LEMMA FlapKeeps ==
  ASSUME IInv, NEW p \in Pairs, Flap(p)
  PROVE  IInv'
<1>1. /\ p[1] \in Nodes /\ p[2] \in Nodes /\ p[1] # p[2]
      /\ <<p[1], p[2]>> \in Pairs /\ <<p[2], p[1]>> \in Pairs
  BY PairFacts, LinksAreProper DEF Pairs, Back
<1>2. UNCHANGED <<sess, cur, known, calls>>
  BY DEF Flap
<1>3. ASSUME NEW n \in Nodes
      PROVE  peers'[n] \in SUBSET Nodes /\ \A m \in peers'[n] : <<n, m>> \in Pairs
  <2> DEFINE other == {p[1], p[2]} \ {n}
  <2>1. peers'[n] = IF n \notin {p[1], p[2]} THEN peers[n]
                    ELSE IF other \subseteq peers[n] THEN peers[n] \ other
                    ELSE peers[n] \cup other
    BY DEF Flap
  <2>2. peers[n] \in SUBSET Nodes /\ \A m \in peers[n] : <<n, m>> \in Pairs
    BY DEF IInv, TypeOK, PeersAreLinked
  <2>3. n \in {p[1], p[2]} => \A m \in other : m \in Nodes /\ <<n, m>> \in Pairs
    BY <1>1
  <2> QED
    BY <2>1, <2>2, <2>3
<1>4. peers' \in [Nodes -> SUBSET Nodes]
  BY <1>3 DEF Flap
<1> QED
  BY <1>2, <1>3, <1>4 DEF IInv, TypeOK, PeersAreLinked, OneInitiatorSession

LEMMA NextKeeps == IInv /\ [Next]_vars => IInv'
<1> SUFFICES ASSUME IInv, [Next]_vars PROVE IInv'
  OBVIOUS
<1>1. ASSUME NEW n \in Nodes, Maintain(n) PROVE IInv'
  BY <1>1, MaintainKeeps
<1>2. ASSUME NEW p \in Pairs, SyncInitiator(p) \/ SyncNews(p) PROVE IInv'
  BY <1>2, SyncKeeps DEF SyncInitiator, SyncNews
<1>3. ASSUME NEW p \in Pairs, TaskEnds(p) PROVE IInv'
  BY <1>3, TaskEndsKeeps
<1>4. ASSUME NEW c \in calls, DoSyncRouteInfo(c) PROVE IInv'
  BY <1>4, DoSyncKeeps
<1>5. ASSUME NEW c \in calls, DoSyncRouteInfoOrphaned(c) PROVE IInv'
  BY <1>5, OrphanedKeeps
<1>6. ASSUME NEW c \in calls, Receive(c) \/ Timeout(c) PROVE IInv'
  BY <1>6, AnswerKeeps
<1>7. ASSUME NEW c \in calls, Lose(c) PROVE IInv'
  BY <1>7 DEF Lose, IInv, TypeOK, PeersAreLinked, OneInitiatorSession
<1>8. ASSUME NEW p \in Pairs, Flap(p) PROVE IInv'
  BY <1>8, FlapKeeps
<1>9. CASE UNCHANGED vars
  BY <1>9 DEF vars, IInv, TypeOK, PeersAreLinked, OneInitiatorSession
<1> QED
  BY <1>1, <1>2, <1>3, <1>4, <1>5, <1>6, <1>7, <1>8, <1>9 DEF Next

\* The inductive invariant holds in every state.
THEOREM IInvAlways == Spec => []IInv
BY InitEstablishes, NextKeeps, PTL DEF Spec

\* A session that is not there has no flags and no call waiting for an answer,
\* whatever rounds of maintain_sessions, requests and lost links come between.
THEOREM TypesAlways == Spec => []TypeOK
<1>1. IInv => TypeOK
  BY DEF IInv
<1> QED
  BY <1>1, IInvAlways, PTL

\* A node is the initiator of the session with the peer maintain_sessions chose last
\* and of no other.
THEOREM OneInitiatorAlways == Spec => []OneInitiatorSession
<1>1. IInv => OneInitiatorSession
  BY DEF IInv
<1> QED
  BY <1>1, IInvAlways, PTL
=============================================================================
