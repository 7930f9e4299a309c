---------------------------- MODULE RouteSession ----------------------------
(***************************************************************************)
(* Which neighbours a node exchanges route information with: the sessions  *)
(* of peers/peer_ospf_route.rs, the initiator flags both ends keep of      *)
(* them, and maintain_sessions, which starts and stops them.               *)
(*                                                                         *)
(* What a session carries is the matter of module RouteSync; here a        *)
(* request carries the initiator flag only.  All nodes are admin nodes.    *)
(* A session task reads and writes its session under the session's lock,   *)
(* except while it waits for the answer; a round of maintain_sessions is   *)
(* one step.                                                               *)
(***************************************************************************)
EXTENDS Naturals, FiniteSets, FiniteSetsExt

CONSTANTS
    Nodes,        \* peer ids
    Links,        \* pairs of nodes that can be directly connected
    Open,         \* nodes whose NAT type is NoPat or OpenInternet
    MaxFaults     \* bound: faults of all kinds

None == 0

ASSUME NodesAreNumbers ==
    /\ Nodes \subseteq Nat \ {None}
    /\ Links \subseteq kSubset(2, Nodes)
    /\ Open \subseteq Nodes

\* The sessions there can be: <<n, m>> is that of n with m.
Pairs == {p \in Nodes \X Nodes : {p[1], p[2]} \in Links}
Back(p) == <<p[2], p[1]>>

VARIABLES
    peers,    \* peers[n]: the neighbours of n
    sess,     \* sess[<<n, m>>]: n's session with m
    cur,      \* cur[n]: cur_dst_peer_id_to_initiate, or None
    known,    \* <<n, m>>: n knows the NAT type of m
    calls,    \* requests and answers in the network
    faults,   \* faults so far
    ended     \* has a session task ended by itself?

vars == <<peers, sess, cur, known, calls, faults, ended>>

Session == [on : BOOLEAN, running : BOOLEAN, we_are_initiator : BOOLEAN,
            dst_is_initiator : BOOLEAN, need_sync_initiator_info : BOOLEAN]

NoSession == [on |-> FALSE, running |-> FALSE, we_are_initiator |-> FALSE,
              dst_is_initiator |-> FALSE, need_sync_initiator_info |-> FALSE]

\* get_or_start_session
Started(s) == [s EXCEPT !.on = TRUE, !.running = TRUE]

\* update_initiator_flag
Flagged(s, is_initiator) ==
    [s EXCEPT !.we_are_initiator = is_initiator, !.need_sync_initiator_info = TRUE]

\* The request of a call of session p, and the answer to it.  live: the session that made
\* the call is waiting.
Request(p) ==
    [pair |-> p, at |-> "sent", is_initiator |-> sess[p].we_are_initiator, live |-> TRUE]

Answer(c, is_initiator) ==
    [pair |-> c.pair, at |-> "answered", is_initiator |-> is_initiator, live |-> TRUE]

Init ==
    /\ peers = [n \in Nodes |-> {m \in Nodes : <<n, m>> \in Pairs}]
    /\ sess = [p \in Pairs |-> NoSession]
    /\ cur = [n \in Nodes |-> None]
    /\ known = {}
    /\ calls = {}
    /\ faults = 0
    /\ ended = FALSE

\* Everything in S goes wrong in this step.
Fault(S) ==
    /\ faults + Cardinality(S) <= MaxFaults
    /\ faults' = faults + Cardinality(S)

-----------------------------------------------------------------------------
\* maintain_sessions

\* Neighbours that are not known to be initiators of their session with n.
Candidates(n) == {m \in peers[n] : ~sess[<<n, m>>].dst_is_initiator}

\* cur_dst_peer_id_to_initiate, once the sessions with lost neighbours are stopped.
Current(n) == IF cur[n] \in peers[n] \/ cur[n] = None \/ ~sess[<<n, cur[n]>>].on
              THEN cur[n] ELSE None

\* What the round makes of it: a candidate that is known to have no NAT in front of it,
\* or else the first; without candidates it stays.
NewInitiatorDst(n) ==
    LET candidates == Candidates(n)
        open == {m \in candidates : m \in Open /\ <<n, m>> \in known} IN
    IF candidates = {} THEN Current(n)
    ELSE IF open # {} THEN Min(open) ELSE Min(candidates)

\* Mutant: the session with the previous choice keeps its flag.
MovedFlagStays(p, dst) ==
    IF dst # Current(p[1]) /\ p[2] = dst THEN Flagged(Started(sess[p]), TRUE) ELSE sess[p]

\* The flag leaves the session with the previous choice for that with the new one.
Moved(p, dst) ==
    IF dst = Current(p[1]) THEN sess[p]
    ELSE IF p[2] = dst THEN Flagged(Started(sess[p]), TRUE)
    ELSE IF p[2] = Current(p[1]) /\ sess[p].on THEN Flagged(sess[p], FALSE)
    ELSE sess[p]

\* Mutant: a session is kept only by the end that is the initiator.
ClearedUnlessOurs(s) ==
    IF s.we_are_initiator /\ s.running THEN s ELSE NoSession

\* A session nobody is the initiator of, or whose task is not running, is stopped.
Cleared(s) ==
    IF /\ s.dst_is_initiator \/ s.we_are_initiator \/ s.need_sync_initiator_info
       /\ s.running
    THEN s ELSE NoSession

\* What the round makes of session p.  It ends early without candidates.
Maintained(p, dst) ==
    IF p[2] \notin peers[p[1]] THEN NoSession
    ELSE IF Candidates(p[1]) = {} THEN sess[p]
    ELSE Cleared(Moved(p, dst))

Stops(p) == sess[p].on /\ ~sess'[p].on

\* Mutant: the task of a stopped session goes on waiting.
MaintainKeepsCalls(n) ==
    /\ cur' = [cur EXCEPT ![n] = NewInitiatorDst(n)]
    /\ sess' = [p \in Pairs |-> IF p[1] = n THEN Maintained(p, cur'[n]) ELSE sess[p]]
    /\ UNCHANGED <<peers, known, calls, faults, ended>>

\* Of the calls in C, the answer to one of a stopped session is of no use any more.
Abandoned(C) ==
    {c \in C : ~Stops(c.pair)}
    \cup {[c EXCEPT !.live = FALSE] : c \in {d \in C : Stops(d.pair) /\ d.at = "sent"}}

\* One round of the loop.
Maintain(n) ==
    /\ cur' = [cur EXCEPT ![n] = NewInitiatorDst(n)]
    /\ sess' = [p \in Pairs |-> IF p[1] = n THEN Maintained(p, cur'[n]) ELSE sess[p]]
    /\ calls' = Abandoned(calls)
    /\ UNCHANGED <<peers, known, faults, ended>>

-----------------------------------------------------------------------------
\* A call of sync_route_info

Calling(p) == \E c \in calls : c.pair = p /\ c.live

\* sync_route_with_peer, up to the await.
SyncRouteWithPeer(p) ==
    /\ sess[p].running
    /\ ~Calling(p)
    /\ calls' = calls \cup {Request(p)}
    /\ sess' = [sess EXCEPT ![p].need_sync_initiator_info = FALSE]
    /\ UNCHANGED <<peers, cur, known, ended>>

\* The flag has not been sent since it changed, or the initiator has been silent for 10 s.
SyncInitiator(p) ==
    /\ sess[p].need_sync_initiator_info \/ sess[p].we_are_initiator
    /\ SyncRouteWithPeer(p)
    /\ UNCHANGED faults

\* There is route information to send, and nothing else.
SyncNews(p) ==
    /\ ~sess[p].need_sync_initiator_info /\ ~sess[p].we_are_initiator
    /\ SyncRouteWithPeer(p)
    /\ Fault({p})

\* What a handler leaves in the network: the answer, if anybody waits for it.
Reply(c, is_initiator) == IF c.live THEN {Answer(c, is_initiator)} ELSE {}

\* The handler learns the NAT type of the caller.
LearnNatType(c) ==
    known' = IF c.pair[1] \in Open THEN known \cup {Back(c.pair)} ELSE known

\* do_sync_route_info: each end learns the other's flag.
DoSyncRouteInfo(c) ==
    LET q == Back(c.pair) IN
    /\ c.at = "sent"
    /\ sess' = [sess EXCEPT ![q] = [Started(@) EXCEPT !.dst_is_initiator = c.is_initiator]]
    /\ LearnNatType(c)
    /\ calls' = (calls \ {c}) \cup Reply(c, sess[q].we_are_initiator)
    /\ UNCHANGED <<peers, cur, faults, ended>>

\* The same, when a round of maintain_sessions comes between the start of the session and
\* the flag: it finds a session nobody is the initiator of and stops it.  The handler goes
\* on with the session it has.
DoSyncRouteInfoOrphaned(c) ==
    LET q == Back(c.pair) IN
    /\ c.at = "sent"
    /\ Candidates(q[1]) # {}
    /\ NewInitiatorDst(q[1]) = cur[q[1]]
    /\ Cleared(Started(sess[q])) = NoSession
    /\ Fault({c})
    /\ sess' = [sess EXCEPT ![q] = NoSession]
    /\ LearnNatType(c)
    /\ calls' = Abandoned(calls \ {c}) \cup Reply(c, FALSE)
    /\ UNCHANGED <<peers, cur, ended>>

\* sync_route_with_peer, after the await: the answer.
Receive(c) ==
    /\ c.at = "answered"
    /\ calls' = calls \ {c}
    /\ sess' = [sess EXCEPT ![c.pair].dst_is_initiator = c.is_initiator]
    /\ UNCHANGED <<peers, cur, known, faults, ended>>

\* sync_route_with_peer, after the await: no answer.  The request may still arrive, or be
\* handled to its end and the answer be lost.
Timeout(c) ==
    /\ c.live
    /\ c.at = "sent"
    /\ Fault({c})
    /\ sess' = [sess EXCEPT ![c.pair].need_sync_initiator_info = TRUE]
    /\ calls' = (calls \ {c}) \cup {[c EXCEPT !.live = FALSE]}
    /\ UNCHANGED <<peers, cur, known, ended>>

-----------------------------------------------------------------------------
\* The environment

\* A request nobody waits for is lost.
Lose(c) ==
    /\ c.at = "sent"
    /\ ~c.live
    /\ calls' = calls \ {c}
    /\ UNCHANGED <<peers, sess, cur, known, faults, ended>>

\* The link between the ends of p goes down or comes back.
Flap(p) ==
    /\ Fault({p})
    /\ peers' = [n \in Nodes |->
                    IF n \notin {p[1], p[2]} THEN peers[n]
                    ELSE LET m == {p[1], p[2]} \ {n} IN
                         IF m \subseteq peers[n] THEN peers[n] \ m ELSE peers[n] \cup m]
    /\ UNCHANGED <<sess, cur, known, calls, ended>>

\* A session task that waits has missed more than 100 notices of sync_now and ends.
TaskEnds(p) ==
    /\ sess[p].running
    /\ ~Calling(p)
    /\ Fault({p})
    /\ sess' = [sess EXCEPT ![p].running = FALSE]
    /\ ended' = TRUE
    /\ UNCHANGED <<peers, cur, known, calls>>

-----------------------------------------------------------------------------
Next ==
    \/ \E n \in Nodes : Maintain(n)
    \/ \E p \in Pairs : SyncInitiator(p) \/ SyncNews(p) \/ TaskEnds(p)
    \/ \E c \in calls : \/ DoSyncRouteInfo(c)
                        \/ DoSyncRouteInfoOrphaned(c)
                        \/ Receive(c)
                        \/ Timeout(c)
                        \/ Lose(c)
    \/ \E p \in Pairs : p[1] < p[2] /\ Flap(p)

\* maintain_sessions and the session tasks go round for ever, and a call ends.
Fairness ==
    /\ \A n \in Nodes : WF_vars(Maintain(n))
    /\ \A p \in Pairs :
           WF_vars(\/ SyncInitiator(p)
                   \/ \E c \in calls : c.pair = p /\ c.live
                          /\ (DoSyncRouteInfo(c) \/ Receive(c)))

Spec == Init /\ [][Next]_vars /\ Fairness

-----------------------------------------------------------------------------
\* Properties

\* The values the variables take; a flag belongs to a session, a waiting call too.
TypeOK ==
    /\ peers \in [Nodes -> SUBSET Nodes]
    /\ sess \in [Pairs -> Session]
    /\ \A p \in Pairs : ~sess[p].on => sess[p] = NoSession
    /\ cur \in [Nodes -> Nodes \cup {None}]
    /\ known \subseteq Pairs
    /\ \A c \in calls : /\ c.pair \in Pairs
                        /\ c.at \in {"sent", "answered"}
                        /\ c.live => sess[c.pair].on
                        /\ c.at = "answered" => c.live

\* A node is the initiator of at most one session, the one with the peer
\* maintain_sessions has chosen ("every node should have exactly one initator session"),
\* whatever sessions requests from others have started, stopped and started again.
OneInitiatorSession ==
    \A p \in Pairs : sess[p].we_are_initiator => cur[p[1]] = p[2]

\* A node that has a neighbour it does not know to be an initiator is the initiator of a
\* session with such a neighbour.
EveryoneInitiates ==
    \A n \in Nodes : Candidates(n) # {} =>
        \E m \in Candidates(n) : sess[<<n, m>>].we_are_initiator /\ sess[<<n, m>>].running

\* Route information is exchanged between the ends of p.
Exchanging(p) == sess[p].running /\ sess[Back(p)].running

\* No group of nodes is without a session to any of the nodes it is linked to.
Spans ==
    \A S \in SUBSET Nodes :
        LET out == {p \in Pairs : p[1] \in S /\ p[2] \in peers[p[1]] \ S} IN
        out # {} => \E p \in out : Exchanging(p)

\* The choice of initiators comes to rest, and the sessions that are left connect all
\* nodes that links connect, so that route information reaches everyone.  A lost flag,
\* a session stopped under its handler, a late request or a lost link does not prevent
\* it.  A session task that ends by itself does: maintain_sessions stops the session
\* and, the choice being the same, never starts it again.
SessionsSettle == <>[](ended \/ (EveryoneInitiates /\ Spans))
=============================================================================
