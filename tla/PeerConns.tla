----------------------------- MODULE PeerConns -----------------------------
(***************************************************************************)
(* The connections this node has with one remote peer: the PeerMap entry,  *)
(* the Peer objects behind it and the tasks that add connections, notice   *)
(* that they closed, and remove what is left (peers/peer_map.rs, peer.rs,  *)
(* peer_conn.rs).                                                          *)
(*                                                                         *)
(* Every connection is added by a task of its own.  Peer objects are       *)
(* reference counted: one lives as long as the map or a task that adds a   *)
(* connection refers to it.  A Peer is named after the connection that     *)
(* created it.  All connections of the remote peer carry its one identity, *)
(* so the checks of it always succeed and are left out, and so is which    *)
(* connection a message is sent over.                                      *)
(***************************************************************************)
EXTENDS Naturals, FiniteSets

CONSTANTS
    Conns,      \* connections, by id
    Urls,       \* URLs this node connects to
    Url,        \* Url[c]: the URL c was made to, for a connection made by this node
    MaxCloses   \* bound: calls of close_peer and close_peer_conn from outside

None == "none"

ASSUME ConnsAssumption ==
    /\ None \notin Conns
    /\ Url \in [Conns -> Urls \cup {None}]
    /\ MaxCloses \in Nat

VARIABLES
    peer_map,   \* the Peer the map holds for the remote peer, or None
    pc,         \* pc[c]: where add_new_peer_conn stands for c
    peer,       \* peer[c]: the Peer that task works on
    conns,      \* conns[i]: Peer i's connections
    events,     \* events[i]: ids in Peer i's close event channel
    watched,    \* connections a task of their Peer waits to see closed
    alive,      \* connections in alive_client_urls
    closed,     \* connections whose close notifier has fired
    cleaner,    \* clean_peer_without_conn: "idle", "listed", or "remove" when it found
                \* the peer empty or gone
    closes      \* calls made so far from outside

vars == <<peer_map, pc, peer, conns, events, watched, alive, closed,
          cleaner, closes>>

Adding == {"check", "found", "insert", "publish"}

\* Tasks that hold an Arc of, or own, a Peer.
Holding(c) == pc[c] \in {"insert", "publish"}

Init ==
    /\ peer_map = None
    /\ pc = [c \in Conns |-> "new"]
    /\ peer = [c \in Conns |-> None]
    /\ conns = [c \in Conns |-> {}]
    /\ events = [c \in Conns |-> {}]
    /\ watched = {}
    /\ alive = {}
    /\ closed = {}
    /\ cleaner = "idle"
    /\ closes = 0

\* Mutant: something keeps the connections of a Peer when it goes.
ReleaseKeepsConns(m, H) == UNCHANGED <<closed, conns, events>>

\* Mutant: a dropped connection does not fire its notifier.
ReleaseIsSilent(m, H) ==
    LET freed == {i \in Conns : i # m /\ \A c \in H : peer[c] # i} IN
    /\ conns' = [i \in Conns |-> IF i \in freed THEN {} ELSE conns[i]]
    /\ events' = [i \in Conns |-> IF i \in freed THEN {} ELSE events[i]]
    /\ UNCHANGED closed

\* The map now holds m; of the tasks, those in H still refer to their Peer.  A Peer
\* nobody refers to is dropped: its connections go, each firing its notifier, and its
\* close listener is aborted.
Release(m, H) ==
    LET freed == {i \in Conns : i # m /\ \A c \in H : peer[c] # i} IN
    /\ closed' = closed \cup UNION {conns[i] : i \in freed}
    /\ conns' = [i \in Conns |-> IF i \in freed THEN {} ELSE conns[i]]
    /\ events' = [i \in Conns |-> IF i \in freed THEN {} ELSE events[i]]

-----------------------------------------------------------------------------
\* PeerMap::add_new_peer_conn

\* maintain_alive_client_urls
Start(c) ==
    /\ pc[c] = "new"
    /\ pc' = [pc EXCEPT ![c] = "check"]
    /\ alive' = IF Url[c] # None THEN alive \cup {c} ELSE alive
    /\ UNCHANGED <<peer_map, peer, conns, events, watched, closed, cleaner, closes>>

\* Is there an entry?  If not, the task makes a Peer of its own.
Check(c) ==
    /\ pc[c] = "check"
    /\ IF peer_map = None
       THEN /\ pc' = [pc EXCEPT ![c] = "insert"]
            /\ peer' = [peer EXCEPT ![c] = c]
       ELSE /\ pc' = [pc EXCEPT ![c] = "found"]
            /\ UNCHANGED peer
    /\ UNCHANGED <<peer_map, conns, events, watched, alive, closed, cleaner, closes>>

\* get(..).unwrap(): the entry may have gone since; the task then panics and the
\* connection is dropped with it.  This is a build that unwinds; with the release profile
\* (panic = "abort") the process ends here.
GetPeer(c) ==
    /\ pc[c] = "found"
    /\ IF peer_map = None
       THEN /\ pc' = [pc EXCEPT ![c] = "panicked"]
            /\ closed' = closed \cup {c}
            /\ UNCHANGED peer
       ELSE /\ pc' = [pc EXCEPT ![c] = "insert"]
            /\ peer' = [peer EXCEPT ![c] = peer_map]
            /\ UNCHANGED closed
    /\ UNCHANGED <<peer_map, conns, events, watched, alive, cleaner, closes>>

\* The connection enters the Peer and a task that waits for its end is spawned.  A
\* task that found the Peer in the map is done and lets go of it.
InsertConn(c) ==
    LET i == peer[c]
        own == i = c IN
    /\ pc[c] = "insert"
    /\ watched' = watched \cup {c}
    /\ pc' = [pc EXCEPT ![c] = IF own THEN "publish" ELSE "done"]
    /\ IF own \/ i = peer_map \/ \E d \in Conns \ {c} : Holding(d) /\ peer[d] = i
       THEN /\ conns' = [conns EXCEPT ![i] = @ \cup {c}]
            /\ UNCHANGED <<events, closed>>
       ELSE /\ conns' = [conns EXCEPT ![i] = {}]
            /\ closed' = closed \cup {c} \cup conns[i]
            /\ events' = [events EXCEPT ![i] = {}]
    /\ UNCHANGED <<peer_map, peer, alive, cleaner, closes>>

\* add_new_peer: the new Peer takes the entry, whatever is there.
Publish(c) ==
    /\ pc[c] = "publish"
    /\ pc' = [pc EXCEPT ![c] = "done"]
    /\ peer_map' = c
    /\ Release(c, {d \in Conns \ {c} : Holding(d)})
    /\ UNCHANGED <<peer, watched, alive, cleaner, closes>>

-----------------------------------------------------------------------------
\* The end of a connection

\* The receive loop or the ping task of c ends and fires the notifier.
Close(c) ==
    /\ pc[c] \in {"insert", "publish", "done"}
    /\ c \notin closed
    /\ closed' = closed \cup {c}
    /\ UNCHANGED <<peer_map, pc, peer, conns, events, watched, alive, cleaner, closes>>

\* The task spawned by add_peer_conn tells the close listener; the send fails if the
\* Peer has gone.
Notify(c) ==
    LET i == peer[c] IN
    /\ c \in watched
    /\ c \in closed
    /\ watched' = watched \ {c}
    /\ events' = IF i = peer_map \/ \E d \in Conns : Holding(d) /\ peer[d] = i
                 THEN [events EXCEPT ![i] = @ \cup {c}]
                 ELSE events
    /\ UNCHANGED <<peer_map, pc, peer, conns, alive, closed, cleaner, closes>>

\* The close listener of Peer i receives an id, takes the connection out and drops it.
Listen(i, c) ==
    /\ c \in events[i]
    /\ events' = [events EXCEPT ![i] = @ \ {c}]
    /\ conns' = [conns EXCEPT ![i] = @ \ {c}]
    /\ closed' = closed \cup (conns[i] \cap {c})
    /\ UNCHANGED <<peer_map, pc, peer, watched, alive, cleaner, closes>>

\* Mutant: the URL goes with the first of its connections that closes.
ForgetWholeUrl(c) ==
    /\ c \in alive
    /\ c \in closed
    /\ alive' = {d \in alive : Url[d] # Url[c]}
    /\ UNCHANGED <<peer_map, pc, peer, conns, events, watched, closed, cleaner, closes>>

\* The task spawned by maintain_alive_client_urls takes this connection, and no other,
\* off the list of its URL.
ForgetUrl(c) ==
    /\ c \in alive
    /\ c \in closed
    /\ alive' = alive \ {c}
    /\ UNCHANGED <<peer_map, pc, peer, conns, events, watched, closed, cleaner, closes>>

-----------------------------------------------------------------------------
\* Removal of peers

\* clean_peer_without_conn, first part: list_peers has the peer.
CleanerStart ==
    /\ cleaner = "idle"
    /\ peer_map # None
    /\ cleaner' = "listed"
    /\ UNCHANGED <<peer_map, pc, peer, conns, events, watched, alive, closed, closes>>

\* list_peer_conns asks the listener of the Peer, if there still is one, to take out
\* what is closed.
AskListener ==
    events' = IF peer_map = None THEN events
              ELSE [events EXCEPT ![peer_map] = @ \cup (conns[peer_map] \cap closed)]

\* Mutant: a peer that is still in the map is never noted.
CleanerListNotesNothing ==
    /\ cleaner = "listed"
    /\ AskListener
    /\ cleaner' = IF peer_map = None THEN "remove" ELSE "idle"
    /\ UNCHANGED <<peer_map, pc, peer, conns, watched, alive, closed, closes>>

\* Second part: the peer is noted if it has gone since, or has nothing but closed
\* connections.
CleanerList ==
    /\ cleaner = "listed"
    /\ AskListener
    /\ cleaner' = IF peer_map = None \/ conns[peer_map] \subseteq closed
                  THEN "remove" ELSE "idle"
    /\ UNCHANGED <<peer_map, pc, peer, conns, watched, alive, closed, closes>>

\* close_peer
ClosePeer ==
    /\ peer_map' = None
    /\ Release(None, {d \in Conns : Holding(d)})
    /\ UNCHANGED <<pc, peer, watched, alive>>

\* Third part: whatever Peer the map holds now is closed.
CleanerRemove ==
    /\ cleaner = "remove"
    /\ cleaner' = "idle"
    /\ ClosePeer
    /\ UNCHANGED closes

\* close_peer, called for a peer that is no longer trusted or has a duplicate id.
CallClosePeer ==
    /\ closes < MaxCloses
    /\ peer_map # None
    /\ closes' = closes + 1
    /\ ClosePeer
    /\ UNCHANGED cleaner

\* close_peer_conn, called by the management interface.
CallCloseConn(c) ==
    /\ closes < MaxCloses
    /\ peer_map # None
    /\ c \in conns[peer_map]
    /\ closes' = closes + 1
    /\ events' = [events EXCEPT ![peer_map] = @ \cup {c}]
    /\ UNCHANGED <<peer_map, pc, peer, conns, watched, alive, closed, cleaner>>

-----------------------------------------------------------------------------
Add(c) ==
    \/ Check(c)
    \/ GetPeer(c)
    \/ InsertConn(c)
    \/ Publish(c)

Next ==
    \/ \E c \in Conns : Start(c) \/ Add(c) \/ Close(c) \/ Notify(c) \/ ForgetUrl(c)
                        \/ CallCloseConn(c)
    \/ \E i \in Conns : \E c \in events[i] : Listen(i, c)
    \/ CleanerStart
    \/ CleanerList
    \/ CleanerRemove
    \/ CallClosePeer

\* Tasks that can go on do, and the cleaner runs every 3 s.  No connection has to be
\* made or closed, and nobody has to call.
Fairness ==
    /\ \A c \in Conns : WF_vars(Add(c)) /\ WF_vars(Notify(c)) /\ WF_vars(ForgetUrl(c))
                        /\ WF_vars(\E d \in events[c] : Listen(c, d))
    /\ WF_vars(CleanerStart)
    /\ WF_vars(CleanerList)
    /\ WF_vars(CleanerRemove)

Spec == Init /\ [][Next]_vars /\ Fairness

-----------------------------------------------------------------------------
\* Properties

\* Somebody refers to Peer i.
Referred(i) == i = peer_map \/ \E d \in Conns : Holding(d) /\ peer[d] = i

\* The values the variables take; a Peer nobody refers to has no connections.
TypeOK ==
    /\ peer_map \in Conns \cup {None}
    /\ pc \in [Conns -> Adding \cup {"new", "done", "panicked"}]
    /\ peer \in [Conns -> Conns \cup {None}]
    /\ conns \in [Conns -> SUBSET Conns]
    /\ events \in [Conns -> SUBSET Conns]
    /\ watched \subseteq Conns
    /\ alive \subseteq Conns
    /\ closed \subseteq Conns
    /\ cleaner \in {"idle", "listed", "remove"}
    /\ closes \in 0..MaxCloses
    /\ \A i \in Conns : conns[i] # {} => Referred(i)

\* No connection is leaked: once add_new_peer_conn is done with it, an open connection
\* is one of the Peer the map holds, or of a Peer that goes with the task that is still
\* adding to it.  What the URL list calls alive is therefore a connection packets can
\* be sent over.
NoneIsLeaked ==
    \A c \in Conns : pc[c] = "done" /\ c \notin closed =>
        \E i \in Conns : c \in conns[i] /\ Referred(i)

\* A URL stays alive while any connection made to it is open, whichever of its other
\* connections closed: the manual connector would connect a second time.
OpenUrlIsAlive ==
    \A c \in Conns : pc[c] # "new" /\ Url[c] # None /\ c \notin closed => c \in alive

\* What is closed is forgotten: in the end a closed connection is in no Peer and not on
\* the list of its URL, where it would keep the manual connector from connecting
\* again, and a peer without an open connection is not in the map.
ClosedIsForgotten ==
    <>[]( /\ \A c \in closed : c \notin alive /\ \A i \in Conns : c \notin conns[i]
          /\ peer_map # None => conns[peer_map] # {} )
=============================================================================
