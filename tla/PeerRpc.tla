------------------------------ MODULE PeerRpc ------------------------------
(***************************************************************************)
(* Rpc between peers (proto/rpc_impl): the calls of several client         *)
(* processes to one server over a network that loses, delays, reorders and *)
(* duplicates packets.  A request and a response are split into pieces; a  *)
(* PacketMerger at each end puts them together again.                      *)
(*                                                                         *)
(* A call is the pair <<from_peer_id, transaction_id>>; transaction ids    *)
(* start at an arbitrary number in every process, so two processes may use *)
(* the same one.  Time is left out: a timeout, and the removal of a merger *)
(* that was not updated for 10 s, may come at any moment.  Compression,    *)
(* statistics and the method's own arguments are left out; the body of a   *)
(* piece is the number of the execution that produced it (0: a request).   *)
(***************************************************************************)
EXTENDS Naturals, FiniteSets

CONSTANTS
    Peers,          \* client processes
    MaxTid,         \* bound: calls of one client
    MaxCalls,       \* bound: calls altogether
    MinPieces,      \* 0 if peers of an old version, which know no pieces, take part
    MaxPieces,      \* bound: pieces of a request or a response
    MaxDuplicates   \* bound: packets delivered a second time

ASSUME BoundsAreNat ==
    /\ MaxTid \in Nat
    /\ MaxCalls \in Nat
    /\ MinPieces \in {0, 1}
    /\ MaxPieces \in Nat \ {0}
    /\ MaxDuplicates \in Nat

Tids == 1..MaxTid
Calls == Peers \X Tids
Idx == 0..(MaxPieces - 1)

\* 0 is what the piece fields of a packet without them read as.
Totals == MinPieces..MaxPieces

Missing == {}
NoCall == <<>>
NoAnswer == {}

VARIABLES
    next,       \* next[p]: CUR_TID of process p
    phase,      \* phase[c]: where Handler::call stands
    inflight,   \* keys of the clients' inflight_requests
    merger,     \* merger[c]: the PacketMerger of that entry
    rx,         \* rx[c]: the first answer in the call's channel
    result,     \* result[c]: what call returned
    panicked,   \* clients whose receive loop panicked
    held,       \* keys of the server's packet_mergers
    mergers,    \* mergers[k]: the PacketMerger at that key
    handlers,   \* handle_rpc tasks that have not answered yet
    executed,   \* executed[c]: handle_rpc tasks spawned for c
    net,        \* packets that may still arrive
    duplicates, \* packets delivered and kept for a second delivery
    pieces,     \* pieces[c]: how many packets c's request was split into
    arrived,    \* history: arrived[c][i]: how often the server got piece i of c
    fed,        \* history: response packets given to the merger of a call
    expired     \* history: calls whose pieces the server dropped as too old

vars == <<next, phase, inflight, merger, rx, result, panicked, held, mergers,
          handlers, executed, net, duplicates, pieces, arrived, fed, expired>>
serverVars == <<held, mergers, handlers, executed, arrived, expired>>
clientVars == <<next, phase, inflight, merger, rx, result, panicked, pieces, fed>>

-----------------------------------------------------------------------------
\* Packets and mergers

Packets == [call : Calls, by : Nat, idx : Idx, total : Totals]

Indexes(n) == IF n = 0 THEN {0} ELSE 0..(n - 1)

\* build_rpc_packet: the pieces carry their number and how many there are.
build_rpc_packet(c, by, n) ==
    {[call |-> c, by |-> by, idx |-> i, total |-> n] : i \in Indexes(n)}

IsRequest(p) == p.by = 0

NewMerger == [first |-> NoCall, at |-> [i \in Idx |-> Missing]]

\* PacketMerger::feed: pieces of another call are forgotten, the vector is cut or
\* extended to the length this piece announces, and the piece is stored.
feed(m, p) ==
    IF p.total = 0
    THEN m
    ELSE [first |-> p.call,
          at |-> [i \in Idx |-> IF i = p.idx
                                THEN {p.by}
                                ELSE IF i < p.total /\ m.first = p.call
                                     THEN m.at[i]
                                     ELSE Missing]]

\* try_merge_pieces after that: no piece is missing.
try_merge_pieces(m, p) ==
    p.total = 0 \/ \A i \in 0..(p.total - 1) : m.at[i] # Missing

\* The executions whose bytes the merged body holds.
Body(m, p) == IF p.total = 0 THEN {p.by} ELSE UNION {m.at[i] : i \in 0..(p.total - 1)}

-----------------------------------------------------------------------------
Init ==
    /\ next = [p \in Peers |-> 1]
    /\ phase = [c \in Calls |-> "none"]
    /\ inflight = {}
    /\ merger = [c \in Calls |-> NewMerger]
    /\ rx = [c \in Calls |-> NoAnswer]
    /\ result = [c \in Calls |-> [kind |-> "idle", by |-> {}]]
    /\ panicked = {}
    /\ held = {}
    /\ mergers = [c \in Calls |-> NewMerger]
    /\ handlers = {}
    /\ executed = [c \in Calls |-> 0]
    /\ net = {}
    /\ duplicates = 0
    /\ pieces = [c \in Calls |-> 0]
    /\ arrived = [c \in Calls |-> [i \in Idx |-> 0]]
    /\ fed = {}
    /\ expired = {}

Begun == {c \in Calls : phase[c] # "none"}

-----------------------------------------------------------------------------
\* The client

\* Handler::call up to do_rpc: take a transaction id, make the channel, insert the
\* inflight entry and send the pieces of the request.  A timeout that cuts the
\* sending short is a timeout after which the unsent pieces are never delivered.
Begin(p, n) ==
    LET c == <<p, next[p]>> IN
    /\ next[p] <= MaxTid
    /\ Cardinality(Begun) < MaxCalls
    /\ next' = [next EXCEPT ![p] = @ + 1]
    /\ phase' = [phase EXCEPT ![c] = "waiting"]
    /\ inflight' = inflight \cup {c}
    /\ merger' = [merger EXCEPT ![c] = NewMerger]
    /\ result' = [result EXCEPT ![c] = [kind |-> "open", by |-> {}]]
    /\ pieces' = [pieces EXCEPT ![c] = n]
    /\ net' = net \cup build_rpc_packet(c, 0, n)
    /\ UNCHANGED <<rx, panicked, duplicates, fed>>
    /\ UNCHANGED serverVars

\* rx.recv: the call has its answer and decodes it; the entry is still in the table.
Recv(c) ==
    /\ phase[c] = "waiting"
    /\ rx[c] # NoAnswer
    /\ phase' = [phase EXCEPT ![c] = "decoding"]
    /\ UNCHANGED <<next, inflight, merger, rx, result, panicked, pieces, net, duplicates, fed>>
    /\ UNCHANGED serverVars

\* Mutant: no deferred removal of the entry.
LeaveKeepsEntry(c, r) ==
    /\ result' = [result EXCEPT ![c] = r]
    /\ phase' = [phase EXCEPT ![c] = "leaving"]
    /\ UNCHANGED <<next, inflight, merger, rx, panicked, pieces, net, duplicates, fed>>
    /\ UNCHANGED serverVars

\* The call returns: the deferred removal of the entry runs before the channel, which
\* was made earlier, is dropped.
Leave(c, r) ==
    /\ result' = [result EXCEPT ![c] = r]
    /\ phase' = [phase EXCEPT ![c] = "leaving"]
    /\ inflight' = inflight \ {c}
    /\ UNCHANGED <<next, merger, rx, panicked, pieces, net, duplicates, fed>>
    /\ UNCHANGED serverVars

\* decompress_packet, the assertion on the transaction id and the decoding of the
\* response.
Return(c) ==
    /\ phase[c] = "decoding"
    /\ Leave(c, [kind |-> "answered", by |-> rx[c]])

\* A body put together from two executions need not decode.
Garbled(c) ==
    /\ phase[c] = "decoding"
    /\ Cardinality(rx[c]) > 1
    /\ Leave(c, [kind |-> "failed", by |-> {}])

\* Mutant: the timeout covers the sending of the request only.
TimeoutWhileSending(c) ==
    /\ phase[c] = "waiting"
    /\ \E p \in net : p.call = c /\ IsRequest(p)
    /\ Leave(c, [kind |-> "failed", by |-> {}])

\* timeout(do_rpc), or the caller dropped the call's future.
Timeout(c) ==
    /\ phase[c] = "waiting"
    /\ Leave(c, [kind |-> "failed", by |-> {}])

\* The channel's receiver is dropped, with what is still in it.
DropReceiver(c) ==
    /\ phase[c] = "leaving"
    /\ phase' = [phase EXCEPT ![c] = "ended"]
    /\ rx' = [rx EXCEPT ![c] = NoAnswer]
    /\ UNCHANGED <<next, inflight, merger, result, panicked, pieces, net, duplicates, fed>>
    /\ UNCHANGED serverVars

\* A packet arrives: it is gone from the network, or comes once more.
Arrive(p) ==
    \/ /\ net' = net \ {p}
       /\ UNCHANGED duplicates
    \/ /\ duplicates < MaxDuplicates
       /\ duplicates' = duplicates + 1
       /\ UNCHANGED net

\* sender.send fails, and the loop with it, when the receiver is gone.
HasReceiver(c) == phase[c] \in {"waiting", "decoding", "leaving"}

\* The receive loop of Client::run on a response packet.
RecvResponse(p) ==
    LET c == p.call
        m == feed(merger[c], p) IN
    /\ p \in net
    /\ ~ IsRequest(p)
    /\ c[1] \notin panicked
    /\ Arrive(p)
    /\ IF c \in inflight
       THEN /\ merger' = [merger EXCEPT ![c] = m]
            /\ fed' = fed \cup {p}
            /\ IF ~ try_merge_pieces(m, p)
               THEN UNCHANGED <<rx, panicked>>
               ELSE IF HasReceiver(c)
               THEN /\ rx' = [rx EXCEPT ![c] = IF @ = NoAnswer THEN Body(m, p) ELSE @]
                    /\ UNCHANGED panicked
               ELSE /\ panicked' = panicked \cup {c[1]}
                    /\ UNCHANGED rx
       ELSE UNCHANGED <<merger, fed, rx, panicked>>
    /\ UNCHANGED <<next, phase, inflight, result, pieces>>
    /\ UNCHANGED serverVars

-----------------------------------------------------------------------------
\* The server

\* Mutant: requests are told apart by their transaction id alone.
KeyWithoutSender(c) == <<CHOOSE p \in Peers : TRUE, c[2]>>

\* PacketMergerKey
PacketMergerKey(c) == c

\* Mutant: the merger of a complete request stays in the table.
RecvRequestKeepsMerger(p) ==
    LET k == PacketMergerKey(p.call)
        m == feed(IF k \in held THEN mergers[k] ELSE NewMerger, p)
        n == executed[p.call] + 1 IN
    /\ p \in net
    /\ IsRequest(p)
    /\ Arrive(p)
    /\ arrived' = [arrived EXCEPT ![p.call][p.idx] = @ + 1]
    /\ held' = held \cup {k}
    /\ mergers' = [mergers EXCEPT ![k] = m]
    /\ IF try_merge_pieces(m, p)
       THEN /\ handlers' = handlers \cup {[call |-> p.call, by |-> n]}
            /\ executed' = [executed EXCEPT ![p.call] = n]
       ELSE UNCHANGED <<handlers, executed>>
    /\ UNCHANGED expired
    /\ UNCHANGED clientVars

\* The receive loop of Server::run on a request packet: feed the merger at its key,
\* made if absent; a complete request leaves the table and gets a task of its own.
RecvRequest(p) ==
    LET k == PacketMergerKey(p.call)
        m == feed(IF k \in held THEN mergers[k] ELSE NewMerger, p)
        n == executed[p.call] + 1 IN
    /\ p \in net
    /\ IsRequest(p)
    /\ Arrive(p)
    /\ arrived' = [arrived EXCEPT ![p.call][p.idx] = @ + 1]
    /\ IF try_merge_pieces(m, p)
       THEN /\ held' = held \ {k}
            /\ mergers' = [mergers EXCEPT ![k] = NewMerger]
            /\ handlers' = handlers \cup {[call |-> p.call, by |-> n]}
            /\ executed' = [executed EXCEPT ![p.call] = n]
       ELSE /\ held' = held \cup {k}
            /\ mergers' = [mergers EXCEPT ![k] = m]
            /\ UNCHANGED <<handlers, executed>>
    /\ UNCHANGED expired
    /\ UNCHANGED clientVars

\* handle_rpc: the method returned, failed or timed out; either is a response, split
\* into as many pieces as it needs.
HandleRpc(h, n) ==
    /\ h \in handlers
    /\ handlers' = handlers \ {h}
    /\ net' = net \cup build_rpc_packet(h.call, h.by, n)
    /\ UNCHANGED <<held, mergers, executed, arrived, expired, duplicates>>
    /\ UNCHANGED clientVars

\* Mutant: the task drops only mergers that hold nothing.
ExpireEmptyMerger(k) ==
    /\ k \in held
    /\ mergers[k] = NewMerger
    /\ held' = held \ {k}
    /\ UNCHANGED <<mergers, expired, handlers, executed, arrived, net, duplicates>>
    /\ UNCHANGED clientVars

\* The task that drops mergers nothing was fed to for 10 s.
ExpireMerger(k) ==
    /\ k \in held
    /\ held' = held \ {k}
    /\ mergers' = [mergers EXCEPT ![k] = NewMerger]
    /\ expired' = expired \cup {mergers[k].first}
    /\ UNCHANGED <<handlers, executed, arrived, net, duplicates>>
    /\ UNCHANGED clientVars

-----------------------------------------------------------------------------
Next ==
    \/ \E p \in Peers, n \in Totals : Begin(p, n)
    \/ \E c \in Calls : Recv(c) \/ Return(c) \/ Garbled(c) \/ Timeout(c) \/ DropReceiver(c)
    \/ \E p \in net : RecvResponse(p) \/ RecvRequest(p)
    \/ \E h \in handlers, n \in Totals : HandleRpc(h, n)
    \/ \E k \in held : ExpireMerger(k)

SafeSpec == Init /\ [][Next]_vars

\* A call's timer runs out and its task goes on; a handler has a timeout of its own;
\* the task that expires mergers never stops.  Nothing is assumed of the network.
Fairness ==
    /\ \A c \in Calls : /\ WF_vars(Timeout(c) \/ Recv(c))
                        /\ WF_vars(Return(c) \/ Garbled(c))
                        /\ WF_vars(DropReceiver(c))
                        /\ WF_vars(ExpireMerger(c))
    /\ WF_vars(\E h \in handlers, n \in Totals : HandleRpc(h, n))

Spec == SafeSpec /\ Fairness

-----------------------------------------------------------------------------
\* Properties

Phases == {"none", "waiting", "decoding", "leaving", "ended"}

MergersOK(m) ==
    /\ m \in [Calls -> [first : {NoCall} \cup Calls, at : [Idx -> SUBSET Nat]]]
    /\ \A c \in Calls : m[c].first \in {NoCall, c}

\* The values the variables take; a merger holds pieces of its own call only.
TypeOK ==
    /\ next \in [Peers -> 1..(MaxTid + 1)]
    /\ phase \in [Calls -> Phases]
    /\ pieces \in [Calls -> 0..MaxPieces]
    /\ result \in [Calls -> [kind : {"idle", "open", "failed", "answered"}, by : SUBSET Nat]]
    /\ inflight \subseteq Calls
    /\ panicked \subseteq Peers
    /\ held \subseteq Calls
    /\ executed \in [Calls -> Nat]
    /\ duplicates \in 0..MaxDuplicates
    /\ net \subseteq Packets
    /\ rx \in [Calls -> SUBSET Nat]
    /\ handlers \subseteq [call : Calls, by : Nat]
    /\ arrived \in [Calls -> [Idx -> Nat]]
    /\ MergersOK(merger)
    /\ MergersOK(mergers)

\* The receive loop of a client never hands an answer to a call that has dropped its
\* receiver: sender.send(..).unwrap() (client.rs:179) would end the loop, and with it
\* every later call of the process.
LoopSurvives == panicked = {}

\* Every run of a request by the server took a whole copy of it: a request is run no
\* oftener than each of its pieces arrived, so a retransmitted piece alone never runs
\* a request again (server.rs:145 removes the pieces with the merger).
WholeCopyPerRun ==
    \A c \in Calls : \A i \in Indexes(pieces[c]) : executed[c] <= arrived[c][i]

\* What was received is not lost to another call's packets: once the server got every
\* piece of a request, and did not drop them as too old, it ran the request; once a
\* client got every piece of the only response to a call in flight, the call has its
\* answer.
NothingReceivedIsLost ==
    /\ \A c \in Begun :
          (\A i \in Indexes(pieces[c]) : arrived[c][i] > 0)
              => c \in expired \/ executed[c] > 0
    /\ \A p \in fed :
          /\ executed[p.call] = 1
          /\ build_rpc_packet(p.call, p.by, p.total) \subseteq fed
          => rx[p.call] # NoAnswer \/ phase[p.call] \in {"leaving", "ended"}

\* The rpc layer implements RpcCalls: a call ends once, answered only by its own
\* executions, and is executed at most once more than packets were duplicated.
Abs == INSTANCE RpcCalls WITH status <- result
Implements == Abs!Spec
SafelyImplements == Abs!SafeSpec

\* The tables drain: whatever the network does, packet_mergers is empty for good once
\* requests stop, and so is inflight_requests.
TablesDrain == <>[](held = {} /\ inflight = {})
=============================================================================
