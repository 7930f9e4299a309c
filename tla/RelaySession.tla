---------------------------- MODULE RelaySession ----------------------------
(***************************************************************************)
(* Secure sessions between two peers that reach each other only through a  *)
(* relay: RelayPeerMap (peers/relay_peer_map.rs) on both sides, each with  *)
(* its PeerSessionStore (peers/peer_session.rs), and the receive loop of   *)
(* PeerManager that feeds them.                                            *)
(*                                                                         *)
(* A node without a session buffers what it has to send and runs a         *)
(* handshake task: message 1 asks, the responder creates, joins or         *)
(* synchronises a session and answers with message 2.  Both peers may ask  *)
(* at the same time, messages get lost, late or duplicated, sessions are   *)
(* collected or given up after too many packets that do not decrypt.       *)
(*                                                                         *)
(* Data abstraction.  A root key is a number; a session is its key, its    *)
(* generation and the count of consecutive decryption failures (a session  *)
(* that reached the limit is invalid, which every reader treats like no    *)
(* session).  A data packet is the key it was encrypted with; epochs and   *)
(* replay windows are not modelled here.  An attempt is a number: Noise    *)
(* lets an initiator read only the answer to its own message 1.            *)
(***************************************************************************)
EXTENDS Naturals, Sequences, FiniteSets, FiniteSetsExt, SequencesExt

CONSTANTS
    Senders,        \* the peers that have packets to send
    TaskIds,        \* bound: handshake tasks of a node at the same time
    MaxAttempts,    \* HANDSHAKE_MAX_ATTEMPTS
    MaxPending,     \* MAX_PENDING_PACKETS_PER_PEER
    FailLimit,      \* DECRYPT_FAIL_THRESHOLD
    MaxQueue,       \* bound: data packets in flight to a node
    MaxHs,          \* bound: attempts that something still refers to
    MaxKeys,        \* bound: root keys that something still refers to
    MaxFaults,      \* bound: lost, late, duplicated and overtaking messages
    MaxEvict        \* bound: rounds of the two collectors

ASSUME RelayAssumption ==
    /\ Senders \subseteq {1, 2}
    /\ IsFiniteSet(TaskIds) /\ TaskIds \subseteq Nat \ {0}
    /\ {MaxAttempts, FailLimit, MaxQueue, MaxHs, MaxKeys} \subseteq Nat \ {0}
    /\ {MaxPending, MaxFaults, MaxEvict} \subseteq Nat

VARIABLES
    store,      \* store[n]: n's session with the other peer, or NoSession
    pend,       \* pend[n]: pending_handshakes, the attempt that waits, or 0
    lock,       \* lock[n]: the task that holds handshake_locks, or 0
    task,       \* task[n][i]: handshake_session
    buffered,   \* buffered[n]: length of pending_packets
    sender,     \* sender[n]: send_msg is about to buffer its packet
    state,      \* state[n]: RelayPeerState: none, active or idle
    backoff,    \* backoff[n]: next_retry_at lies in the future
    handler,    \* handler[n]: the message 1 that n's receive loop answers
    net,        \* net[n]: handshake messages in flight to n, oldest first
    data,       \* data[n]: keys of the data packets in flight to n
    faults,     \* faults so far
    evicted     \* collections so far

vars == <<store, pend, lock, task, buffered, sender, state, backoff, handler,
          net, data, faults, evicted>>

Nodes == {1, 2}             \* ordered like the peer ids
Other(n) == 3 - n
NoSession == [key |-> 0, gen |-> 0, fails |-> 0]
NoMsg == [h |-> 0, gen |-> 0]
NoAnswer == [h |-> 0, act |-> "Join", gen |-> 0, key |-> 0]
Off == [pc |-> "off", attempt |-> 0, h |-> 0, answer |-> NoAnswer]
FirstGeneration == 1

IsAnswer(x) == "key" \in DOMAIN x
Messages == UNION {ToSet(net[n]) : n \in Nodes}

\* Attempts and root keys are random: one that nothing refers to any more.
FreshAttempts ==
    (1..MaxHs) \ ({x.h : x \in Messages} \cup {handler[n].h : n \in Nodes}
                  \cup {task[n][i].h : n \in Nodes, i \in TaskIds}
                  \cup {task[n][i].answer.h : n \in Nodes, i \in TaskIds})
FreshKeys ==
    (1..MaxKeys) \ ({store[n].key : n \in Nodes}
                    \cup {x.key : x \in {y \in Messages : IsAnswer(y)}}
                    \cup {task[n][i].answer.key : n \in Nodes, i \in TaskIds}
                    \cup UNION {ToSet(data[n]) : n \in Nodes})
-----------------------------------------------------------------------------
\* ensure_session without a session: start a handshake task unless one holds
\* the lock.
EnsureSession(n) ==
    LET free == {i \in TaskIds : task[n][i] = Off}
    IN  IF lock[n] = 0 /\ free # {}
        THEN LET i == Min(free)
             IN  /\ lock' = [lock EXCEPT ![n] = i]
                 /\ task' = [task EXCEPT ![n][i] = [Off EXCEPT !.pc = "start"]]
        ELSE UNCHANGED <<lock, task>>

\* The packets ks join the queue to n; a full queue drops.
Enqueue(n, k, count) ==
    IF count = 0 \/ Len(data[n]) >= MaxQueue THEN data
    ELSE [data EXCEPT ![n] = Append(@, k)]

\* send_msg up to the decision.  Traffic never ends.
SendMsg(n) ==
    /\ n \in Senders /\ ~sender[n]
    /\ state' = [state EXCEPT ![n] = "active"]
    /\ IF store[n] # NoSession
       THEN /\ data' = Enqueue(Other(n), store[n].key, 1)
            /\ UNCHANGED <<lock, task, sender>>
       ELSE /\ EnsureSession(n)
            /\ sender' = [sender EXCEPT ![n] = TRUE]
            /\ UNCHANGED data
    /\ UNCHANGED <<store, pend, buffered, backoff, handler, net, faults, evicted>>

BufferOverfull(n) ==
    /\ sender[n]
    /\ buffered' = [buffered EXCEPT ![n] = IF @ <= MaxPending THEN @ + 1 ELSE @]
    /\ sender' = [sender EXCEPT ![n] = FALSE]
    /\ UNCHANGED <<store, pend, lock, task, state, backoff, handler, net, data,
                   faults, evicted>>

\* buffer_pending_packet, after ensure_session returned its error
BufferPendingPacket(n) ==
    /\ sender[n]
    /\ buffered' = [buffered EXCEPT ![n] = IF @ < MaxPending THEN @ + 1 ELSE @]
    /\ sender' = [sender EXCEPT ![n] = FALSE]
    /\ UNCHANGED <<store, pend, lock, task, state, backoff, handler, net, data,
                   faults, evicted>>
-----------------------------------------------------------------------------
\* The handshake task.

\* The task ends: its guard frees the lock it took.
End(n, i) ==
    /\ task' = [task EXCEPT ![n][i] = Off]
    /\ lock' = [lock EXCEPT ![n] = IF @ = i THEN 0 ELSE @]

Touched(n) == [state EXCEPT ![n] = IF @ = "none" THEN "active" ELSE @]

\* flush_pending_packets with key k
Flush(n, k) ==
    /\ data' = Enqueue(Other(n), k, buffered[n])
    /\ buffered' = [buffered EXCEPT ![n] = 0]

\* handshake_session up to the first attempt
HandshakeSession(n, i) ==
    /\ task[n][i].pc = "start"
    /\ CASE store[n] # NoSession -> Flush(n, store[n].key) /\ End(n, i)
         [] store[n] = NoSession /\ backoff[n] ->
                /\ buffered' = [buffered EXCEPT ![n] = 0]
                /\ End(n, i)
                /\ UNCHANGED data
         [] OTHER -> /\ task' = [task EXCEPT ![n][i].pc = "once"]
                     /\ UNCHANGED <<lock, buffered, data>>
    /\ UNCHANGED <<store, pend, sender, state, backoff, handler, net, faults,
                   evicted>>

\* handshake_session_once up to the wait: the sender of an earlier attempt is
\* dropped when pending_handshakes is overwritten.
HandshakeOnce(n, i) ==
    /\ task[n][i].pc = "once"
    /\ FreshAttempts # {}
    /\ LET h == Min(FreshAttempts)
       IN  /\ task' = [task EXCEPT ![n][i].pc = "wait", ![n][i].h = h]
           /\ pend' = [pend EXCEPT ![n] = h]
           /\ net' = [net EXCEPT ![Other(n)] = Append(@, [h |-> h, gen |-> store[n].gen])]
    /\ UNCHANGED <<store, lock, buffered, sender, state, backoff, handler, data,
                   faults, evicted>>

\* register_handshake_failure, then another attempt after a pause, or the end
AttemptFailed(n, i) ==
    /\ backoff' = [backoff EXCEPT ![n] = TRUE]
    /\ state' = Touched(n)
    /\ IF task[n][i].attempt + 1 < MaxAttempts
       THEN /\ task' = [task EXCEPT ![n][i] =
                  [Off EXCEPT !.pc = "sleep", !.attempt = task[n][i].attempt]]
            /\ UNCHANGED <<lock, buffered>>
       ELSE End(n, i) /\ buffered' = [buffered EXCEPT ![n] = 0]

\* A request of n, or the answer to one, is still on its way.
Unanswered(n) ==
    \/ \E x \in ToSet(net[Other(n)]) : ~IsAnswer(x)
    \/ \E x \in ToSet(net[n]) : IsAnswer(x)
    \/ handler[Other(n)] # NoMsg

\* 200 ms or more pass for n: a message that takes longer is a fault.
TimePasses(n) ==
    IF Unanswered(n) THEN faults < MaxFaults /\ faults' = faults + 1
    ELSE UNCHANGED faults

HandshakeTimeoutKeepsPending(n, i) ==
    /\ task[n][i].pc = "wait" /\ pend[n] = task[n][i].h
    /\ TimePasses(n)
    /\ AttemptFailed(n, i)
    /\ UNCHANGED <<store, pend, sender, handler, net, data, evicted>>

\* handshake_session_once fails before it waits: the route does not know the
\* peer (pending_handshakes is as before) or has no next hop (it is removed).
HandshakeNotSent(n, i) ==
    /\ task[n][i].pc = "once"
    /\ faults < MaxFaults
    /\ faults' = faults + 1
    /\ \/ UNCHANGED pend
       \/ pend' = [pend EXCEPT ![n] = 0]
    /\ AttemptFailed(n, i)
    /\ UNCHANGED <<store, sender, handler, net, data, evicted>>

\* HANDSHAKE_TIMEOUT_SECS pass.
HandshakeTimeout(n, i) ==
    /\ task[n][i].pc = "wait" /\ pend[n] = task[n][i].h
    /\ TimePasses(n)
    /\ pend' = [pend EXCEPT ![n] = 0]
    /\ AttemptFailed(n, i)
    /\ UNCHANGED <<store, sender, handler, net, data, evicted>>

\* The receiver of the oneshot channel finds its sender dropped.
HandshakeCanceled(n, i) ==
    /\ task[n][i].pc = "wait" /\ pend[n] # task[n][i].h
    /\ pend' = [pend EXCEPT ![n] = 0]
    /\ AttemptFailed(n, i)
    /\ UNCHANGED <<store, sender, handler, net, data, faults, evicted>>

\* apply_initiator_action: the session that answer x leaves n with
Applied(n, x) ==
    IF x.act = "Join" THEN store[n]
    ELSE [key |-> x.key, gen |-> x.gen, fails |-> store[n].fails]

\* The rest of an attempt that was answered: an answer to another attempt
\* cannot be read, and a session to join must exist with that generation.
HandshakeAnswered(n, i) ==
    LET x  == task[n][i].answer
        ok == /\ x.h = task[n][i].h
              /\ x.act = "Join" =>
                    store[n] # NoSession /\ store[n].gen = x.gen
        S  == Applied(n, x)
    IN  /\ task[n][i].pc = "answered"
        /\ IF ok
           THEN /\ store' = [store EXCEPT ![n] = S]
                /\ backoff' = [backoff EXCEPT ![n] = FALSE]
                /\ state' = Touched(n)
                /\ Flush(n, S.key)
                /\ End(n, i)
           ELSE AttemptFailed(n, i) /\ UNCHANGED <<store, data>>
        /\ UNCHANGED <<pend, sender, handler, net, faults, evicted>>

\* The pause after a failed attempt is as long as next_retry_at is away.
HandshakeRetry(n, i) ==
    /\ task[n][i].pc = "sleep"
    /\ TimePasses(n)
    /\ task' = [task EXCEPT ![n][i].pc = "once", ![n][i].attempt = @ + 1]
    /\ backoff' = [backoff EXCEPT ![n] = FALSE]
    /\ UNCHANGED <<store, pend, lock, buffered, sender, state, handler, net,
                   data, evicted>>

\* next_retry_at is reached.
BackoffOver(n) ==
    /\ backoff[n]
    /\ TimePasses(n)
    /\ backoff' = [backoff EXCEPT ![n] = FALSE]
    /\ UNCHANGED <<store, pend, lock, task, buffered, sender, state, handler,
                   net, data, evicted>>
-----------------------------------------------------------------------------
\* The receive loop of PeerManager handles one packet after the other.

\* The j-th message to n is taken from the network.  That it overtakes others
\* and that a copy of it stays there are faults.
Receive(n, j, keep) ==
    LET cost == (IF j > 1 THEN 1 ELSE 0) + (IF keep THEN 1 ELSE 0)
    IN  /\ handler[n] = NoMsg
        /\ faults + cost <= MaxFaults
        /\ faults' = faults + cost
        /\ net' = IF keep THEN net ELSE [net EXCEPT ![n] = RemoveAt(@, j)]

\* handle_handshake_packet, RelayHandshakeAck: the waiting attempt gets it.
RecvAnswer(n, j, keep) ==
    /\ IsAnswer(net[n][j])
    /\ Receive(n, j, keep)
    /\ task' = [task EXCEPT ![n] = [i \in TaskIds |->
            IF pend[n] # 0 /\ task[n][i].pc = "wait" /\ task[n][i].h = pend[n]
            THEN [task[n][i] EXCEPT !.pc = "answered", !.answer = net[n][j]]
            ELSE task[n][i]]]
    /\ pend' = [pend EXCEPT ![n] = 0]
    /\ UNCHANGED <<store, lock, buffered, sender, state, backoff, handler, data,
                   evicted>>

\* handle_relay_msg1 up to the look-up of the remote key: of two peers that
\* ask at the same time the one with the smaller id stays the initiator.
RecvRequest(n, j, keep) ==
    /\ ~IsAnswer(net[n][j])
    /\ Receive(n, j, keep)
    /\ IF pend[n] # 0 /\ n < Other(n)
       THEN UNCHANGED <<pend, handler>>
       ELSE /\ pend' = [pend EXCEPT ![n] = 0]
            /\ handler' = [handler EXCEPT ![n] = net[n][j]]
    /\ UNCHANGED <<store, lock, task, buffered, sender, state, backoff, data,
                   evicted>>

\* upsert_responder_session: the session there is, or a new one
ResponderSession(n) ==
    IF store[n] # NoSession THEN store[n]
    ELSE [key |-> Min(FreshKeys), gen |-> FirstGeneration, fails |-> 0]

\* The rest of handle_relay_msg1: upsert_responder_session, the answer, and
\* the packets that waited for a session.
AnswerRequest(n) ==
    LET x == handler[n]
        S == ResponderSession(n)
        act == CASE store[n] = NoSession -> "Create"
                 [] store[n] # NoSession /\ x.gen = store[n].gen -> "Join"
                 [] OTHER -> "Sync"
    IN  /\ x # NoMsg
        /\ store[n] = NoSession => FreshKeys # {}
        /\ store' = [store EXCEPT ![n] = S]
        /\ net' = [net EXCEPT ![Other(n)] = Append(@,
                        [h |-> x.h, act |-> act, gen |-> S.gen,
                         key |-> IF act = "Join" THEN 0 ELSE S.key])]
        /\ backoff' = [backoff EXCEPT ![n] = FALSE]
        /\ state' = Touched(n)
        /\ Flush(n, S.key)
        /\ handler' = [handler EXCEPT ![n] = NoMsg]
        /\ UNCHANGED <<pend, lock, task, sender, faults, evicted>>

\* The answer finds no next hop: the session stays, nothing is flushed.
AnswerNotSent(n) ==
    /\ handler[n] # NoMsg
    /\ store[n] = NoSession => FreshKeys # {}
    /\ faults < MaxFaults
    /\ faults' = faults + 1
    /\ store' = [store EXCEPT ![n] = ResponderSession(n)]
    /\ backoff' = [backoff EXCEPT ![n] = FALSE]
    /\ state' = Touched(n)
    /\ handler' = [handler EXCEPT ![n] = NoMsg]
    /\ UNCHANGED <<pend, lock, task, buffered, sender, net, data, evicted>>

\* The route does not know the asking peer.
RequestRejected(n) ==
    /\ handler[n] # NoMsg
    /\ faults < MaxFaults
    /\ faults' = faults + 1
    /\ handler' = [handler EXCEPT ![n] = NoMsg]
    /\ UNCHANGED <<store, pend, lock, task, buffered, sender, state, backoff,
                   net, data, evicted>>

\* decrypt_payload with key k: the session afterwards
DecryptedNeverInvalid(S, k) ==
    IF k = S.key THEN [S EXCEPT !.fails = 0]
    ELSE [S EXCEPT !.fails = IF @ + 1 < FailLimit THEN @ + 1 ELSE @]
Decrypted(S, k) ==
    CASE k = S.key -> [S EXCEPT !.fails = 0]
      [] k # S.key /\ S.fails + 1 < FailLimit -> [S EXCEPT !.fails = @ + 1]
      [] OTHER -> NoSession

\* decrypt_if_needed
RecvData(n) ==
    /\ data[n] # <<>> /\ handler[n] = NoMsg
    /\ data' = [data EXCEPT ![n] = Tail(@)]
    /\ IF store[n] = NoSession
       THEN EnsureSession(n) /\ UNCHANGED <<store, state>>
       ELSE /\ state' = [state EXCEPT ![n] = "active"]
            /\ store' = [store EXCEPT ![n] = Decrypted(@, Head(data[n]))]
            /\ UNCHANGED <<lock, task>>
    /\ UNCHANGED <<pend, buffered, sender, backoff, handler, net, faults, evicted>>
-----------------------------------------------------------------------------
\* A handshake message is lost on its way.
Lose(n, j) ==
    /\ faults < MaxFaults
    /\ faults' = faults + 1
    /\ net' = [net EXCEPT ![n] = RemoveAt(@, j)]
    /\ UNCHANGED <<store, pend, lock, task, buffered, sender, state, backoff,
                   handler, data, evicted>>

\* evict_unused_sessions: a relay session is referred to by the store alone.
EvictUnusedSessions(n) ==
    /\ store[n] # NoSession
    /\ evicted < MaxEvict
    /\ evicted' = evicted + 1
    /\ store' = [store EXCEPT ![n] = NoSession]
    /\ UNCHANGED <<pend, lock, task, buffered, sender, state, backoff, handler,
                   net, data, faults>>

\* 60 seconds without traffic.  A task that send_msg started is over by then.
GoIdle(n) ==
    /\ state[n] = "active" /\ ~sender[n]
    /\ \A i \in TaskIds : task[n][i] = Off
    /\ evicted < MaxEvict
    /\ state' = [state EXCEPT ![n] = "idle"]
    /\ UNCHANGED <<store, pend, lock, task, buffered, sender, backoff, handler,
                   net, data, faults, evicted>>

\* evict_idle_sessions
EvictIdleSessions(n) ==
    /\ state[n] = "idle"
    /\ evicted < MaxEvict
    /\ evicted' = evicted + 1
    /\ state' = [state EXCEPT ![n] = "none"]
    /\ backoff' = [backoff EXCEPT ![n] = FALSE]
    /\ pend' = [pend EXCEPT ![n] = 0]
    /\ lock' = [lock EXCEPT ![n] = 0]
    /\ buffered' = [buffered EXCEPT ![n] = 0]
    /\ UNCHANGED <<store, task, sender, handler, net, data, faults>>
-----------------------------------------------------------------------------
Init ==
    /\ store = [n \in Nodes |-> NoSession]
    /\ pend = [n \in Nodes |-> 0]
    /\ lock = [n \in Nodes |-> 0]
    /\ task = [n \in Nodes |-> [i \in TaskIds |-> Off]]
    /\ buffered = [n \in Nodes |-> 0]
    /\ sender = [n \in Nodes |-> FALSE]
    /\ state = [n \in Nodes |-> "none"]
    /\ backoff = [n \in Nodes |-> FALSE]
    /\ handler = [n \in Nodes |-> NoMsg]
    /\ net = [n \in Nodes |-> <<>>]
    /\ data = [n \in Nodes |-> <<>>]
    /\ faults = 0
    /\ evicted = 0

TaskStep(n, i) ==
    \/ HandshakeSession(n, i)
    \/ HandshakeOnce(n, i)
    \/ HandshakeNotSent(n, i)
    \/ HandshakeTimeout(n, i)
    \/ HandshakeCanceled(n, i)
    \/ HandshakeAnswered(n, i)
    \/ HandshakeRetry(n, i)

Next ==
    \/ \E n \in Nodes : SendMsg(n)
    \/ \E n \in Nodes : BufferPendingPacket(n)
    \/ \E n \in Nodes, i \in TaskIds : TaskStep(n, i)
    \/ \E n \in Nodes : BackoffOver(n)
    \/ \E n \in Nodes : \E j \in DOMAIN net[n], keep \in BOOLEAN :
          RecvAnswer(n, j, keep) \/ RecvRequest(n, j, keep)
    \/ \E n \in Nodes : AnswerRequest(n)
    \/ \E n \in Nodes : AnswerNotSent(n)
    \/ \E n \in Nodes : RequestRejected(n)
    \/ \E n \in Nodes : RecvData(n)
    \/ \E n \in Nodes : \E j \in DOMAIN net[n] : Lose(n, j)
    \/ \E n \in Nodes : EvictUnusedSessions(n)
    \/ \E n \in Nodes : GoIdle(n)
    \/ \E n \in Nodes : EvictIdleSessions(n)

Spec == Init /\ [][Next]_vars

RecvHandshake(n) ==
    net[n] # <<>> /\ (RecvAnswer(n, 1, FALSE) \/ RecvRequest(n, 1, FALSE))

\* Tasks run, the receive loop takes every packet in turn, time passes, and
\* both peers keep sending.
FairSpec ==
    /\ Spec
    /\ \A n \in Nodes :
        /\ WF_vars(SendMsg(n)) /\ WF_vars(BufferPendingPacket(n))
        /\ WF_vars(BackoffOver(n)) /\ WF_vars(AnswerRequest(n))
        /\ SF_vars(RecvHandshake(n)) /\ SF_vars(RecvData(n))
        /\ \A i \in TaskIds : WF_vars(TaskStep(n, i))
-----------------------------------------------------------------------------
SessionType == [key : 0..MaxKeys, gen : 0..FirstGeneration, fails : 0..FailLimit-1]
Requests == [h : 1..MaxHs, gen : 0..FirstGeneration]
Answers == [h : 1..MaxHs, act : {"Create", "Join", "Sync"},
            gen : {FirstGeneration}, key : 0..MaxKeys]

\* Every map and queue keeps its shape and its bound; pending_packets never
\* exceeds MAX_PENDING_PACKETS_PER_PEER.
TypeOK ==
    /\ store \in [Nodes -> SessionType]
    /\ pend \in [Nodes -> 0..MaxHs]
    /\ lock \in [Nodes -> TaskIds \cup {0}]
    /\ task \in [Nodes -> [TaskIds ->
          [pc : {"off", "start", "once", "wait", "answered", "sleep"},
           attempt : 0..MaxAttempts-1, h : 0..MaxHs,
           answer : Answers \cup {NoAnswer}]]]
    /\ buffered \in [Nodes -> 0..MaxPending]
    /\ sender \in [Nodes -> BOOLEAN]
    /\ state \in [Nodes -> {"none", "active", "idle"}]
    /\ backoff \in [Nodes -> BOOLEAN]
    /\ handler \in [Nodes -> Requests \cup {NoMsg}]
    /\ net \in [Nodes -> Seq(Requests \cup Answers)]
    /\ data \in [Nodes -> Seq(1..MaxKeys)]
    /\ faults \in 0..MaxFaults /\ evicted \in 0..MaxEvict

\* A pending_handshakes entry always belongs to an attempt that still waits:
\* a left-over one would make the peer with the smaller id refuse every
\* handshake of the other peer.
PendingIsAwaited ==
    \A n \in Nodes : pend[n] # 0 =>
        \E i \in TaskIds : task[n][i].pc = "wait" /\ task[n][i].h = pend[n]

Quiet == /\ Messages = {} /\ \A n \in Nodes : handler[n] = NoMsg
         /\ \A n \in Nodes, i \in TaskIds : task[n][i] = Off

\* Once no handshake is going on, two sessions hold the same root key: of two
\* handshakes that cross only one may decide (handle_relay_msg1).
KeysAgree ==
    Quiet /\ (\A n \in Nodes : store[n] # NoSession) => store[1].key = store[2].key

\* Whatever was lost, late, duplicated or collected, peers of which one keeps
\* sending end up with one key: wrong keys are given up (decrypt_payload) and
\* the next packet starts another handshake (ensure_session).
Heals ==
    <>[](store[1] # NoSession /\ store[2] # NoSession
         /\ store[1].key = store[2].key)
=============================================================================
