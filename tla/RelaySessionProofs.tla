-------------------------- MODULE RelaySessionProofs --------------------------
(***************************************************************************)
(* The maps and queues of RelaySession keep their shape, and an entry of   *)
(* pending_handshakes always belongs to an attempt that waits, for every   *)
(* number of tasks, attempts, messages and faults.                         *)
(***************************************************************************)
EXTENDS RelaySession, WellFoundedInduction, SequenceTheorems, TLAPS

\* Most leaves of these proofs are first-order, and Zenon is their prover.  A leaf
\* that needs arithmetic, or more of functions and records, names SMT.
USE Zenon

\* The smallest of some numbers is one of them.
LEMMA MinIsMember ==
  ASSUME NEW S \in SUBSET Nat, S # {}
  PROVE  Min(S) \in S
<1> DEFINE R == {ss \in Nat \X Nat : ss[1] < ss[2]}
<1>1. IsWellFoundedOn(R, Nat)
  BY NatLessThanWellFounded DEF OpToRel
<1>2. \A x, y \in Nat : y < x => <<y, x>> \in R
  OBVIOUS
<1> HIDE DEF R
<1>3. PICK x \in S : \A y \in S : ~ (<<y, x>> \in R)
  BY <1>1, WFMin
<1>4. \A y \in S : ~ (y < x)
  BY <1>2, <1>3
<1>5. \A y \in S : x <= y
  BY SMT, <1>4
<1> QED
  BY <1>5 DEF Min

\* Sequences of messages keep their elements when one is taken out.
LEMMA RemoveAtType ==
  ASSUME NEW S, NEW q \in Seq(S), NEW j \in DOMAIN q
  PROVE  RemoveAt(q, j) \in Seq(S)
<1>1. Len(q) \in Nat /\ DOMAIN q = 1..Len(q) /\ j \in 1..Len(q) /\ q \in [1..Len(q) -> S]
  BY LenProperties
<1>2. SubSeq(q, 1, j - 1) \in Seq(S)
  BY SMT, <1>1, SubSeqProperties
<1>3. SubSeq(q, j + 1, Len(q)) \in Seq(S)
  BY SMT, <1>1, SubSeqProperties
<1> QED
  BY <1>2, <1>3, ConcatProperties DEF RemoveAt

-----------------------------------------------------------------------------
\* The invariant.  A session has a root key; only an answer that joins a session
\* carries none; a task that pauses has attempts left.
LiveSessions == [key : 1..MaxKeys, gen : {FirstGeneration}, fails : 0..FailLimit-1]
KeyedAnswers == {x \in Answers : x.act # "Join" => x.key # 0}
TaskStates == [pc : {"off", "start", "once", "wait", "answered", "sleep"},
               attempt : 0..MaxAttempts-1, h : 0..MaxHs,
               answer : KeyedAnswers \cup {NoAnswer}]
Resting(t) == t.pc = "sleep" => t.attempt + 1 < MaxAttempts

StoreOK == store \in [Nodes -> LiveSessions \cup {NoSession}]
TasksOK ==
    /\ lock \in [Nodes -> TaskIds \cup {0}]
    /\ task \in [Nodes -> [TaskIds -> TaskStates]]
    /\ \A n \in Nodes, i \in TaskIds : Resting(task[n][i])
QueuesOK ==
    /\ handler \in [Nodes -> Requests \cup {NoMsg}]
    /\ net \in [Nodes -> Seq(Requests \cup KeyedAnswers)]
    /\ data \in [Nodes -> Seq(1..MaxKeys)]
CountsOK ==
    /\ buffered \in [Nodes -> 0..MaxPending]
    /\ faults \in 0..MaxFaults /\ evicted \in 0..MaxEvict
FlagsOK ==
    /\ sender \in [Nodes -> BOOLEAN] /\ backoff \in [Nodes -> BOOLEAN]
    /\ state \in [Nodes -> {"none", "active", "idle"}]
PendOK == pend \in [Nodes -> 0..MaxHs] /\ PendingIsAwaited

IInv == StoreOK /\ TasksOK /\ QueuesOK /\ CountsOK /\ FlagsOK /\ PendOK

LEMMA Bounds ==
  /\ MaxAttempts \in Nat /\ MaxAttempts > 0 /\ FailLimit \in Nat /\ FailLimit > 0
  /\ MaxHs \in Nat /\ MaxHs > 0 /\ MaxKeys \in Nat /\ MaxKeys > 0 /\ MaxQueue \in Nat
  /\ MaxPending \in Nat /\ MaxFaults \in Nat /\ MaxEvict \in Nat
  /\ TaskIds \subseteq Nat /\ 0 \notin TaskIds
BY SMT, RelayAssumption

LEMMA OtherType == \A n \in Nodes : Other(n) \in Nodes /\ Other(n) # n
BY SMT DEF Nodes, Other

LEMMA OffType ==
  /\ Off \in TaskStates /\ Resting(Off) /\ Off.pc = "off"
  /\ [Off EXCEPT !.pc = "start"] \in TaskStates
  /\ Resting([Off EXCEPT !.pc = "start"])
BY SMT, Bounds DEF Off, TaskStates, Resting

LEMMA PausedType ==
  ASSUME NEW a \in 0..MaxAttempts-1, a + 1 < MaxAttempts
  PROVE  /\ [Off EXCEPT !.pc = "sleep", !.attempt = a] \in TaskStates
         /\ Resting([Off EXCEPT !.pc = "sleep", !.attempt = a])
<1> DEFINE p == [Off EXCEPT !.pc = "sleep"]
<1>1. p \in TaskStates
  BY OffType DEF TaskStates
<1>2. p.pc = "sleep"
  BY DEF Off
<1>3. [p EXCEPT !.attempt = a] = [Off EXCEPT !.pc = "sleep", !.attempt = a]
  BY SMT
<1> HIDE DEF p
<1>4. [p EXCEPT !.attempt = a] \in TaskStates
  BY SMT, <1>1 DEF TaskStates
<1>5. [p EXCEPT !.attempt = a].pc = "sleep" /\ [p EXCEPT !.attempt = a].attempt = a
  BY SMT, <1>1, <1>2 DEF TaskStates
<1> QED
  BY SMT, <1>3, <1>4, <1>5 DEF Resting

LEMMA InitEstablishes == Init => IInv
<1> SUFFICES ASSUME Init PROVE IInv
  BY SMT
<1>1. StoreOK /\ CountsOK /\ FlagsOK /\ PendOK
  BY SMT, Bounds DEF Init, StoreOK, CountsOK, FlagsOK, PendOK, PendingIsAwaited
<1>2. TasksOK
  BY SMT, OffType DEF Init, TasksOK
<1>3. QueuesOK
  BY SMT, EmptySeq DEF Init, QueuesOK
<1> QED
  BY SMT, <1>1, <1>2, <1>3 DEF IInv

\* What the invariant says of the types.
LEMMA InvariantTypes == IInv => TypeOK
<1> SUFFICES ASSUME IInv PROVE TypeOK
  BY SMT
<1>1. LiveSessions \cup {NoSession} \subseteq SessionType
  BY SMT, Bounds DEF LiveSessions, NoSession, SessionType, FirstGeneration
<1>2. store \in [Nodes -> SessionType]
  BY SMT, <1>1 DEF IInv, StoreOK
<1>3. TaskStates \subseteq [pc : {"off", "start", "once", "wait", "answered", "sleep"},
                           attempt : 0..MaxAttempts-1, h : 0..MaxHs,
                           answer : Answers \cup {NoAnswer}]
  BY SMT DEF TaskStates, KeyedAnswers
<1>4. task \in [Nodes -> [TaskIds ->
          [pc : {"off", "start", "once", "wait", "answered", "sleep"},
           attempt : 0..MaxAttempts-1, h : 0..MaxHs,
           answer : Answers \cup {NoAnswer}]]]
  BY SMT, <1>3 DEF IInv, TasksOK
<1>5. net \in [Nodes -> Seq(Requests \cup Answers)]
  <2>1. Requests \cup KeyedAnswers \subseteq Requests \cup Answers
    BY SMT DEF KeyedAnswers
  <2>2. \A n \in Nodes : net[n] \in Seq(Requests \cup Answers)
    BY SMT, <2>1, SeqMonotonic DEF IInv, QueuesOK
  <2> QED
    BY SMT, <2>2 DEF IInv, QueuesOK
<1> QED
  BY SMT, <1>2, <1>4, <1>5 DEF IInv, TasksOK, QueuesOK, CountsOK, FlagsOK, PendOK, TypeOK

-----------------------------------------------------------------------------
\* The parts of the steps.

\* One task changes: the entry of pending_handshakes stays that of a waiting
\* attempt, goes, or becomes that of this task.
LEMMA OneTaskChanges ==
  ASSUME TasksOK, PendOK, NEW n \in Nodes, NEW i \in TaskIds,
         NEW t \in TaskStates, Resting(t),
         task' = [task EXCEPT ![n][i] = t],
         lock' \in [Nodes -> TaskIds \cup {0}],
         \/ pend' = pend /\ task[n][i].pc # "wait"
         \/ pend' = [pend EXCEPT ![n] = 0]
         \/ pend' = [pend EXCEPT ![n] = t.h] /\ t.pc = "wait"
  PROVE  TasksOK' /\ PendOK'
<1>1. task' \in [Nodes -> [TaskIds -> TaskStates]]
  BY SMT DEF TasksOK
<1>2. task'[n][i] = t /\ \A m \in Nodes, k \in TaskIds :
                            m # n \/ k # i => task'[m][k] = task[m][k]
  BY SMT DEF TasksOK
<1>3. TasksOK'
  BY SMT, <1>1, <1>2 DEF TasksOK
<1>4. pend' \in [Nodes -> 0..MaxHs]
  BY SMT, Bounds DEF PendOK, TaskStates
<1>5. PendingIsAwaited'
  <2> SUFFICES ASSUME NEW m \in Nodes, pend'[m] # 0
               PROVE  \E k \in TaskIds : task'[m][k].pc = "wait" /\ task'[m][k].h = pend'[m]
    BY SMT DEF PendingIsAwaited
  <2>1. CASE pend'[m] = pend[m] /\ (m # n \/ task[n][i].pc # "wait")
    <3>1. PICK k \in TaskIds : task[m][k].pc = "wait" /\ task[m][k].h = pend[m]
      BY SMT, <2>1 DEF PendOK, PendingIsAwaited
    <3>2. m # n \/ k # i
      BY SMT, <2>1, <3>1
    <3> QED
      BY SMT, <1>2, <2>1, <3>1, <3>2
  <2>2. CASE m = n /\ pend'[m] = t.h /\ t.pc = "wait"
    BY SMT, <1>2, <2>2
  <2> QED
    BY SMT, <2>1, <2>2 DEF PendOK
<1> QED
  BY SMT, <1>3, <1>4, <1>5 DEF PendOK

\* Nothing happens to the tasks.
LEMMA NoTaskChanges ==
  ASSUME TasksOK, PendOK, UNCHANGED task,
         lock' \in [Nodes -> TaskIds \cup {0}],
         \/ pend' = pend
         \/ \E n \in Nodes : pend' = [pend EXCEPT ![n] = 0]
  PROVE  TasksOK' /\ PendOK'
BY SMT, Bounds DEF TasksOK, PendOK, PendingIsAwaited

\* ensure_session starts a task in a free slot.
LEMMA EnsureKeeps ==
  ASSUME TasksOK, PendOK, NEW n \in Nodes, EnsureSession(n), pend' = pend
  PROVE  TasksOK' /\ PendOK'
<1> DEFINE free == {i \in TaskIds : task[n][i] = Off}
<1>1. CASE lock[n] = 0 /\ free # {}
  <2>1. Min(free) \in free
    BY <1>1, Bounds, MinIsMember
  <2> DEFINE i == Min(free)
             t == [Off EXCEPT !.pc = "start"]
  <2>2. lock' = [lock EXCEPT ![n] = i] /\ task' = [task EXCEPT ![n][i] = t]
    BY <1>1 DEF EnsureSession
  <2>3. i \in TaskIds /\ task[n][i].pc # "wait"
    BY <2>1, OffType
  <2> HIDE DEF i, t
  <2>4. lock' \in [Nodes -> TaskIds \cup {0}]
    BY <2>2, <2>3 DEF TasksOK
  <2>5. t \in TaskStates /\ Resting(t)
    BY OffType DEF t
  <2> QED
    BY <2>2, <2>3, <2>4, <2>5, OneTaskChanges
<1>2. CASE ~(lock[n] = 0 /\ free # {})
  <2>1. UNCHANGED <<lock, task>>
    BY <1>2 DEF EnsureSession
  <2> QED
    BY <2>1, NoTaskChanges DEF TasksOK
<1> QED
  BY SMT, <1>1, <1>2

\* A task ends, or pauses after a failed attempt.
LEMMA EndKeeps ==
  ASSUME TasksOK, PendOK, NEW n \in Nodes, NEW i \in TaskIds, End(n, i),
         \/ pend' = pend /\ task[n][i].pc # "wait"
         \/ pend' = [pend EXCEPT ![n] = 0]
  PROVE  TasksOK' /\ PendOK'
<1>1. lock' \in [Nodes -> TaskIds \cup {0}]
  BY DEF End, TasksOK
<1>2. task' = [task EXCEPT ![n][i] = Off]
  BY DEF End
<1> QED
  BY <1>1, <1>2, OffType, OneTaskChanges

LEMMA FailedKeeps ==
  ASSUME TasksOK, PendOK, CountsOK, FlagsOK,
         NEW n \in Nodes, NEW i \in TaskIds, AttemptFailed(n, i),
         \/ pend' = pend /\ task[n][i].pc # "wait"
         \/ pend' = [pend EXCEPT ![n] = 0]
  PROVE  /\ TasksOK' /\ PendOK'
         /\ buffered' \in [Nodes -> 0..MaxPending]
         /\ backoff' \in [Nodes -> BOOLEAN]
         /\ state' \in [Nodes -> {"none", "active", "idle"}]
<1>1. /\ backoff' \in [Nodes -> BOOLEAN]
      /\ state' \in [Nodes -> {"none", "active", "idle"}]
  BY DEF AttemptFailed, Touched, FlagsOK
<1>2. CASE task[n][i].attempt + 1 < MaxAttempts
  <2> DEFINE t == [Off EXCEPT !.pc = "sleep", !.attempt = task[n][i].attempt]
  <2>1. task' = [task EXCEPT ![n][i] = t] /\ UNCHANGED <<lock, buffered>>
    BY <1>2 DEF AttemptFailed
  <2>2. task[n][i] \in TaskStates
    BY DEF TasksOK
  <2>3. t \in TaskStates /\ Resting(t)
    <3>1. task[n][i].attempt \in 0..MaxAttempts-1
      BY <2>2 DEF TaskStates
    <3> QED
      BY <1>2, <3>1, PausedType
  <2> HIDE DEF t
  <2>4. lock' \in [Nodes -> TaskIds \cup {0}] /\ buffered' \in [Nodes -> 0..MaxPending]
    BY <2>1 DEF TasksOK, CountsOK
  <2> QED
    BY <1>1, <2>1, <2>3, <2>4, OneTaskChanges
<1>3. CASE ~(task[n][i].attempt + 1 < MaxAttempts)
  <2>1. End(n, i) /\ buffered' = [buffered EXCEPT ![n] = 0]
    BY <1>3 DEF AttemptFailed
  <2>2. buffered' \in [Nodes -> 0..MaxPending]
    BY SMT, <2>1, Bounds DEF CountsOK
  <2> QED
    BY <1>1, <2>1, <2>2, EndKeeps
<1> QED
  BY <1>2, <1>3

\* A packet is encrypted with the key of a session; a full queue drops it.
LEMMA EnqueueType ==
  ASSUME QueuesOK, NEW n \in Nodes, NEW k \in 1..MaxKeys, NEW count
  PROVE  Enqueue(n, k, count) \in [Nodes -> Seq(1..MaxKeys)]
<1>1. data \in [Nodes -> Seq(1..MaxKeys)] /\ Append(data[n], k) \in Seq(1..MaxKeys)
  BY AppendProperties DEF QueuesOK
<1> QED
  BY <1>1 DEF Enqueue

LEMMA FlushType ==
  ASSUME QueuesOK, CountsOK, NEW n \in Nodes, NEW k \in 1..MaxKeys, Flush(n, k)
  PROVE  data' \in [Nodes -> Seq(1..MaxKeys)] /\ buffered' \in [Nodes -> 0..MaxPending]
<1>1. data' \in [Nodes -> Seq(1..MaxKeys)]
  BY EnqueueType, OtherType DEF Flush
<1>2. buffered' \in [Nodes -> 0..MaxPending]
  BY SMT, Bounds DEF Flush, CountsOK
<1> QED
  BY <1>1, <1>2

LEMMA StoreFacts ==
  ASSUME StoreOK, NEW n \in Nodes
  PROVE  /\ store[n] \in LiveSessions \cup {NoSession}
         /\ store[n] # NoSession => store[n].key \in 1..MaxKeys
         /\ store[n].gen \in 0..FirstGeneration
         /\ store[n].fails \in 0..FailLimit-1
BY SMT, Bounds DEF StoreOK, LiveSessions, NoSession, FirstGeneration

LEMMA TimeType ==
  ASSUME CountsOK, NEW n, TimePasses(n)
  PROVE  faults' \in 0..MaxFaults
BY SMT, Bounds DEF TimePasses, CountsOK

\* What is in flight to a node is a request or an answer.
LEMMA NetFacts ==
  ASSUME QueuesOK, NEW n \in Nodes, NEW j \in DOMAIN net[n]
  PROVE  /\ IsAnswer(net[n][j]) => net[n][j] \in KeyedAnswers
         /\ ~IsAnswer(net[n][j]) => net[n][j] \in Requests
<1>1. net[n][j] \in Requests \cup KeyedAnswers
  BY ElementOfSeq, LenProperties DEF QueuesOK
<1>2. ASSUME NEW x \in Requests PROVE ~IsAnswer(x)
  BY DEF Requests, IsAnswer
<1>3. ASSUME NEW x \in KeyedAnswers PROVE IsAnswer(x)
  BY DEF KeyedAnswers, Answers, IsAnswer
<1> QED
  BY <1>1, <1>2, <1>3

LEMMA SentType ==
  ASSUME QueuesOK, NEW n \in Nodes, NEW x \in Requests \cup KeyedAnswers
  PROVE  [net EXCEPT ![n] = Append(@, x)] \in [Nodes -> Seq(Requests \cup KeyedAnswers)]
<1>1. Append(net[n], x) \in Seq(Requests \cup KeyedAnswers)
  BY AppendProperties DEF QueuesOK
<1> QED
  BY <1>1 DEF QueuesOK

LEMMA TakenType ==
  ASSUME QueuesOK, NEW n \in Nodes, NEW j \in DOMAIN net[n]
  PROVE  [net EXCEPT ![n] = RemoveAt(@, j)] \in [Nodes -> Seq(Requests \cup KeyedAnswers)]
<1>1. RemoveAt(net[n], j) \in Seq(Requests \cup KeyedAnswers)
  BY RemoveAtType DEF QueuesOK
<1> QED
  BY <1>1 DEF QueuesOK

LEMMA ReceiveType ==
  ASSUME QueuesOK, CountsOK, NEW n \in Nodes, NEW j \in DOMAIN net[n],
         NEW keep \in BOOLEAN, Receive(n, j, keep)
  PROVE  /\ net' \in [Nodes -> Seq(Requests \cup KeyedAnswers)]
         /\ faults' \in 0..MaxFaults
<1>1. net' \in [Nodes -> Seq(Requests \cup KeyedAnswers)]
  BY TakenType DEF Receive, QueuesOK
<1>2. faults' \in 0..MaxFaults
  BY SMT, Bounds DEF Receive, CountsOK
<1> QED
  BY <1>1, <1>2

\* upsert_responder_session leaves a session.
LEMMA ResponderType ==
  ASSUME StoreOK, NEW n \in Nodes, store[n] = NoSession => FreshKeys # {}
  PROVE  /\ ResponderSession(n) \in LiveSessions
         /\ ResponderSession(n).key \in 1..MaxKeys
         /\ ResponderSession(n).gen = FirstGeneration
<1>1. CASE store[n] # NoSession
  BY SMT, <1>1 DEF StoreOK, ResponderSession, LiveSessions
<1>2. CASE store[n] = NoSession
  <2>1. FreshKeys \subseteq 1..MaxKeys /\ FreshKeys # {}
    BY SMT, <1>2 DEF FreshKeys
  <2>2. Min(FreshKeys) \in FreshKeys
    BY SMT, <2>1, Bounds, MinIsMember
  <2>3. Min(FreshKeys) \in 1..MaxKeys
    BY <2>1, <2>2
  <2> QED
    BY SMT, <1>2, <2>3, Bounds DEF ResponderSession, LiveSessions
<1> QED
  BY <1>1, <1>2

\* decrypt_payload keeps the session, counting, or gives it up.
LEMMA DecryptedType ==
  ASSUME NEW S \in LiveSessions, NEW k
  PROVE  Decrypted(S, k) \in LiveSessions \cup {NoSession}
<1>1. CASE k = S.key
  BY SMT, <1>1, Bounds DEF Decrypted, LiveSessions
<1>2. CASE k # S.key /\ S.fails + 1 < FailLimit
  BY SMT, <1>2, Bounds DEF Decrypted, LiveSessions
<1>3. CASE k # S.key /\ ~(S.fails + 1 < FailLimit)
  BY <1>3, Bounds DEF Decrypted
<1> QED
  BY <1>1, <1>2, <1>3

-----------------------------------------------------------------------------
\* Sending.

LEMMA SendMsgKeeps ==
  ASSUME IInv, NEW n \in Nodes, SendMsg(n)
  PROVE  IInv'
<1> USE DEF IInv
<1>1. StoreOK' /\ CountsOK'
  BY DEF SendMsg, StoreOK, CountsOK
<1>2. FlagsOK'
  BY DEF SendMsg, FlagsOK
<1>3. CASE store[n] # NoSession
  <2>1. data' = Enqueue(Other(n), store[n].key, 1) /\ UNCHANGED <<lock, task, pend, handler, net>>
    BY <1>3 DEF SendMsg
  <2>2. store[n].key \in 1..MaxKeys
    BY <1>3, StoreFacts
  <2>3. data' \in [Nodes -> Seq(1..MaxKeys)]
    BY <2>1, <2>2, OtherType, EnqueueType
  <2>4. QueuesOK'
    BY <2>1, <2>3 DEF QueuesOK
  <2>5. TasksOK' /\ PendOK'
    BY <2>1, NoTaskChanges DEF TasksOK
  <2> QED
    BY <1>1, <1>2, <2>4, <2>5
<1>4. CASE store[n] = NoSession
  <2>1. EnsureSession(n) /\ UNCHANGED <<data, pend, handler, net>>
    BY <1>4 DEF SendMsg
  <2>2. QueuesOK'
    BY <2>1 DEF QueuesOK
  <2>3. TasksOK' /\ PendOK'
    BY <2>1, EnsureKeeps
  <2> QED
    BY <1>1, <1>2, <2>2, <2>3
<1> QED
  BY <1>3, <1>4

LEMMA BufferPendingPacketKeeps ==
  ASSUME IInv, NEW n \in Nodes, BufferPendingPacket(n)
  PROVE  IInv'
<1> USE DEF IInv
<1>1. StoreOK' /\ FlagsOK' /\ QueuesOK'
  BY DEF BufferPendingPacket, StoreOK, FlagsOK, QueuesOK
<1>2. CountsOK'
  BY SMT, Bounds DEF BufferPendingPacket, CountsOK
<1>3. TasksOK' /\ PendOK'
  BY NoTaskChanges DEF BufferPendingPacket, TasksOK
<1> QED
  BY <1>1, <1>2, <1>3

-----------------------------------------------------------------------------
\* The handshake task.

LEMMA HandshakeSessionKeeps ==
  ASSUME IInv, NEW n \in Nodes, NEW i \in TaskIds, HandshakeSession(n, i)
  PROVE  IInv'
<1> USE DEF IInv
<1>1. StoreOK' /\ FlagsOK'
  BY DEF HandshakeSession, StoreOK, FlagsOK
<1>2. task[n][i].pc = "start" /\ UNCHANGED <<pend, handler, net, faults, evicted>>
  BY DEF HandshakeSession
<1>3. CASE store[n] # NoSession
  <2>1. Flush(n, store[n].key) /\ End(n, i)
    BY <1>3 DEF HandshakeSession
  <2>2. data' \in [Nodes -> Seq(1..MaxKeys)] /\ buffered' \in [Nodes -> 0..MaxPending]
    BY <1>3, <2>1, StoreFacts, FlushType
  <2>3. QueuesOK' /\ CountsOK'
    BY <1>2, <2>2 DEF QueuesOK, CountsOK
  <2>4. TasksOK' /\ PendOK'
    BY <1>2, <2>1, EndKeeps
  <2> QED
    BY <1>1, <2>3, <2>4
<1>4. CASE store[n] = NoSession /\ backoff[n]
  <2>1. End(n, i) /\ buffered' = [buffered EXCEPT ![n] = 0] /\ UNCHANGED data
    BY <1>4 DEF HandshakeSession
  <2>2. QueuesOK' /\ CountsOK'
    BY SMT, <1>2, <2>1, Bounds DEF QueuesOK, CountsOK
  <2>3. TasksOK' /\ PendOK'
    BY <1>2, <2>1, EndKeeps
  <2> QED
    BY <1>1, <2>2, <2>3
<1>5. CASE store[n] = NoSession /\ ~backoff[n]
  <2> DEFINE t == [task[n][i] EXCEPT !.pc = "once"]
  <2>1. task' = [task EXCEPT ![n][i].pc = "once"] /\ UNCHANGED <<lock, buffered, data>>
    BY <1>5 DEF HandshakeSession
  <2>2. task[n][i] \in TaskStates /\ task' = [task EXCEPT ![n][i] = t]
    BY <2>1 DEF TasksOK
  <2>3. t \in TaskStates /\ Resting(t)
    BY <2>2 DEF TaskStates, Resting
  <2> HIDE DEF t
  <2>4. TasksOK' /\ PendOK'
    BY <1>2, <2>1, <2>2, <2>3, OneTaskChanges DEF TasksOK
  <2>5. QueuesOK' /\ CountsOK'
    BY <1>2, <2>1 DEF QueuesOK, CountsOK
  <2> QED
    BY <1>1, <2>4, <2>5
<1> QED
  BY <1>3, <1>4, <1>5

LEMMA HandshakeOnceKeeps ==
  ASSUME IInv, NEW n \in Nodes, NEW i \in TaskIds, HandshakeOnce(n, i)
  PROVE  IInv'
<1> USE DEF IInv
<1> DEFINE h == Min(FreshAttempts)
           t == [task[n][i] EXCEPT !.pc = "wait", !.h = h]
           x == [h |-> h, gen |-> store[n].gen]
<1>1. StoreOK' /\ FlagsOK' /\ CountsOK'
  BY DEF HandshakeOnce, StoreOK, FlagsOK, CountsOK
<1>2. h \in 1..MaxHs
  <2>1. FreshAttempts \subseteq 1..MaxHs /\ FreshAttempts # {}
    BY SMT DEF HandshakeOnce, FreshAttempts
  <2>2. Min(FreshAttempts) \in FreshAttempts
    BY SMT, <2>1, Bounds, MinIsMember
  <2> QED
    BY <2>1, <2>2
<1>3. /\ task' = [task EXCEPT ![n][i].pc = "wait", ![n][i].h = h]
      /\ pend' = [pend EXCEPT ![n] = h]
      /\ net' = [net EXCEPT ![Other(n)] = Append(@, x)]
      /\ UNCHANGED <<lock, handler, data>>
  BY DEF HandshakeOnce
<1> HIDE DEF h
<1>4. x \in Requests
  BY <1>2, StoreFacts DEF Requests
<1>5. QueuesOK'
  <2> HIDE DEF x
  <2>1. net' \in [Nodes -> Seq(Requests \cup KeyedAnswers)]
    BY <1>3, <1>4, OtherType, SentType
  <2> QED
    BY <1>3, <2>1 DEF QueuesOK
<1>6. task[n][i] \in TaskStates
  BY DEF TasksOK
<1>7. task' = [task EXCEPT ![n][i] = t]
  BY <1>3, <1>6 DEF TasksOK
<1>8. t \in TaskStates /\ Resting(t) /\ t.pc = "wait" /\ t.h = h
  <2> DEFINE w == [task[n][i] EXCEPT !.pc = "wait"]
  <2>1. t = [w EXCEPT !.h = h]
    OBVIOUS
  <2>2. w \in TaskStates /\ w.pc = "wait"
    BY <1>6 DEF TaskStates
  <2> HIDE DEF w, t
  <2>3. t \in TaskStates /\ t.pc = "wait" /\ t.h = h
    BY SMT, <1>2, <2>1, <2>2 DEF TaskStates
  <2> QED
    BY <2>3 DEF Resting
<1> HIDE DEF t
<1>9. TasksOK' /\ PendOK'
  BY <1>3, <1>7, <1>8, OneTaskChanges DEF TasksOK
<1> QED
  BY <1>1, <1>5, <1>9

\* The three ways in which an attempt fails.
LEMMA FailedAttemptKeeps ==
  ASSUME IInv, NEW n \in Nodes, NEW i \in TaskIds, AttemptFailed(n, i),
         \/ pend' = pend /\ task[n][i].pc # "wait"
         \/ pend' = [pend EXCEPT ![n] = 0],
         faults' \in 0..MaxFaults,
         UNCHANGED <<store, sender, handler, net, data, evicted>>
  PROVE  IInv'
<1> USE DEF IInv
<1>1. /\ TasksOK' /\ PendOK'
      /\ buffered' \in [Nodes -> 0..MaxPending]
      /\ backoff' \in [Nodes -> BOOLEAN]
      /\ state' \in [Nodes -> {"none", "active", "idle"}]
  BY FailedKeeps
<1>2. StoreOK' /\ QueuesOK'
  BY DEF StoreOK, QueuesOK
<1>3. CountsOK' /\ FlagsOK'
  BY <1>1 DEF CountsOK, FlagsOK
<1> QED
  BY <1>1, <1>2, <1>3

LEMMA HandshakeNotSentKeeps ==
  ASSUME IInv, NEW n \in Nodes, NEW i \in TaskIds, HandshakeNotSent(n, i)
  PROVE  IInv'
<1>1. faults' \in 0..MaxFaults
  BY SMT, Bounds DEF IInv, CountsOK, HandshakeNotSent
<1> QED
  BY <1>1, FailedAttemptKeeps DEF HandshakeNotSent

LEMMA HandshakeTimeoutKeeps ==
  ASSUME IInv, NEW n \in Nodes, NEW i \in TaskIds, HandshakeTimeout(n, i)
  PROVE  IInv'
<1>1. faults' \in 0..MaxFaults
  BY TimeType DEF IInv, HandshakeTimeout
<1> QED
  BY <1>1, FailedAttemptKeeps DEF HandshakeTimeout

LEMMA HandshakeCanceledKeeps ==
  ASSUME IInv, NEW n \in Nodes, NEW i \in TaskIds, HandshakeCanceled(n, i)
  PROVE  IInv'
<1>1. faults' \in 0..MaxFaults
  BY DEF IInv, CountsOK, HandshakeCanceled
<1> QED
  BY <1>1, FailedAttemptKeeps DEF HandshakeCanceled

LEMMA HandshakeAnsweredKeeps ==
  ASSUME IInv, NEW n \in Nodes, NEW i \in TaskIds, HandshakeAnswered(n, i)
  PROVE  IInv'
<1> USE DEF IInv
<1> DEFINE x == task[n][i].answer
           ok == /\ x.h = task[n][i].h
                 /\ x.act = "Join" => store[n] # NoSession /\ store[n].gen = x.gen
           S == Applied(n, x)
<1>1. task[n][i].pc = "answered" /\ UNCHANGED <<pend, sender, handler, net, faults, evicted>>
  BY DEF HandshakeAnswered
<1>2. CASE ok
  <2>1. /\ store' = [store EXCEPT ![n] = S]
        /\ backoff' = [backoff EXCEPT ![n] = FALSE] /\ state' = Touched(n)
        /\ Flush(n, S.key) /\ End(n, i)
    BY <1>2 DEF HandshakeAnswered
  <2>2. S \in LiveSessions /\ S.key \in 1..MaxKeys
    <3>1. x \in KeyedAnswers \cup {NoAnswer}
      BY SMT DEF TasksOK, TaskStates
    <3>2. CASE x.act = "Join"
      BY <1>2, <3>2, StoreFacts DEF Applied, LiveSessions
    <3>3. CASE x.act # "Join"
      <4>1. x \in Answers /\ x.key # 0
        BY SMT, <3>1, <3>3 DEF KeyedAnswers, NoAnswer
      <4>2. x.key \in 1..MaxKeys /\ x.gen = FirstGeneration
        BY SMT, <4>1, Bounds DEF Answers
      <4>3. store[n].fails \in 0..FailLimit-1
        BY StoreFacts
      <4> QED
        BY <3>3, <4>2, <4>3 DEF Applied, LiveSessions
    <3> QED
      BY <3>2, <3>3
  <2> HIDE DEF S
  <2>3. StoreOK'
    BY <2>1, <2>2 DEF StoreOK
  <2>4. FlagsOK'
    BY <1>1, <2>1 DEF FlagsOK, Touched
  <2>5. data' \in [Nodes -> Seq(1..MaxKeys)] /\ buffered' \in [Nodes -> 0..MaxPending]
    BY <2>1, <2>2, FlushType
  <2>6. QueuesOK' /\ CountsOK'
    BY <1>1, <2>5 DEF QueuesOK, CountsOK
  <2>7. TasksOK' /\ PendOK'
    BY <1>1, <2>1, EndKeeps
  <2> QED
    BY <2>3, <2>4, <2>6, <2>7
<1>3. CASE ~ok
  <2>1. AttemptFailed(n, i) /\ UNCHANGED <<store, data>>
    BY <1>3 DEF HandshakeAnswered
  <2>2. faults' \in 0..MaxFaults
    BY <1>1 DEF CountsOK
  <2> QED
    BY <1>1, <2>1, <2>2, FailedAttemptKeeps
<1> QED
  BY <1>2, <1>3

LEMMA HandshakeRetryKeeps ==
  ASSUME IInv, NEW n \in Nodes, NEW i \in TaskIds, HandshakeRetry(n, i)
  PROVE  IInv'
<1> USE DEF IInv
<1> DEFINE o == [task[n][i] EXCEPT !.pc = "once"]
           t == [o EXCEPT !.attempt = @ + 1]
<1>1. StoreOK' /\ QueuesOK' /\ FlagsOK'
  BY DEF HandshakeRetry, StoreOK, QueuesOK, FlagsOK
<1>2. faults' \in 0..MaxFaults
  BY TimeType DEF HandshakeRetry
<1>3. CountsOK'
  BY <1>2 DEF HandshakeRetry, CountsOK
<1>4. task[n][i] \in TaskStates /\ task[n][i].pc = "sleep" /\ Resting(task[n][i])
  BY DEF HandshakeRetry, TasksOK
<1>5. task' = [task EXCEPT ![n][i] = t] /\ UNCHANGED <<lock, pend>>
  BY SMT, <1>4 DEF HandshakeRetry, TasksOK, TaskStates
<1>6. o \in TaskStates /\ o.pc = "once" /\ o.attempt + 1 < MaxAttempts
  BY <1>4 DEF TaskStates, Resting
<1> HIDE DEF o
<1>7. t \in TaskStates /\ Resting(t)
  BY SMT, <1>6, Bounds DEF TaskStates, Resting
<1> HIDE DEF t
<1>8. TasksOK' /\ PendOK'
  BY <1>4, <1>5, <1>7, OneTaskChanges DEF TasksOK
<1> QED
  BY <1>1, <1>3, <1>8

LEMMA BackoffOverKeeps ==
  ASSUME IInv, NEW n \in Nodes, BackoffOver(n)
  PROVE  IInv'
<1> USE DEF IInv
<1>1. StoreOK' /\ QueuesOK' /\ FlagsOK'
  BY DEF BackoffOver, StoreOK, QueuesOK, FlagsOK
<1>2. faults' \in 0..MaxFaults
  BY TimeType DEF BackoffOver
<1>3. CountsOK'
  BY <1>2 DEF BackoffOver, CountsOK
<1>4. TasksOK' /\ PendOK'
  BY NoTaskChanges DEF BackoffOver, TasksOK
<1> QED
  BY <1>1, <1>3, <1>4

LEMMA TaskStepKeeps ==
  ASSUME IInv, NEW n \in Nodes, NEW i \in TaskIds, TaskStep(n, i)
  PROVE  IInv'
BY HandshakeSessionKeeps, HandshakeOnceKeeps, HandshakeNotSentKeeps,
   HandshakeTimeoutKeeps, HandshakeCanceledKeeps, HandshakeAnsweredKeeps,
   HandshakeRetryKeeps DEF TaskStep

-----------------------------------------------------------------------------
\* The receive loop.

LEMMA RecvAnswerKeeps ==
  ASSUME IInv, NEW n \in Nodes, NEW j \in DOMAIN net[n], NEW keep \in BOOLEAN,
         RecvAnswer(n, j, keep)
  PROVE  IInv'
<1> USE DEF IInv
<1> DEFINE x == net[n][j]
<1>1. StoreOK' /\ FlagsOK'
  BY DEF RecvAnswer, StoreOK, FlagsOK
<1>2. net' \in [Nodes -> Seq(Requests \cup KeyedAnswers)] /\ faults' \in 0..MaxFaults
  BY ReceiveType DEF RecvAnswer
<1>3. QueuesOK' /\ CountsOK'
  BY <1>2 DEF RecvAnswer, QueuesOK, CountsOK
<1>4. x \in KeyedAnswers
  BY NetFacts DEF RecvAnswer
<1>5. pend' = [pend EXCEPT ![n] = 0] /\ UNCHANGED lock
  BY DEF RecvAnswer
<1>6. \A k \in TaskIds : /\ task'[n][k] \in TaskStates /\ Resting(task'[n][k])
  <2> SUFFICES ASSUME NEW k \in TaskIds
               PROVE  task'[n][k] \in TaskStates /\ Resting(task'[n][k])
    OBVIOUS
  <2> DEFINE a == [task[n][k] EXCEPT !.pc = "answered"]
  <2>1. task[n][k] \in TaskStates /\ Resting(task[n][k])
    BY DEF TasksOK
  <2>2. \/ task'[n][k] = task[n][k]
        \/ task'[n][k] = [task[n][k] EXCEPT !.pc = "answered", !.answer = x]
    BY DEF RecvAnswer, TasksOK
  <2>3. [a EXCEPT !.answer = x] = [task[n][k] EXCEPT !.pc = "answered", !.answer = x]
    OBVIOUS
  <2>4. a \in TaskStates /\ a.pc = "answered"
    BY <2>1 DEF TaskStates
  <2> HIDE DEF a, x
  <2>5. [a EXCEPT !.answer = x] \in TaskStates /\ [a EXCEPT !.answer = x].pc = "answered"
    BY <1>4, <2>4 DEF TaskStates
  <2> QED
    BY <2>1, <2>2, <2>3, <2>5 DEF Resting
<1>7. \A m \in Nodes : m # n => task'[m] = task[m]
  BY DEF RecvAnswer, TasksOK
<1>8. task' \in [Nodes -> [TaskIds -> TaskStates]]
  <2>1. task'[n] \in [TaskIds -> TaskStates]
    <3> DEFINE f == [k \in TaskIds |->
            IF pend[n] # 0 /\ task[n][k].pc = "wait" /\ task[n][k].h = pend[n]
            THEN [task[n][k] EXCEPT !.pc = "answered", !.answer = x]
            ELSE task[n][k]]
    <3>1. task'[n] = f
      BY DEF RecvAnswer, TasksOK
    <3> QED
      BY <1>6, <3>1
  <2>2. task' \in [Nodes -> [TaskIds -> TaskStates]] <=>
           \A m \in Nodes : task'[m] \in [TaskIds -> TaskStates]
    BY DEF RecvAnswer, TasksOK
  <2>3. \A m \in Nodes : task'[m] \in [TaskIds -> TaskStates]
    BY <1>7, <2>1 DEF TasksOK
  <2> QED
    BY <2>2, <2>3
<1>9. TasksOK'
  BY <1>5, <1>6, <1>7, <1>8 DEF TasksOK
<1>10. PendOK'
  BY SMT, <1>5, <1>7, Bounds DEF PendOK, PendingIsAwaited
<1> QED
  BY <1>1, <1>3, <1>9, <1>10

LEMMA RecvRequestKeeps ==
  ASSUME IInv, NEW n \in Nodes, NEW j \in DOMAIN net[n], NEW keep \in BOOLEAN,
         RecvRequest(n, j, keep)
  PROVE  IInv'
<1> USE DEF IInv
<1>1. StoreOK' /\ FlagsOK'
  BY DEF RecvRequest, StoreOK, FlagsOK
<1>2. net' \in [Nodes -> Seq(Requests \cup KeyedAnswers)] /\ faults' \in 0..MaxFaults
  BY ReceiveType DEF RecvRequest
<1>3. net[n][j] \in Requests
  BY NetFacts DEF RecvRequest
<1>4. handler' \in [Nodes -> Requests \cup {NoMsg}]
  BY <1>3 DEF RecvRequest, QueuesOK
<1>5. QueuesOK' /\ CountsOK'
  BY <1>2, <1>4 DEF RecvRequest, QueuesOK, CountsOK
<1>6. TasksOK' /\ PendOK'
  BY NoTaskChanges DEF RecvRequest, TasksOK
<1> QED
  BY <1>1, <1>5, <1>6

LEMMA AnswerRequestKeeps ==
  ASSUME IInv, NEW n \in Nodes, AnswerRequest(n)
  PROVE  IInv'
<1> USE DEF IInv
<1> DEFINE x == handler[n]
           S == ResponderSession(n)
           act == CASE store[n] = NoSession -> "Create"
                    [] store[n] # NoSession /\ x.gen = store[n].gen -> "Join"
                    [] OTHER -> "Sync"
           y == [h |-> x.h, act |-> act, gen |-> S.gen,
                 key |-> IF act = "Join" THEN 0 ELSE S.key]
<1>1. /\ x # NoMsg /\ (store[n] = NoSession => FreshKeys # {})
      /\ store' = [store EXCEPT ![n] = S]
      /\ net' = [net EXCEPT ![Other(n)] = Append(@, y)]
      /\ backoff' = [backoff EXCEPT ![n] = FALSE] /\ state' = Touched(n)
      /\ Flush(n, S.key)
      /\ handler' = [handler EXCEPT ![n] = NoMsg]
      /\ UNCHANGED <<pend, lock, task, sender, faults, evicted>>
  BY DEF AnswerRequest
<1>2. S \in LiveSessions /\ S.key \in 1..MaxKeys /\ S.gen = FirstGeneration
  BY <1>1, ResponderType
<1>3. act \in {"Create", "Join", "Sync"}
  OBVIOUS
<1>4. x.h \in 1..MaxHs
  BY <1>1 DEF QueuesOK, Requests
<1> HIDE DEF S, act
<1>5. y \in KeyedAnswers
  BY SMT, <1>2, <1>3, <1>4, Bounds DEF KeyedAnswers, Answers
<1> HIDE DEF y
<1>6. StoreOK'
  BY <1>1, <1>2 DEF StoreOK
<1>7. FlagsOK'
  BY <1>1 DEF FlagsOK, Touched
<1>8. data' \in [Nodes -> Seq(1..MaxKeys)] /\ buffered' \in [Nodes -> 0..MaxPending]
  BY <1>1, <1>2, FlushType
<1>9. net' \in [Nodes -> Seq(Requests \cup KeyedAnswers)]
  BY <1>1, <1>5, OtherType, SentType
<1>10. QueuesOK' /\ CountsOK'
  BY <1>1, <1>8, <1>9 DEF QueuesOK, CountsOK
<1>11. TasksOK' /\ PendOK'
  BY <1>1, NoTaskChanges DEF TasksOK
<1> QED
  BY <1>6, <1>7, <1>10, <1>11

LEMMA AnswerNotSentKeeps ==
  ASSUME IInv, NEW n \in Nodes, AnswerNotSent(n)
  PROVE  IInv'
<1> USE DEF IInv
<1>1. StoreOK'
  BY ResponderType DEF AnswerNotSent, StoreOK
<1>2. FlagsOK'
  BY DEF AnswerNotSent, FlagsOK, Touched
<1>3. QueuesOK'
  BY DEF AnswerNotSent, QueuesOK
<1>4. CountsOK'
  BY SMT, Bounds DEF AnswerNotSent, CountsOK
<1>5. TasksOK' /\ PendOK'
  BY NoTaskChanges DEF AnswerNotSent, TasksOK
<1> QED
  BY <1>1, <1>2, <1>3, <1>4, <1>5

LEMMA RequestRejectedKeeps ==
  ASSUME IInv, NEW n \in Nodes, RequestRejected(n)
  PROVE  IInv'
<1> USE DEF IInv
<1>1. StoreOK' /\ FlagsOK' /\ QueuesOK'
  BY DEF RequestRejected, StoreOK, FlagsOK, QueuesOK
<1>2. CountsOK'
  BY SMT, Bounds DEF RequestRejected, CountsOK
<1>3. TasksOK' /\ PendOK'
  BY NoTaskChanges DEF RequestRejected, TasksOK
<1> QED
  BY <1>1, <1>2, <1>3

LEMMA RecvDataKeeps ==
  ASSUME IInv, NEW n \in Nodes, RecvData(n)
  PROVE  IInv'
<1> USE DEF IInv
<1>1. CountsOK'
  BY DEF RecvData, CountsOK
<1>2. FlagsOK'
  BY DEF RecvData, FlagsOK
<1>3. QueuesOK'
  <2>1. Tail(data[n]) \in Seq(1..MaxKeys)
    BY HeadTailProperties DEF RecvData, QueuesOK
  <2> QED
    BY <2>1 DEF RecvData, QueuesOK
<1>4. CASE store[n] = NoSession
  <2>1. EnsureSession(n) /\ UNCHANGED <<store, pend>>
    BY <1>4 DEF RecvData
  <2>2. StoreOK'
    BY <2>1 DEF StoreOK
  <2>3. TasksOK' /\ PendOK'
    BY <2>1, EnsureKeeps
  <2> QED
    BY <1>1, <1>2, <1>3, <2>2, <2>3
<1>5. CASE store[n] # NoSession
  <2>1. store' = [store EXCEPT ![n] = Decrypted(store[n], Head(data[n]))]
    BY <1>5 DEF RecvData
  <2>2. StoreOK'
    BY <1>5, <2>1, DecryptedType DEF StoreOK
  <2>3. TasksOK' /\ PendOK'
    BY <1>5, NoTaskChanges DEF RecvData, TasksOK
  <2> QED
    BY <1>1, <1>2, <1>3, <2>2, <2>3
<1> QED
  BY <1>4, <1>5

-----------------------------------------------------------------------------
\* The network and the collectors.

LEMMA LoseKeeps ==
  ASSUME IInv, NEW n \in Nodes, NEW j \in DOMAIN net[n], Lose(n, j)
  PROVE  IInv'
<1> USE DEF IInv
<1>1. StoreOK' /\ FlagsOK'
  BY DEF Lose, StoreOK, FlagsOK
<1>2. net' \in [Nodes -> Seq(Requests \cup KeyedAnswers)]
  BY TakenType DEF Lose
<1>3. QueuesOK'
  BY <1>2 DEF Lose, QueuesOK
<1>4. CountsOK'
  BY SMT, Bounds DEF Lose, CountsOK
<1>5. TasksOK' /\ PendOK'
  BY NoTaskChanges DEF Lose, TasksOK
<1> QED
  BY <1>1, <1>3, <1>4, <1>5

LEMMA EvictUnusedKeeps ==
  ASSUME IInv, NEW n \in Nodes, EvictUnusedSessions(n)
  PROVE  IInv'
<1> USE DEF IInv
<1>1. StoreOK' /\ FlagsOK' /\ QueuesOK'
  BY DEF EvictUnusedSessions, StoreOK, FlagsOK, QueuesOK
<1>2. CountsOK'
  BY SMT, Bounds DEF EvictUnusedSessions, CountsOK
<1>3. TasksOK' /\ PendOK'
  BY NoTaskChanges DEF EvictUnusedSessions, TasksOK
<1> QED
  BY <1>1, <1>2, <1>3

LEMMA GoIdleKeeps ==
  ASSUME IInv, NEW n \in Nodes, GoIdle(n)
  PROVE  IInv'
<1> USE DEF IInv
<1>1. StoreOK' /\ FlagsOK' /\ QueuesOK' /\ CountsOK'
  BY DEF GoIdle, StoreOK, FlagsOK, QueuesOK, CountsOK
<1>2. TasksOK' /\ PendOK'
  BY NoTaskChanges DEF GoIdle, TasksOK
<1> QED
  BY <1>1, <1>2

LEMMA EvictIdleKeeps ==
  ASSUME IInv, NEW n \in Nodes, EvictIdleSessions(n)
  PROVE  IInv'
<1> USE DEF IInv
<1>1. StoreOK' /\ FlagsOK' /\ QueuesOK'
  BY DEF EvictIdleSessions, StoreOK, FlagsOK, QueuesOK
<1>2. CountsOK'
  BY SMT, Bounds DEF EvictIdleSessions, CountsOK
<1>3. TasksOK' /\ PendOK'
  BY NoTaskChanges DEF EvictIdleSessions, TasksOK
<1> QED
  BY <1>1, <1>2, <1>3

-----------------------------------------------------------------------------
LEMMA StutterKeeps == IInv /\ UNCHANGED vars => IInv'
BY DEF vars, IInv, StoreOK, TasksOK, QueuesOK, CountsOK, FlagsOK, PendOK, PendingIsAwaited

LEMMA NextKeeps ==
  ASSUME IInv, Next
  PROVE  IInv'
<1>1. ASSUME NEW n \in Nodes, SendMsg(n) PROVE IInv'
  BY <1>1, SendMsgKeeps
<1>2. ASSUME NEW n \in Nodes, BufferPendingPacket(n) PROVE IInv'
  BY <1>2, BufferPendingPacketKeeps
<1>3. ASSUME NEW n \in Nodes, NEW i \in TaskIds, TaskStep(n, i) PROVE IInv'
  BY <1>3, TaskStepKeeps
<1>4. ASSUME NEW n \in Nodes, BackoffOver(n) PROVE IInv'
  BY <1>4, BackoffOverKeeps
<1>5. ASSUME NEW n \in Nodes, NEW j \in DOMAIN net[n], NEW keep \in BOOLEAN,
             RecvAnswer(n, j, keep) \/ RecvRequest(n, j, keep)
      PROVE  IInv'
  BY <1>5, RecvAnswerKeeps, RecvRequestKeeps
<1>6. ASSUME NEW n \in Nodes,
             AnswerRequest(n) \/ AnswerNotSent(n) \/ RequestRejected(n) \/ RecvData(n)
      PROVE  IInv'
  BY <1>6, AnswerRequestKeeps, AnswerNotSentKeeps, RequestRejectedKeeps, RecvDataKeeps
<1>7. ASSUME NEW n \in Nodes, NEW j \in DOMAIN net[n], Lose(n, j) PROVE IInv'
  BY <1>7, LoseKeeps
<1>8. ASSUME NEW n \in Nodes,
             EvictUnusedSessions(n) \/ GoIdle(n) \/ EvictIdleSessions(n)
      PROVE  IInv'
  BY <1>8, EvictUnusedKeeps, GoIdleKeeps, EvictIdleKeeps
<1> QED
  BY <1>1, <1>2, <1>3, <1>4, <1>5, <1>6, <1>7, <1>8 DEF Next

\* The inductive invariant holds in every state of relay_peer_map.rs' two peers,
\* for every number of tasks, attempts, faults and collections.
THEOREM IInvAlways == Spec => []IInv
<1>1. Init => IInv
  BY InitEstablishes
<1>2. IInv /\ [Next]_vars => IInv'
  BY NextKeeps, StutterKeeps
<1> QED
  BY <1>1, <1>2, PTL DEF Spec

\* Every map and queue of RelayPeerMap keeps its shape and its bound: in
\* particular pending_packets never exceeds MAX_PENDING_PACKETS_PER_PEER, and a
\* session below the limit of decryption failures is all that is ever stored.
THEOREM TypesAlways == Spec => []TypeOK
BY IInvAlways, InvariantTypes, PTL

\* An entry of pending_handshakes always belongs to an attempt that still waits
\* (handshake_session_once, handle_relay_msg1), however messages are lost,
\* duplicated and reordered, tasks overlap and collectors run.
THEOREM PendingIsAwaitedAlways == Spec => []PendingIsAwaited
<1>1. IInv => PendingIsAwaited
  BY DEF IInv, PendOK
<1> QED
  BY <1>1, IInvAlways, PTL
=============================================================================
