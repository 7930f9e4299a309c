--------------------------- MODULE PeerRpcProofs ----------------------------
(***************************************************************************)
(* The rpc layer keeps its receive loops alive, runs a request no oftener  *)
(* than whole copies of it arrived, loses nothing it has received whole,   *)
(* and implements RpcCalls, for every number of clients, calls, pieces and *)
(* duplicated packets.                                                     *)
(***************************************************************************)
EXTENDS PeerRpc, TLAPS

\* Most leaves of these proofs are first-order, and Zenon is their prover.  A leaf
\* that needs arithmetic, or more of functions and records, names SMT.
USE Zenon

RequestPiece(c, i) == [call |-> c, by |-> 0, idx |-> i, total |-> pieces[c]]

\* A call's entry, its channel and its result go together.
CallState ==
    /\ \A c \in inflight : phase[c] \in {"waiting", "decoding"}
    /\ \A c \in Calls : phase[c] = "decoding" => rx[c] # {}
    /\ \A c \in Calls : phase[c] = "none" <=> result[c] = Abs!Idle
    /\ \A c \in Calls : phase[c] \in {"waiting", "decoding"} <=> result[c] = Abs!Open

\* A transaction id that was not taken yet is unknown everywhere.
Untouched(c) ==
    /\ executed[c] = 0
    /\ rx[c] = {}
    /\ c \notin held
    /\ merger[c].at = [i \in Idx |-> {}]
    /\ arrived[c] = [i \in Idx |-> 0]
    /\ \A p \in net : p.call # c

NewCalls ==
    /\ \A c \in Calls : c[2] >= next[c[1]] => phase[c] = "none"
    /\ \A c \in Calls : phase[c] = "none" => Untouched(c)

\* Requests in the network are pieces of the call's request; everything else that is
\* told of a call is of one of its executions.
Origins ==
    /\ \A p \in net : p.by = 0 => p = RequestPiece(p.call, p.idx) /\ p.idx \in Indexes(pieces[p.call])
    /\ \A p \in net : p.by # 0 => p.by <= executed[p.call]
    /\ \A h \in handlers : h.by \in 1..executed[h.call]
    /\ \A c \in Calls : rx[c] \subseteq 1..executed[c]
    /\ \A c \in Calls : \A i \in Idx : merger[c].at[i] \subseteq 1..executed[c]

Holds(c, i) == IF c \in held /\ mergers[c].at[i] # {} THEN 1 ELSE 0

\* A piece held by the server arrived once more than the request was run, and piece 0
\* arrived at most once more than packets were duplicated.
Counted ==
    /\ \A c \in Calls : \A i \in Indexes(pieces[c]) : executed[c] + Holds(c, i) <= arrived[c][i]
    /\ \A c \in Calls : arrived[c][0] <= duplicates + 1
    /\ \A c \in Calls : RequestPiece(c, 0) \in net => arrived[c][0] <= duplicates

IInv ==
    /\ TypeOK
    /\ LoopSurvives
    /\ CallState
    /\ NewCalls
    /\ Origins
    /\ Counted

-----------------------------------------------------------------------------
LEMMA Bounds == MaxTid \in Nat /\ MaxPieces \in Nat /\ MaxPieces >= 1
                /\ MinPieces \in Nat /\ MaxDuplicates \in Nat
  BY SMT, BoundsAreNat

\* Indexes(n) is never empty and stays within the vector.
LEMMA IndexesInIdx ==
  ASSUME NEW n \in 0..MaxPieces
  PROVE  Indexes(n) \subseteq Idx /\ 0 \in Indexes(n) /\ 0 \in Idx
  BY SMT, Bounds DEF Indexes, Idx

\* A piece lies within the request it belongs to.
LEMMA BuiltPackets ==
  ASSUME NEW c \in Calls, NEW by \in Nat, NEW n \in Totals
  PROVE  /\ build_rpc_packet(c, by, n) \subseteq Packets
         /\ \A p \in build_rpc_packet(c, by, n) :
               /\ p = [call |-> c, by |-> by, idx |-> p.idx, total |-> n]
               /\ p.call = c /\ p.by = by /\ p.total = n /\ p.idx \in Indexes(n)
<1>1. n \in 0..MaxPieces
  BY SMT, Bounds DEF Totals
<1>2. QED
  BY SMT, <1>1, IndexesInIdx DEF build_rpc_packet, Packets

LEMMA FeedType ==
  ASSUME NEW c \in Calls, NEW p \in Packets, p.call = c,
         NEW m \in [first : {NoCall} \cup Calls, at : [Idx -> SUBSET Nat]],
         m.first \in {NoCall, c}
  PROVE  /\ feed(m, p) \in [first : {NoCall} \cup Calls, at : [Idx -> SUBSET Nat]]
         /\ feed(m, p).first \in {NoCall, c}
<1>1. [i \in Idx |-> IF i = p.idx THEN {p.by}
                     ELSE IF i < p.total /\ m.first = p.call THEN m.at[i] ELSE Missing]
        \in [Idx -> SUBSET Nat]
  BY DEF Packets, Missing
<1>2. QED
  BY <1>1 DEF feed, Packets

LEMMA MergersKept ==
  ASSUME NEW f, MergersOK(f), NEW c \in Calls,
         NEW m \in [first : {NoCall} \cup Calls, at : [Idx -> SUBSET Nat]],
         m.first \in {NoCall, c}
  PROVE  MergersOK([f EXCEPT ![c] = m])
  BY DEF MergersOK

LEMMA NewMergerType == NewMerger \in [first : {NoCall} \cup Calls, at : [Idx -> SUBSET Nat]]
                       /\ NewMerger.first = NoCall
                       /\ \A i \in Idx : NewMerger.at[i] = {}
  BY DEF NewMerger, Missing

LEMMA InitIInv == Init => IInv
<1> SUFFICES ASSUME Init PROVE IInv
  OBVIOUS
<1>1. TypeOK
  BY SMT, NewMergerType, Bounds, IndexesInIdx DEF Init, TypeOK, MergersOK, Phases, NoAnswer, Packets
<1>2. LoopSurvives /\ CallState
  BY DEF Init, LoopSurvives, CallState, Abs!Idle, Abs!Open, NoAnswer
<1>3. NewCalls /\ Origins
  BY NewMergerType DEF Init, NewCalls, Untouched, Origins, NoAnswer, NewMerger, Missing
<1>4. Counted
  BY SMT, Bounds, IndexesInIdx DEF Init, Counted, Holds
<1>5. QED
  BY <1>1, <1>2, <1>3, <1>4 DEF IInv

LEMMA BeginStep ==
  ASSUME IInv, NEW p \in Peers, NEW n \in Totals, Begin(p, n)
  PROVE  IInv'
<1> DEFINE c == <<p, next[p]>>
<1>n. n \in Nat /\ n \in 0..MaxPieces /\ next[p] \in 1..MaxTid /\ c \in Calls
      /\ c[1] = p /\ c[2] = next[p]
  BY SMT, Bounds DEF Begin, Totals, IInv, TypeOK, Calls, Tids
<1>s. /\ next' = [next EXCEPT ![p] = next[p] + 1]
      /\ phase' = [phase EXCEPT ![c] = "waiting"]
      /\ inflight' = inflight \cup {c}
      /\ merger' = [merger EXCEPT ![c] = NewMerger]
      /\ result' = [result EXCEPT ![c] = [kind |-> "open", by |-> {}]]
      /\ pieces' = [pieces EXCEPT ![c] = n]
      /\ net' = net \cup build_rpc_packet(c, 0, n)
      /\ UNCHANGED <<rx, panicked, duplicates, fed, held, mergers, handlers, executed, arrived>>
  BY DEF Begin, serverVars
<1>b. /\ build_rpc_packet(c, 0, n) \subseteq Packets
      /\ \A q \in build_rpc_packet(c, 0, n) :
            /\ q = [call |-> c, by |-> 0, idx |-> q.idx, total |-> n]
            /\ q.call = c /\ q.by = 0 /\ q.total = n /\ q.idx \in Indexes(n)
  BY <1>n, BuiltPackets
<1> HIDE DEF c
<1>0. phase[c] = "none" /\ Untouched(c)
  <2>1. c[2] >= next[c[1]]
    BY SMT, <1>s, <1>n, Bounds
  <2>2. QED
    BY <1>s, <1>n, <2>1 DEF IInv, NewCalls
<1>1. TypeOK'
  BY SMT, <1>s, <1>n, NewMergerType, Bounds, <1>b
  DEF IInv, TypeOK, MergersOK, Phases
<1>2. LoopSurvives'
  BY <1>s DEF IInv, LoopSurvives
<1>3. CallState'
  BY SMT, <1>s, <1>n, <1>0 DEF IInv, TypeOK, CallState, Abs!Idle, Abs!Open
<1>4. NewCalls'
  <2>1. \A d \in Calls : d[2] >= next'[d[1]] => d # c /\ phase[d] = "none"
    <3> SUFFICES ASSUME NEW d \in Calls, d[2] >= next'[d[1]]
                 PROVE  d # c /\ phase[d] = "none"
      OBVIOUS
    <3>1. d[1] \in Peers /\ d[2] \in Nat
      BY SMT, Bounds DEF Calls, Tids
    <3>2. d[2] >= next[d[1]] /\ d # c
      BY SMT, <3>1, <1>s, <1>n, Bounds DEF IInv, TypeOK
    <3>3. QED
      BY <3>2 DEF IInv, NewCalls
  <2>2. \A d \in Calls : d # c /\ phase[d] = "none" => Untouched(d)'
    <3> SUFFICES ASSUME NEW d \in Calls, d # c, phase[d] = "none"
                 PROVE  Untouched(d)'
      OBVIOUS
    <3>1. Untouched(d)
      BY DEF IInv, NewCalls
    <3>2. merger'[d] = merger[d]
      BY <1>s DEF IInv, TypeOK, MergersOK
    <3>3. \A q \in net' : q.call # d
      BY <1>s, <1>b, <3>1 DEF Untouched
    <3>4. QED
      BY <1>s, <3>1, <3>2, <3>3 DEF Untouched
  <2>3. \A d \in Calls : phase'[d] = "none" => d # c /\ phase[d] = "none"
    BY <1>s, <1>n DEF IInv, TypeOK
  <2>4. \A d \in Calls : d # c => phase'[d] = phase[d]
    BY <1>s, <1>n DEF IInv, TypeOK
  <2>5. QED
    BY <2>1, <2>2, <2>3, <2>4 DEF NewCalls
<1>5. Origins'
  <2>1. \A q \in net' : q.by = 0 => q = RequestPiece(q.call, q.idx)' /\ q.idx \in Indexes(pieces'[q.call])
    <3>1. \A q \in build_rpc_packet(c, 0, n) :
             q = RequestPiece(q.call, q.idx)' /\ q.idx \in Indexes(pieces'[q.call])
      BY SMT, <1>s, <1>n, <1>b DEF RequestPiece, IInv, TypeOK
    <3>2. \A q \in net : q.call \in Calls /\ q.call # c
      BY <1>0 DEF Untouched, IInv, TypeOK, Packets
    <3>3. \A q \in net : q.by = 0 => q = RequestPiece(q.call, q.idx)' /\ q.idx \in Indexes(pieces'[q.call])
      BY <1>s, <1>n, <3>2 DEF RequestPiece, IInv, TypeOK, Origins
    <3>4. QED
      BY <1>s, <1>n, <3>1, <3>3
  <2>2. \A q \in net' : q.by # 0 => q.by <= executed'[q.call]
    BY <1>s, <1>n, <1>b DEF IInv, Origins
  <2>3. \A h \in handlers' : h.by \in 1..executed'[h.call]
    BY <1>s DEF IInv, Origins
  <2>4. \A d \in Calls : rx'[d] \subseteq 1..executed'[d]
    BY <1>s DEF IInv, Origins
  <2>5. \A d \in Calls : \A i \in Idx : merger'[d].at[i] \subseteq 1..executed'[d]
    BY SMT, <1>s, <1>n, NewMergerType DEF IInv, Origins, TypeOK, MergersOK
  <2>6. QED
    BY <2>1, <2>2, <2>3, <2>4, <2>5 DEF Origins
<1>6. Counted'
  <2>1. \A d \in Calls : \A i \in Indexes(pieces'[d]) : executed'[d] + Holds(d, i)' <= arrived'[d][i]
    <3> SUFFICES ASSUME NEW d \in Calls, NEW i \in Indexes(pieces'[d])
                 PROVE  executed'[d] + Holds(d, i)' <= arrived'[d][i]
      OBVIOUS
    <3>1. CASE d = c
      BY SMT, <3>1, <1>s, <1>n, <1>0, IndexesInIdx DEF IInv, TypeOK, Untouched, Holds
    <3>2. CASE d # c
      BY <3>2, <1>s, <1>n DEF IInv, TypeOK, Counted, Holds
    <3>3. QED
      BY <3>1, <3>2
  <2>2. \A d \in Calls : arrived'[d][0] <= duplicates' + 1
    BY <1>s DEF IInv, Counted
  <2>3. ASSUME NEW d \in Calls, RequestPiece(d, 0)' \in net'
        PROVE  arrived'[d][0] <= duplicates'
    <3>1. CASE d = c
      <4>1. 0 \in Idx
        BY <1>n, IndexesInIdx
      <4>2. arrived'[d][0] = 0
        BY <3>1, <4>1, <1>s, <1>0 DEF Untouched
      <4>3. duplicates' \in Nat
        BY SMT, <1>s, Bounds DEF IInv, TypeOK
      <4>4. QED
        BY SMT, <4>2, <4>3
    <3>2. CASE d # c
      <4>1. RequestPiece(d, 0)' = RequestPiece(d, 0) /\ RequestPiece(d, 0).call = d
        BY <3>2, <1>s, <1>n DEF RequestPiece, IInv, TypeOK
      <4>2. RequestPiece(d, 0) \in net
        BY <4>1, <2>3, <3>2, <1>s, <1>b
      <4>3. QED
        BY <4>2, <1>s DEF IInv, Counted
    <3>3. QED
      BY <3>1, <3>2
  <2>4. QED
    BY <2>1, <2>2, <2>3 DEF Counted
<1>7. QED
  BY <1>1, <1>2, <1>3, <1>4, <1>5, <1>6 DEF IInv

\* A step of a call under way begins no call.
LEMMA UnderWayNewCalls ==
  ASSUME NewCalls, UNCHANGED <<next, held, merger, executed, arrived, net>>,
         \A d \in Calls : phase'[d] = "none" <=> phase[d] = "none",
         \A d \in Calls : phase[d] = "none" => rx'[d] = rx[d]
  PROVE  NewCalls'
<1>1. \A d \in Calls : d[2] >= next'[d[1]] => phase'[d] = "none"
  BY DEF NewCalls
<1>2. ASSUME NEW d \in Calls, phase'[d] = "none" PROVE Untouched(d)'
  BY <1>2 DEF NewCalls, Untouched
<1> QED BY <1>1, <1>2 DEF NewCalls

LEMMA RecvStep ==
  ASSUME IInv, NEW c \in Calls, Recv(c)
  PROVE  IInv'
<1>1. TypeOK' /\ LoopSurvives'
  BY DEF IInv, TypeOK, LoopSurvives, Recv, serverVars, Phases
<1>2. CallState'
  BY SMT DEF IInv, TypeOK, CallState, Recv, NoAnswer
<1>3. NewCalls'
  <2>1. \A d \in Calls : phase'[d] = "none" <=> phase[d] = "none"
    BY SMT DEF IInv, TypeOK, Recv
  <2>2. \A d \in Calls : phase[d] = "none" => rx'[d] = rx[d]
    BY DEF IInv, TypeOK, Recv
  <2> QED BY <2>1, <2>2, UnderWayNewCalls DEF IInv, Recv, serverVars
<1>4. Origins' /\ Counted'
  BY DEF IInv, Origins, Counted, RequestPiece, Holds, Recv, serverVars
<1>5. QED
  BY <1>1, <1>2, <1>3, <1>4 DEF IInv

Results == [kind : {"idle", "open", "failed", "answered"}, by : SUBSET Nat]

LEMMA LeaveStep ==
  ASSUME IInv, NEW c \in Calls, phase[c] \in {"waiting", "decoding"}, NEW r \in Results,
         r.kind \in {"failed", "answered"}, Leave(c, r)
  PROVE  IInv'
<1>0. r # Abs!Idle /\ r # Abs!Open
  BY SMT DEF Abs!Idle, Abs!Open
<1>1. TypeOK' /\ LoopSurvives'
  BY DEF IInv, TypeOK, LoopSurvives, Leave, serverVars, Phases, Results
<1>2. CallState'
  BY <1>0 DEF IInv, TypeOK, CallState, Leave
<1>3. NewCalls'
  <2>1. \A d \in Calls : phase'[d] = "none" <=> phase[d] = "none"
    BY SMT DEF IInv, TypeOK, Leave
  <2>2. \A d \in Calls : phase[d] = "none" => rx'[d] = rx[d]
    BY DEF IInv, TypeOK, Leave
  <2> QED BY <2>1, <2>2, UnderWayNewCalls DEF IInv, Leave, serverVars
<1>4. Origins' /\ Counted'
  BY DEF IInv, Origins, Counted, RequestPiece, Holds, Leave, serverVars
<1>5. QED
  BY <1>1, <1>2, <1>3, <1>4 DEF IInv

LEMMA DropReceiverStep ==
  ASSUME IInv, NEW c \in Calls, DropReceiver(c)
  PROVE  IInv'
<1>1. TypeOK' /\ LoopSurvives'
  BY DEF IInv, TypeOK, LoopSurvives, DropReceiver, serverVars, Phases, NoAnswer
<1>2. CallState'
  BY SMT DEF IInv, TypeOK, CallState, DropReceiver
<1>3. NewCalls'
  <2>1. \A d \in Calls : phase'[d] = "none" <=> phase[d] = "none"
    BY SMT DEF IInv, TypeOK, DropReceiver
  <2>2. \A d \in Calls : phase[d] = "none" => rx'[d] = rx[d]
    BY DEF IInv, TypeOK, DropReceiver
  <2> QED BY <2>1, <2>2, UnderWayNewCalls DEF IInv, DropReceiver, serverVars
<1>4. Origins'
  BY DEF IInv, TypeOK, Origins, RequestPiece, DropReceiver, serverVars, NoAnswer
<1>5. Counted'
  BY DEF IInv, Counted, RequestPiece, Holds, DropReceiver, serverVars
<1>6. QED
  BY <1>1, <1>2, <1>3, <1>4, <1>5 DEF IInv

\* What a delivery does to the network and the count of duplicates.
LEMMA ArriveFacts ==
  ASSUME TypeOK, NEW p \in net, Arrive(p)
  PROVE  /\ net' \subseteq net
         /\ duplicates' \in 0..MaxDuplicates
         /\ duplicates \in Nat /\ duplicates' \in Nat /\ duplicates' >= duplicates
         /\ p \in net' => duplicates' = duplicates + 1
         /\ duplicates' = duplicates \/ duplicates' = duplicates + 1
  BY SMT, Bounds DEF Arrive, TypeOK

LEMMA RecvResponseStep ==
  ASSUME IInv, NEW p \in net, RecvResponse(p)
  PROVE  IInv'
<1> DEFINE c == p.call
<1> DEFINE m == feed(merger[c], p)
<1>p. p \in Packets /\ c \in Calls /\ c[1] \in Peers /\ p.by \in Nat /\ p.by # 0
      /\ p.by \in 1..executed[c] /\ p.idx \in Idx /\ p.total \in 0..MaxPieces
  <2>1. p \in Packets /\ c \in Calls /\ p.by \in Nat /\ p.by # 0 /\ p.idx \in Idx
        /\ p.total \in 0..MaxPieces
    BY SMT, Bounds DEF IInv, TypeOK, Packets, RecvResponse, IsRequest, Totals
  <2>2. p.by <= executed[c] /\ executed[c] \in Nat
    BY <2>1 DEF IInv, Origins, TypeOK
  <2>3. c[1] \in Peers
    BY <2>1 DEF Calls
  <2>4. QED
    BY SMT, <2>1, <2>2, <2>3
<1>a. /\ net' \subseteq net
      /\ duplicates' \in 0..MaxDuplicates
      /\ duplicates \in Nat /\ duplicates' \in Nat /\ duplicates' >= duplicates
  BY ArriveFacts DEF RecvResponse, IInv
<1>m. /\ m \in [first : {NoCall} \cup Calls, at : [Idx -> SUBSET Nat]]
      /\ m.first \in {NoCall, c}
  BY <1>p, FeedType DEF IInv, TypeOK, MergersOK
<1>f. \A i \in Idx : m.at[i] \subseteq 1..executed[c]
  BY <1>p DEF feed, IInv, Origins, TypeOK, MergersOK, Missing
<1>g. ASSUME try_merge_pieces(m, p)
      PROVE  Body(m, p) \subseteq 1..executed[c] /\ Body(m, p) # {}
  <2>1. CASE p.total = 0
    BY <1>p, <2>1 DEF Body
  <2>2. CASE p.total # 0
    <3>1. 0..(p.total - 1) \subseteq Idx /\ 0 \in 0..(p.total - 1)
      BY SMT, <1>p, <2>2, Bounds DEF Idx
    <3>2. m.at[0] # {}
      BY <1>g, <2>2, <3>1 DEF try_merge_pieces, Missing
    <3>3. Body(m, p) = UNION {m.at[i] : i \in 0..(p.total - 1)}
      BY <2>2 DEF Body
    <3> HIDE DEF m
    <3>4. QED
      BY <1>f, <3>1, <3>2, <3>3
  <2>3. QED
    BY <2>1, <2>2
<1>s. UNCHANGED <<next, phase, inflight, result, pieces, held, mergers, handlers, executed, arrived>>
  BY DEF RecvResponse, serverVars
<1>i. \/ /\ c \in inflight
         /\ merger' = [merger EXCEPT ![c] = m]
         /\ UNCHANGED panicked
         /\ \/ UNCHANGED rx
            \/ /\ try_merge_pieces(m, p)
               /\ rx' = [rx EXCEPT ![c] = IF rx[c] = NoAnswer THEN Body(m, p) ELSE rx[c]]
      \/ UNCHANGED <<merger, rx, panicked>>
  <2>1. c \in inflight => HasReceiver(c)
    BY <1>p DEF IInv, CallState, HasReceiver
  <2>2. QED
    BY <2>1 DEF RecvResponse
<1> HIDE DEF c, m
<1>r. \A d \in Calls : /\ rx'[d] \subseteq 1..executed[d]
                       /\ rx[d] # {} => rx'[d] # {}
                       /\ rx'[d] = rx[d] \/ d \in inflight
  BY <1>i, <1>g, <1>p DEF IInv, TypeOK, Origins, NoAnswer
<1>t. rx' \in [Calls -> SUBSET Nat]
  <2>1. \A d \in Calls : rx'[d] \in SUBSET Nat
    BY SMT, <1>r DEF IInv, TypeOK
  <2>2. rx' = rx \/ \E v : rx' = [rx EXCEPT ![c] = v]
    BY <1>i
  <2>3. QED
    BY <2>1, <2>2 DEF IInv, TypeOK
<1>1. TypeOK'
  <2>1. MergersOK(merger)'
    <3>1. MergersOK(merger) /\ MergersOK([merger EXCEPT ![c] = m])
      BY <1>m, <1>p, MergersKept DEF IInv, TypeOK
    <3>2. MergersOK(merger')
      BY <3>1, <1>i
    <3>3. QED
      BY <3>2 DEF MergersOK
  <2>2. net' \subseteq Packets /\ panicked' \subseteq Peers
    BY <1>a, <1>i DEF IInv, TypeOK
  <2>3. MergersOK(mergers)'
    BY <1>s DEF IInv, TypeOK, MergersOK
  <2>4. QED
    BY <2>1, <2>2, <2>3, <1>a, <1>s, <1>t DEF IInv, TypeOK
<1>2. LoopSurvives'
  BY <1>i DEF IInv, LoopSurvives
<1>3. CallState'
  BY <1>r, <1>s DEF IInv, CallState
<1>4. NewCalls'
  <2>1. ASSUME NEW d \in Calls, phase'[d] = "none"
        PROVE  Untouched(d)'
    <3>1. Untouched(d) /\ d \notin inflight
      BY <2>1, <1>s DEF IInv, NewCalls, CallState
    <3>2. merger'[d] = merger[d] /\ rx'[d] = rx[d]
      BY <3>1, <1>i, <1>r DEF IInv, TypeOK, MergersOK
    <3>3. QED
      BY <3>1, <3>2, <1>a, <1>s DEF Untouched
  <2>2. QED
    BY <2>1, <1>s DEF IInv, NewCalls
<1>5. Origins'
  <2>1. \A d \in Calls : \A i \in Idx : merger'[d].at[i] \subseteq 1..executed'[d]
    BY <1>i, <1>f, <1>s, <1>p DEF IInv, Origins, TypeOK, MergersOK
  <2>2. QED
    BY <2>1, <1>a, <1>s, <1>r DEF IInv, Origins, RequestPiece
<1>6. Counted'
  <2>1. \A d \in Calls : arrived[d][0] \in Nat
    BY SMT, IndexesInIdx, Bounds DEF IInv, TypeOK, Idx
  <2>2. \A d \in Calls : arrived[d][0] <= duplicates + 1
                        /\ (RequestPiece(d, 0) \in net => arrived[d][0] <= duplicates)
    BY DEF IInv, Counted
  <2>3. \A d \in Calls : arrived'[d][0] <= duplicates' + 1
                        /\ (RequestPiece(d, 0)' \in net' => arrived'[d][0] <= duplicates')
    BY SMT, <2>1, <2>2, <1>a, <1>s DEF RequestPiece
  <2>4. \A d \in Calls : \A i \in Indexes(pieces'[d]) :
           executed'[d] + Holds(d, i)' <= arrived'[d][i]
    BY <1>s DEF IInv, Counted, Holds
  <2>5. QED
    BY <2>3, <2>4 DEF Counted
<1>7. QED
  BY <1>1, <1>2, <1>3, <1>4, <1>5, <1>6 DEF IInv

-----------------------------------------------------------------------------
LEMMA RecvRequestStep ==
  ASSUME IInv, NEW p \in net, RecvRequest(p)
  PROVE  IInv'
<1> DEFINE c == p.call
<1> DEFINE o == IF c \in held THEN mergers[c] ELSE NewMerger
<1> DEFINE m == feed(o, p)
<1>p. p \in Packets /\ c \in Calls /\ p.by = 0 /\ p.idx \in Idx /\ p.total \in 0..MaxPieces
      /\ p = RequestPiece(c, p.idx) /\ p.idx \in Indexes(pieces[c]) /\ p.total = pieces[c]
  <2>1. p \in Packets /\ c \in Calls /\ p.by = 0 /\ p.idx \in Idx /\ p.total \in 0..MaxPieces
    BY SMT, Bounds DEF IInv, TypeOK, Packets, RecvRequest, IsRequest, Totals
  <2>2. p = RequestPiece(c, p.idx) /\ p.idx \in Indexes(pieces[c])
    BY <2>1 DEF IInv, Origins
  <2>3. QED
    BY SMT, <2>1, <2>2 DEF RequestPiece
<1>a. /\ net' \subseteq net
      /\ duplicates' \in 0..MaxDuplicates
      /\ duplicates \in Nat /\ duplicates' \in Nat /\ duplicates' >= duplicates
      /\ p \in net' => duplicates' = duplicates + 1
  BY ArriveFacts DEF RecvRequest, IInv
<1>s. /\ UNCHANGED <<next, phase, inflight, merger, rx, result, panicked, pieces>>
      /\ arrived' = [arrived EXCEPT ![c][p.idx] = arrived[c][p.idx] + 1]
  BY DEF RecvRequest, clientVars
<1>i. \/ /\ try_merge_pieces(m, p)
         /\ held' = held \ {c}
         /\ mergers' = [mergers EXCEPT ![c] = NewMerger]
         /\ handlers' = handlers \cup {[call |-> c, by |-> executed[c] + 1]}
         /\ executed' = [executed EXCEPT ![c] = executed[c] + 1]
      \/ /\ ~ try_merge_pieces(m, p)
         /\ held' = held \cup {c}
         /\ mergers' = [mergers EXCEPT ![c] = m]
         /\ UNCHANGED <<handlers, executed>>
  BY DEF RecvRequest, PacketMergerKey
<1>o. o \in [first : {NoCall} \cup Calls, at : [Idx -> SUBSET Nat]] /\ o.first \in {NoCall, c}
  BY <1>p, NewMergerType DEF IInv, TypeOK, MergersOK
<1>m. m \in [first : {NoCall} \cup Calls, at : [Idx -> SUBSET Nat]] /\ m.first \in {NoCall, c}
  <2> HIDE DEF o
  <2>1. QED
    BY <1>p, <1>o, FeedType
<1>h. \A i \in Idx : i # p.idx /\ o.at[i] = {} => p.total = 0 \/ m.at[i] = {}
  <2> HIDE DEF o
  <2>1. QED
    BY DEF feed, Missing
<1>k. \A i \in Idx : Holds(c, i) = IF o.at[i] # {} THEN 1 ELSE 0
  BY NewMergerType DEF Holds
<1>v. /\ executed \in [Calls -> Nat] /\ executed' \in [Calls -> Nat]
      /\ executed[c] \in Nat
      /\ \A d \in Calls : executed'[d] >= executed[d]
      /\ \A d \in Calls : d # c => executed'[d] = executed[d]
  <2> HIDE DEF c, o, m
  <2>1. executed \in [Calls -> Nat] /\ executed[c] \in Nat
    BY <1>p DEF IInv, TypeOK
  <2>2. executed' = executed \/ executed' = [executed EXCEPT ![c] = executed[c] + 1]
    BY <1>i
  <2>3. QED
    BY SMT, <1>p, <2>1, <2>2
<1>w. /\ arrived' \in [Calls -> [Idx -> Nat]]
      /\ \A i \in Idx : arrived[c][i] \in Nat
      /\ arrived'[c][p.idx] = arrived[c][p.idx] + 1
      /\ \A i \in Idx : i # p.idx => arrived'[c][i] = arrived[c][i]
      /\ \A d \in Calls : d # c => arrived'[d] = arrived[d]
  BY SMT, <1>s, <1>p DEF IInv, TypeOK
<1>n. phase[c] # "none"
  BY <1>p DEF IInv, NewCalls, Untouched
<1>t. try_merge_pieces(m, p) =>
        \A i \in Indexes(pieces[c]) : i = p.idx \/ (i \in Idx /\ o.at[i] # {})
  <2> SUFFICES ASSUME try_merge_pieces(m, p), NEW i \in Indexes(pieces[c]), i # p.idx
               PROVE  i \in Idx /\ o.at[i] # {}
    OBVIOUS
  <2>1. i \in Idx /\ p.total # 0 /\ i \in 0..(p.total - 1)
    BY <1>p, IndexesInIdx, Bounds DEF Indexes, IInv, TypeOK
  <2>2. m.at[i] # {}
    BY <2>1 DEF try_merge_pieces, Missing
  <2>3. QED
    BY <2>1, <2>2, <1>h
<1> HIDE DEF c, o, m
<1>1. TypeOK'
  <2>1. MergersOK(mergers)'
    <3>1. MergersOK([mergers EXCEPT ![c] = m]) /\ MergersOK([mergers EXCEPT ![c] = NewMerger])
      BY <1>m, <1>p, MergersKept, NewMergerType DEF IInv, TypeOK
    <3>2. MergersOK(mergers')
      BY <3>1, <1>i
    <3>3. QED
      BY <3>2 DEF MergersOK
  <2>2. MergersOK(merger)'
    BY <1>s DEF IInv, TypeOK, MergersOK
  <2>3. handlers' \subseteq [call : Calls, by : Nat] /\ held' \subseteq Calls
    BY SMT, <1>i, <1>p, <1>v DEF IInv, TypeOK
  <2>4. QED
    BY <2>1, <2>2, <2>3, <1>a, <1>s, <1>v, <1>w DEF IInv, TypeOK
<1>2. LoopSurvives' /\ CallState'
  BY <1>s DEF IInv, LoopSurvives, CallState
<1>3. NewCalls'
  <2>1. ASSUME NEW d \in Calls, phase'[d] = "none"
        PROVE  Untouched(d)'
    <3>1. Untouched(d) /\ d # c
      BY <2>1, <1>s, <1>n DEF IInv, NewCalls
    <3>2. d \notin held'
      BY <3>1, <1>i DEF Untouched
    <3>3. QED
      BY <3>1, <3>2, <1>a, <1>s, <1>v, <1>w DEF Untouched
  <2>2. QED
    BY <2>1, <1>s DEF IInv, NewCalls
<1>4. Origins'
  <2>1. \A h \in handlers' : h.by \in 1..executed'[h.call]
    <3>1. \A h \in handlers : h.call \in Calls /\ h.by \in 1..executed[h.call]
      BY DEF IInv, TypeOK, Origins
    <3>2. \A h \in handlers : h.by \in 1..executed'[h.call]
      BY SMT, <3>1, <1>v
    <3>3. executed' = [executed EXCEPT ![c] = executed[c] + 1] => executed[c] + 1 \in 1..executed'[c]
      BY SMT, <1>v, <1>p
    <3>4. QED
      BY SMT, <3>2, <3>3, <1>i
  <2>2. \A d \in Calls : 1..executed[d] \subseteq 1..executed'[d]
    BY SMT, <1>v
  <2>3. \A q \in net' : q.by # 0 => q.by <= executed'[q.call]
    <3>1. \A q \in net : q.call \in Calls /\ q.by \in Nat
      BY DEF IInv, TypeOK, Packets
    <3>2. QED
      BY SMT, <3>1, <1>a, <1>v DEF IInv, Origins
  <2>4. QED
    BY <2>1, <2>2, <2>3, <1>a, <1>s DEF IInv, Origins, RequestPiece
<1>5. Counted'
  <2>1. ASSUME NEW i \in Indexes(pieces[c])
        PROVE  executed'[c] + Holds(c, i)' <= arrived'[c][i]
    <3>0. i \in Idx /\ executed[c] + Holds(c, i) <= arrived[c][i] /\ arrived[c][i] \in Nat
          /\ Holds(c, i) \in {0, 1}
      BY <1>p, <1>w, IndexesInIdx DEF IInv, TypeOK, Counted, Holds
    <3>1. CASE try_merge_pieces(m, p)
      <4>1. Holds(c, i)' = 0 /\ executed'[c] = executed[c] + 1
        BY <3>1, <1>i, <1>p, <1>v DEF Holds
      <4>2. CASE i = p.idx
        BY SMT, <4>1, <4>2, <3>0, <1>w, <1>v
      <4>3. CASE i # p.idx
        <5>1. Holds(c, i) = 1
          BY <3>1, <4>3, <1>t, <1>k
        <5>2. QED
          BY SMT, <5>1, <4>1, <4>3, <3>0, <1>w, <1>v
      <4>4. QED
        BY <4>2, <4>3
    <3>2. CASE ~ try_merge_pieces(m, p)
      <4>1. executed'[c] = executed[c] /\ Holds(c, i)' \in {0, 1}
            /\ (Holds(c, i)' = 1 => m.at[i] # {})
        BY SMT, <3>2, <1>i, <1>p DEF Holds, IInv, TypeOK, MergersOK
      <4>2. CASE i = p.idx
        BY SMT, <4>1, <4>2, <3>0, <1>w, <1>v
      <4>3. CASE i # p.idx
        <5>1. Holds(c, i)' = 1 => Holds(c, i) = 1
          BY <4>1, <4>3, <3>0, <3>2, <1>h, <1>k DEF try_merge_pieces
        <5>2. QED
          BY SMT, <5>1, <4>1, <4>3, <3>0, <1>w, <1>v
      <4>4. QED
        BY <4>2, <4>3
    <3>3. QED
      BY <3>1, <3>2
  <2>2. ASSUME NEW d \in Calls, d # c, NEW i \in Indexes(pieces[d])
        PROVE  executed'[d] + Holds(d, i)' <= arrived'[d][i]
    <3>1. Holds(d, i)' = Holds(d, i)
      BY SMT, <2>2, <1>i DEF Holds, IInv, TypeOK, MergersOK
    <3>2. QED
      BY <2>2, <3>1, <1>v, <1>w DEF IInv, Counted
  <2>3. 0 \in Idx /\ \A d \in Calls : arrived[d][0] \in Nat
    BY SMT, Bounds DEF Idx, IInv, TypeOK
  <2>4. ASSUME NEW d \in Calls
        PROVE  /\ arrived'[d][0] <= duplicates' + 1
               /\ RequestPiece(d, 0) \in net' => arrived'[d][0] <= duplicates'
    <3>1. CASE d = c /\ p.idx = 0
      <4>1. p = RequestPiece(d, 0) /\ p \in net
        BY <3>1, <1>p
      <4>2. arrived[d][0] <= duplicates
        BY <4>1, <3>1, <1>p DEF IInv, Counted
      <4>3. arrived'[d][0] = arrived[d][0] + 1
        BY <3>1, <1>w
      <4>4. QED
        BY SMT, <4>1, <4>2, <4>3, <2>3, <1>a
    <3>2. CASE ~ (d = c /\ p.idx = 0)
      <4>1. arrived'[d][0] = arrived[d][0]
        BY <3>2, <1>w, <2>3
      <4>2. QED
        BY SMT, <4>1, <2>3, <1>a DEF IInv, Counted
    <3>3. QED
      BY <3>1, <3>2
  <2>5. QED
    BY <2>1, <2>2, <2>4, <1>s DEF Counted, RequestPiece
<1>6. QED
  BY <1>1, <1>2, <1>3, <1>4, <1>5 DEF IInv

LEMMA HandleRpcStep ==
  ASSUME IInv, NEW h \in handlers, NEW n \in Totals, HandleRpc(h, n)
  PROVE  IInv'
<1>h. h.call \in Calls /\ h.by \in Nat /\ h.by # 0 /\ h.by <= executed[h.call]
      /\ executed[h.call] \in Nat
  BY SMT DEF IInv, TypeOK, Origins
<1>s. /\ UNCHANGED <<held, mergers, executed, arrived, duplicates>>
      /\ UNCHANGED <<next, phase, inflight, merger, rx, result, panicked, pieces>>
      /\ handlers' \subseteq handlers
      /\ net' = net \cup build_rpc_packet(h.call, h.by, n)
  BY DEF HandleRpc, clientVars
<1>b. /\ build_rpc_packet(h.call, h.by, n) \subseteq Packets
      /\ \A q \in build_rpc_packet(h.call, h.by, n) : q.call = h.call /\ q.by = h.by
  BY SMT, <1>h, BuiltPackets
<1>1. TypeOK' /\ LoopSurvives'
  BY <1>s, <1>b DEF IInv, TypeOK, MergersOK, LoopSurvives
<1>2. CallState'
  BY <1>s DEF IInv, CallState
<1>3. NewCalls'
  <2>1. ASSUME NEW d \in Calls, phase'[d] = "none"
        PROVE  Untouched(d)'
    <3>0. Untouched(d)
      BY <2>1, <1>s DEF IInv, NewCalls
    <3>1. executed[d] = 0 /\ d # h.call
      BY SMT, <3>0, <1>h DEF Untouched
    <3>2. QED
      BY <3>0, <3>1, <1>s, <1>b DEF Untouched
  <2>2. QED
    BY <2>1, <1>s DEF IInv, NewCalls
<1>4. Origins'
  BY <1>s, <1>b, <1>h DEF IInv, Origins, RequestPiece
<1>5. Counted'
  <2>1. \A d \in Calls : RequestPiece(d, 0) \in net' => RequestPiece(d, 0) \in net
    BY <1>s, <1>b, <1>h DEF RequestPiece
  <2>2. QED
    BY <2>1, <1>s DEF IInv, Counted, RequestPiece, Holds
<1>6. QED
  BY <1>1, <1>2, <1>3, <1>4, <1>5 DEF IInv

LEMMA ExpireMergerStep ==
  ASSUME IInv, NEW k \in held, ExpireMerger(k)
  PROVE  IInv'
<1>s. /\ UNCHANGED <<handlers, executed, arrived, net, duplicates>>
      /\ UNCHANGED <<next, phase, inflight, merger, rx, result, panicked, pieces>>
      /\ held' = held \ {k}
      /\ mergers' = [mergers EXCEPT ![k] = NewMerger]
      /\ k \in Calls
  BY DEF ExpireMerger, clientVars, IInv, TypeOK
<1>1. TypeOK' /\ LoopSurvives'
  <2>1. MergersOK(mergers')
    BY <1>s, MergersKept, NewMergerType DEF IInv, TypeOK
  <2>2. MergersOK(mergers)' /\ MergersOK(merger)'
    BY <2>1, <1>s DEF MergersOK, IInv, TypeOK
  <2>3. QED
    BY <2>2, <1>s DEF IInv, TypeOK, LoopSurvives
<1>2. CallState' /\ NewCalls'
  BY <1>s DEF IInv, CallState, NewCalls, Untouched
<1>3. Origins'
  BY <1>s DEF IInv, Origins, RequestPiece
<1>4. Counted'
  <2>1. ASSUME NEW d \in Calls, NEW i \in Indexes(pieces[d])
        PROVE  executed[d] + Holds(d, i)' <= arrived[d][i]
    <3>1. Holds(d, i)' = Holds(d, i) \/ Holds(d, i)' = 0
      BY <1>s DEF Holds, IInv, TypeOK, MergersOK
    <3>2. executed[d] + Holds(d, i) <= arrived[d][i] /\ executed[d] \in Nat
          /\ Holds(d, i) \in {0, 1} /\ i \in Idx /\ arrived[d][i] \in Nat
      BY SMT, IndexesInIdx DEF IInv, TypeOK, Counted, Holds
    <3>3. QED
      BY SMT, <3>1, <3>2
  <2>2. QED
    BY <2>1, <1>s DEF IInv, Counted, RequestPiece
<1>5. QED
  BY <1>1, <1>2, <1>3, <1>4 DEF IInv

\* A call returns only from the phases in which it has a result to give.
LEMMA ReturnLeaves ==
  ASSUME IInv, NEW c \in Calls, Return(c) \/ Garbled(c) \/ Timeout(c)
  PROVE  /\ phase[c] \in {"waiting", "decoding"}
         /\ \E r \in Results :
               /\ Leave(c, r)
               /\ \/ r = Abs!Failed
                  \/ r = Abs!AnsweredBy(rx[c]) /\ rx[c] # {} /\ rx[c] \subseteq 1..executed[c]
<1>1. CASE Return(c)
  <2>1. rx[c] # {} /\ rx[c] \subseteq 1..executed[c] /\ rx[c] \in SUBSET Nat
    BY <1>1 DEF Return, IInv, CallState, Origins, TypeOK
  <2>2. QED
    BY <1>1, <2>1 DEF Return, Abs!AnsweredBy, Results
<1>2. CASE Garbled(c) \/ Timeout(c)
  BY <1>2 DEF Garbled, Timeout, Abs!Failed, Results
<1>3. QED
  BY <1>1, <1>2

LEMMA NextIInv == IInv /\ [Next]_vars => IInv'
<1> SUFFICES ASSUME IInv, [Next]_vars PROVE IInv'
  OBVIOUS
<1>1. CASE \E p \in Peers, n \in Totals : Begin(p, n)
  BY <1>1, BeginStep
<1>2. CASE \E c \in Calls : Recv(c)
  BY <1>2, RecvStep
<1>3. CASE \E c \in Calls : Return(c) \/ Garbled(c) \/ Timeout(c)
  <2>1. PICK c \in Calls : Return(c) \/ Garbled(c) \/ Timeout(c)
    BY <1>3
  <2>2. PICK r \in Results : Leave(c, r) /\ r.kind \in {"failed", "answered"}
    BY SMT, <2>1, ReturnLeaves DEF Abs!Failed, Abs!AnsweredBy
  <2>3. phase[c] \in {"waiting", "decoding"}
    BY <2>1, ReturnLeaves
  <2>4. QED
    BY <2>2, <2>3, LeaveStep
<1>4. CASE \E c \in Calls : DropReceiver(c)
  BY <1>4, DropReceiverStep
<1>5. CASE \E p \in net : RecvResponse(p)
  BY <1>5, RecvResponseStep
<1>6. CASE \E p \in net : RecvRequest(p)
  BY <1>6, RecvRequestStep
<1>7. CASE \E h \in handlers, n \in Totals : HandleRpc(h, n)
  BY <1>7, HandleRpcStep
<1>8. CASE \E k \in held : ExpireMerger(k)
  BY <1>8, ExpireMergerStep
<1>9. CASE UNCHANGED vars
  <2>1. TypeOK' /\ LoopSurvives' /\ CallState'
    BY <1>9 DEF vars, IInv, TypeOK, MergersOK, LoopSurvives, CallState
  <2>2. NewCalls'
    BY <1>9, UnderWayNewCalls DEF vars, IInv
  <2>3. Origins' /\ Counted'
    BY <1>9 DEF vars, IInv, Origins, RequestPiece, Counted, Holds
  <2> QED BY <2>1, <2>2, <2>3 DEF IInv
<1>10. QED
  BY <1>1, <1>2, <1>3, <1>4, <1>5, <1>6, <1>7, <1>8, <1>9 DEF Next

\* The inductive invariant holds in every state.
THEOREM IInvAlways == SafeSpec => []IInv
  BY InitIInv, NextIInv, PTL DEF SafeSpec

\* Types hold, and the receive loop of a client (client.rs:179) never panics, whatever
\* the network delivers and whenever calls time out.
THEOREM LoopAlwaysSurvives == SafeSpec => [](TypeOK /\ LoopSurvives)
<1>1. IInv => TypeOK /\ LoopSurvives
  BY DEF IInv
<1>2. QED
  BY <1>1, IInvAlways, PTL

\* The server runs a request no oftener than each of its pieces arrived (server.rs:141).
THEOREM WholeCopyAlways == SafeSpec => []WholeCopyPerRun
<1>1. IInv => WholeCopyPerRun
  <2> SUFFICES ASSUME IInv, NEW c \in Calls, NEW i \in Indexes(pieces[c])
               PROVE  executed[c] <= arrived[c][i]
    BY DEF WholeCopyPerRun
  <2>1. i \in Idx /\ executed[c] \in Nat /\ arrived[c][i] \in Nat /\ Holds(c, i) \in {0, 1}
    BY IndexesInIdx DEF IInv, TypeOK, Holds
  <2>2. QED
    BY SMT, <2>1 DEF IInv, Counted
<1>2. QED
  BY <1>1, IInvAlways, PTL

-----------------------------------------------------------------------------
\* Nothing received is lost

\* A request that was neither run nor dropped misses a piece, and the pieces of it
\* that arrived are in the merger at its key.
RunOrHeldCall(c) ==
    executed[c] = 0 /\ c \notin expired =>
        /\ \E i \in Indexes(pieces[c]) : arrived[c][i] = 0
        /\ \A i \in Indexes(pieces[c]) :
              arrived[c][i] > 0 => c \in held /\ mergers[c].first = c /\ mergers[c].at[i] # {}

RunOrHeld == \A c \in Calls : RunOrHeldCall(c)

Responses == {p \in net : p.by # 0} \cup fed

\* An execution is answered once, so its pieces agree on how many there are.
OneTotal ==
    /\ \A p \in Responses : p.by \in 1..executed[p.call] /\ p.idx \in Indexes(p.total)
    /\ \A p \in fed : p \in Packets /\ phase[p.call] # "none"
    /\ \A p, q \in Responses : p.call = q.call /\ p.by = q.by => p.total = q.total
    /\ \A h \in handlers : \A p \in Responses : p.call = h.call => p.by # h.by

HasAnswer(c) == rx[c] # {} \/ phase[c] \in {"leaving", "ended"}

\* While a call that was run once has no answer, a piece of the response misses, and
\* the pieces of it that were fed are in the merger of the call.
FedIsKept ==
    \A p \in fed :
        executed[p.call] = 1 /\ ~ HasAnswer(p.call) =>
            /\ p.total # 0
            /\ merger[p.call].first = p.call
            /\ merger[p.call].at[p.idx] # {}
            /\ ~ (build_rpc_packet(p.call, p.by, p.total) \subseteq fed)

ReceivedInv == RunOrHeld /\ OneTotal /\ FedIsKept

\* A call whose pieces stay where they are is still run or held.
LEMMA SameRunOrHeld ==
  ASSUME NEW c, RunOrHeldCall(c), expired \subseteq expired', c \in held => c \in held',
         executed'[c] = executed[c], pieces'[c] = pieces[c], arrived'[c] = arrived[c],
         mergers'[c] = mergers[c]
  PROVE  RunOrHeldCall(c)'
BY DEF RunOrHeldCall

LEMMA InitReceived == Init => ReceivedInv
<1> SUFFICES ASSUME Init PROVE ReceivedInv
  OBVIOUS
<1>1. RunOrHeld
  <2> SUFFICES ASSUME NEW c \in Calls PROVE RunOrHeldCall(c)
    BY DEF RunOrHeld
  <2>1. pieces[c] \in 0..MaxPieces /\ arrived[c] = [i \in Idx |-> 0]
    BY SMT, Bounds DEF Init
  <2>2. Indexes(pieces[c]) # {} /\ \A i \in Indexes(pieces[c]) : arrived[c][i] = 0
    BY <2>1, IndexesInIdx
  <2> QED
    BY SMT, <2>2 DEF RunOrHeldCall
<1>2. OneTotal /\ FedIsKept
  BY DEF Init, OneTotal, FedIsKept, Responses
<1>3. QED
  BY <1>1, <1>2 DEF ReceivedInv

LEMMA BeginReceived ==
  ASSUME IInv, ReceivedInv, NEW p \in Peers, NEW n \in Totals, Begin(p, n)
  PROVE  ReceivedInv'
<1> DEFINE c == <<p, next[p]>>
<1>c. c \in Calls /\ phase[c] = "none" /\ Untouched(c)
  <2>1. next[p] \in Tids
    BY SMT, Bounds DEF Begin, IInv, TypeOK, Tids
  <2>2. c \in Calls /\ c[1] = p /\ c[2] = next[p]
    BY <2>1 DEF Calls
  <2>3. QED
    BY SMT, <2>1, <2>2, Bounds DEF IInv, NewCalls, Tids
<1>n. n \in 0..MaxPieces
  BY SMT, Bounds DEF Totals
<1>b. \A q \in build_rpc_packet(c, 0, n) : q.by = 0
  BY SMT DEF build_rpc_packet
<1>s. /\ UNCHANGED <<rx, fed, held, mergers, handlers, executed, arrived, expired>>
      /\ pieces' = [pieces EXCEPT ![c] = n]
      /\ phase' = [phase EXCEPT ![c] = "waiting"]
      /\ merger' = [merger EXCEPT ![c] = NewMerger]
      /\ net' = net \cup build_rpc_packet(c, 0, n)
  BY DEF Begin, serverVars
<1> HIDE DEF c
<1>f. \A q \in fed : q.call # c /\ q.call \in Calls
  BY <1>c DEF ReceivedInv, OneTotal, Packets
<1>1. RunOrHeld'
  <2> SUFFICES ASSUME NEW d \in Calls PROVE RunOrHeldCall(d)'
    BY DEF RunOrHeld
  <2>1. CASE d = c
    <3>1. /\ Indexes(pieces'[d]) # {}
          /\ \A i \in Indexes(pieces'[d]) : arrived'[d][i] = 0
      BY SMT, <2>1, <1>c, <1>n, <1>s, IndexesInIdx DEF Untouched, IInv, TypeOK
    <3> QED
      BY SMT, <3>1 DEF RunOrHeldCall
  <2>2. CASE d # c
    <3>1. pieces'[d] = pieces[d]
      BY <2>2, <1>s DEF IInv, TypeOK
    <3> QED
      BY <3>1, <1>s, SameRunOrHeld DEF ReceivedInv, RunOrHeld
  <2>3. QED
    BY <2>1, <2>2
<1>2. OneTotal'
  <2>1. Responses' = Responses
    BY <1>b, <1>s DEF Responses
  <2>2. QED
    BY <2>1, <1>s, <1>f, <1>c DEF ReceivedInv, OneTotal, IInv, TypeOK
<1>3. FedIsKept'
  <2>1. \A d \in Calls : d # c => merger'[d] = merger[d] /\ phase'[d] = phase[d]
    BY <1>s, <1>c DEF IInv, TypeOK, MergersOK
  <2>2. QED
    BY SMT, <2>1, <1>s, <1>f DEF ReceivedInv, FedIsKept, HasAnswer
<1>4. QED
  BY <1>1, <1>2, <1>3 DEF ReceivedInv

\* Steps of a call that only move it forward lose nothing.
LEMMA PhaseReceived ==
  ASSUME IInv, ReceivedInv, NEW c \in Calls,
         UNCHANGED <<merger, pieces, fed, held, mergers, handlers, executed, arrived,
                     expired, net>>,
         \A d \in Calls : d # c => UNCHANGED <<phase[d], rx[d]>>,
         phase'[c] # "none",
         HasAnswer(c) => HasAnswer(c)'
  PROVE  ReceivedInv'
<1>1. RunOrHeld'
  BY SameRunOrHeld DEF ReceivedInv, RunOrHeld
<1>2. OneTotal'
  <2>1. Responses' = Responses
    BY DEF Responses
  <2>2. \A q \in fed : q.call \in Calls
    BY DEF ReceivedInv, OneTotal, Packets
  <2>3. QED
    BY <2>1, <2>2 DEF ReceivedInv, OneTotal
<1>3. FedIsKept'
  <2>1. \A d \in Calls : HasAnswer(d) => HasAnswer(d)'
    BY DEF HasAnswer
  <2>2. \A q \in fed : q.call \in Calls
    BY DEF ReceivedInv, OneTotal, Packets
  <2>3. QED
    BY <2>1, <2>2 DEF ReceivedInv, FedIsKept
<1>4. QED
  BY <1>1, <1>2, <1>3 DEF ReceivedInv

LEMMA HandleRpcReceived ==
  ASSUME IInv, ReceivedInv, NEW h \in handlers, NEW n \in Totals, HandleRpc(h, n)
  PROVE  ReceivedInv'
<1>s. /\ UNCHANGED <<merger, pieces, fed, held, mergers, executed, arrived, expired,
                     phase, rx>>
      /\ handlers' = handlers \ {h}
      /\ net' = net \cup build_rpc_packet(h.call, h.by, n)
  BY DEF HandleRpc, clientVars
<1>h. h.call \in Calls /\ h.by \in Nat /\ h.by \in 1..executed[h.call]
  BY DEF IInv, TypeOK, Origins
<1>b. \A p \in build_rpc_packet(h.call, h.by, n) :
         p.call = h.call /\ p.by = h.by /\ p.total = n /\ p.idx \in Indexes(n)
  BY SMT, <1>h, BuiltPackets
<1>1. RunOrHeld' /\ FedIsKept'
  <2>1. RunOrHeld'
    BY <1>s, SameRunOrHeld DEF ReceivedInv, RunOrHeld
  <2>2. FedIsKept'
    BY <1>s DEF ReceivedInv, FedIsKept, HasAnswer
  <2> QED BY <2>1, <2>2
<1>2. OneTotal'
  <2>1. Responses' \subseteq Responses \cup build_rpc_packet(h.call, h.by, n)
    BY <1>s DEF Responses
  <2>2. \A p \in Responses : p.call = h.call => p.by # h.by
    BY DEF ReceivedInv, OneTotal
  <2>3. \A p \in Responses' : p.by \in 1..executed[p.call] /\ p.idx \in Indexes(p.total)
    BY <2>1, <1>b, <1>h DEF ReceivedInv, OneTotal
  <2>4. \A p, q \in Responses' : p.call = q.call /\ p.by = q.by => p.total = q.total
    BY <2>1, <2>2, <1>b DEF ReceivedInv, OneTotal
  <2>5. ASSUME NEW g \in handlers', NEW p \in Responses', p.call = g.call
        PROVE  p.by # g.by
    <3>1. CASE p \in Responses
      BY <3>1, <2>5, <1>s DEF ReceivedInv, OneTotal
    <3>2. CASE p \in build_rpc_packet(h.call, h.by, n)
      <4>1. g # h /\ g \in [call : Calls, by : Nat] /\ h \in [call : Calls, by : Nat]
        BY <1>s DEF IInv, TypeOK
      <4>2. QED
        BY SMT, <4>1, <3>2, <1>b, <2>5
    <3>3. QED
      BY <3>1, <3>2, <2>1
  <2>6. QED
    BY <2>3, <2>4, <2>5, <1>s DEF ReceivedInv, OneTotal
<1>3. QED
  BY <1>1, <1>2 DEF ReceivedInv

LEMMA ExpireMergerReceived ==
  ASSUME IInv, ReceivedInv, NEW k \in held, ExpireMerger(k)
  PROVE  ReceivedInv'
<1>s. /\ UNCHANGED <<merger, pieces, fed, handlers, executed, arrived, net, phase, rx>>
      /\ held' = held \ {k}
      /\ mergers' = [mergers EXCEPT ![k] = NewMerger]
      /\ expired' = expired \cup {mergers[k].first}
      /\ k \in Calls
  BY DEF ExpireMerger, clientVars, IInv, TypeOK
<1>1. RunOrHeld'
  <2> SUFFICES ASSUME NEW d \in Calls, executed[d] = 0, d \notin expired'
               PROVE  /\ \E i \in Indexes(pieces[d]) : arrived[d][i] = 0
                      /\ \A i \in Indexes(pieces[d]) :
                            arrived[d][i] > 0 => d \in held' /\ mergers'[d].first = d
                                                 /\ mergers'[d].at[i] # {}
    BY <1>s DEF RunOrHeld, RunOrHeldCall
  <2>1. d \notin expired
    BY <1>s
  <2>2. CASE d = k
    BY <2>1, <2>2, <1>s DEF ReceivedInv, RunOrHeld, RunOrHeldCall
  <2>3. CASE d # k
    <3>1. mergers'[d] = mergers[d] /\ (d \in held => d \in held')
      BY <2>3, <1>s DEF IInv, TypeOK, MergersOK
    <3>2. RunOrHeldCall(d)
      BY DEF ReceivedInv, RunOrHeld
    <3> QED
      BY <2>1, <3>1, <3>2 DEF RunOrHeldCall
  <2>4. QED
    BY <2>2, <2>3
<1>2. OneTotal'
  <2>1. Responses' = Responses
    BY <1>s DEF Responses
  <2>2. QED
    BY <2>1, <1>s DEF ReceivedInv, OneTotal
<1>3. FedIsKept'
  BY <1>s DEF ReceivedInv, FedIsKept, HasAnswer
<1>4. QED
  BY <1>1, <1>2, <1>3 DEF ReceivedInv

LEMMA RecvRequestReceived ==
  ASSUME IInv, ReceivedInv, NEW p \in net, RecvRequest(p)
  PROVE  ReceivedInv'
<1> DEFINE c == p.call
<1> DEFINE o == IF c \in held THEN mergers[c] ELSE NewMerger
<1> DEFINE m == feed(o, p)
<1>p. p \in Packets /\ c \in Calls /\ p.by = 0 /\ p.idx \in Idx /\ p.total \in 0..MaxPieces
      /\ p.idx \in Indexes(p.total) /\ p.total = pieces[c]
  <2>1. p \in Packets /\ c \in Calls /\ p.by = 0 /\ p.idx \in Idx /\ p.total \in 0..MaxPieces
    BY SMT, Bounds DEF IInv, TypeOK, Packets, RecvRequest, IsRequest, Totals
  <2>2. p = RequestPiece(c, p.idx) /\ p.idx \in Indexes(pieces[c])
    BY <2>1 DEF IInv, Origins
  <2>3. QED
    BY SMT, <2>1, <2>2 DEF RequestPiece
<1>a. net' \subseteq net
  BY ArriveFacts DEF RecvRequest, IInv
<1>s. /\ UNCHANGED <<phase, merger, rx, pieces, fed, expired>>
      /\ arrived' = [arrived EXCEPT ![c][p.idx] = arrived[c][p.idx] + 1]
  BY DEF RecvRequest, clientVars
<1>i. \/ /\ try_merge_pieces(m, p)
         /\ held' = held \ {c}
         /\ mergers' = [mergers EXCEPT ![c] = NewMerger]
         /\ handlers' = handlers \cup {[call |-> c, by |-> executed[c] + 1]}
         /\ executed' = [executed EXCEPT ![c] = executed[c] + 1]
      \/ /\ ~ try_merge_pieces(m, p)
         /\ held' = held \cup {c}
         /\ mergers' = [mergers EXCEPT ![c] = m]
         /\ UNCHANGED <<handlers, executed>>
  BY DEF RecvRequest, PacketMergerKey
<1>r. Responses' \subseteq Responses
  BY <1>a, <1>s DEF Responses
<1>q. \A q \in fed : q.call \in Calls /\ q.by \in 1..executed[q.call]
  BY DEF ReceivedInv, OneTotal, Packets, Responses
<1> HIDE DEF o
<1>1. RunOrHeld'
  <2> SUFFICES ASSUME NEW d \in Calls, executed'[d] = 0, d \notin expired
               PROVE  /\ \E i \in Indexes(pieces[d]) : arrived'[d][i] = 0
                      /\ \A i \in Indexes(pieces[d]) :
                            arrived'[d][i] > 0 => d \in held' /\ mergers'[d].first = d
                                                 /\ mergers'[d].at[i] # {}
    BY <1>s DEF RunOrHeld, RunOrHeldCall
  <2>1. CASE d # c
    <3>1. executed'[d] = executed[d] /\ arrived'[d] = arrived[d]
          /\ (d \in held' <=> d \in held) /\ mergers'[d] = mergers[d]
      <4> HIDE DEF c, m
      <4>1. QED
        BY SMT, <2>1, <1>i, <1>s, <1>p DEF IInv, TypeOK, MergersOK
    <3>2. executed[d] = 0
      BY <3>1
    <3>3. QED
      <4> HIDE DEF c, m
      <4>1. /\ \E i \in Indexes(pieces[d]) : arrived[d][i] = 0
            /\ \A i \in Indexes(pieces[d]) :
                  arrived[d][i] > 0 => d \in held /\ mergers[d].first = d /\ mergers[d].at[i] # {}
        BY <3>2 DEF ReceivedInv, RunOrHeld, RunOrHeldCall
      <4>2. QED
        BY <4>1, <3>1
  <2>2. CASE d = c
    <3>1. /\ ~ try_merge_pieces(m, p)
          /\ held' = held \cup {c}
          /\ mergers' = [mergers EXCEPT ![c] = m]
          /\ executed[c] = 0
      <4> HIDE DEF c, m
      <4>1. executed[c] \in Nat /\ executed \in [Calls -> Nat]
        BY <1>p DEF IInv, TypeOK
      <4>2. executed' # [executed EXCEPT ![c] = executed[c] + 1]
        BY SMT, <4>1, <2>2, <1>p
      <4>3. QED
        BY <4>2, <1>i, <2>2
    <3>2. c \in held' /\ mergers'[c] = m
      BY <3>1, <1>p DEF IInv, TypeOK, MergersOK
    <3>3. p.total # 0 /\ p.total \in Nat /\ Indexes(pieces[c]) = 0..(p.total - 1)
          /\ Indexes(pieces[c]) \subseteq Idx
      BY SMT, <3>1, <1>p, IndexesInIdx DEF try_merge_pieces, Indexes
    <3>4. \A i \in Idx : /\ arrived[c][i] \in Nat
                         /\ i # p.idx => arrived'[c][i] = arrived[c][i]
                         /\ arrived'[c][i] \in Nat
      <4> HIDE DEF c, m
      <4>1. arrived \in [Calls -> [Idx -> Nat]] /\ arrived[c] \in [Idx -> Nat]
            /\ arrived[c][p.idx] + 1 \in Nat
        BY SMT, <1>p DEF IInv, TypeOK
      <4>2. arrived'[c] = [arrived[c] EXCEPT ![p.idx] = arrived[c][p.idx] + 1]
        BY <4>1, <1>s, <1>p
      <4>3. QED
        BY <4>1, <4>2, <1>p
    <3>5. m.first = c /\ m.at[p.idx] = {p.by}
      BY <3>3, <1>p DEF feed
    <3>6. ASSUME NEW i \in Indexes(pieces[c]), arrived'[c][i] > 0, i # p.idx
          PROVE  m.at[i] # {}
      <4>1. arrived[c][i] > 0 /\ i \in Idx
        BY <3>3, <3>4, <3>6
      <4>2. c \in held /\ mergers[c].first = c /\ mergers[c].at[i] # {}
        BY <4>1, <3>1, <2>2 DEF ReceivedInv, RunOrHeld, RunOrHeldCall
      <4>3. o = mergers[c]
        BY <4>2 DEF o
      <4>4. i < p.total
        BY SMT, <3>3
      <4>5. m.at[i] = o.at[i]
        BY <4>1, <4>2, <4>3, <4>4, <3>3, <3>6 DEF feed
      <4>6. QED
        BY <4>5, <4>3, <4>2
    <3>7. \A i \in Indexes(pieces[c]) : arrived'[c][i] > 0 => m.at[i] # {}
      BY <3>5, <3>6
    <3>8. PICK i \in 0..(p.total - 1) : m.at[i] = {}
      BY <3>1 DEF try_merge_pieces, Missing
    <3>9. i \in Indexes(pieces[c]) /\ i \in Idx /\ arrived'[c][i] \in Nat
      BY <3>3, <3>4
    <3>10. arrived'[c][i] = 0
      BY SMT, <3>7, <3>8, <3>9
    <3>11. QED
      BY <3>2, <3>5, <3>7, <3>9, <3>10, <2>2
  <2>3. QED
    BY <2>1, <2>2
<1> HIDE DEF c, m
<1>e. /\ executed \in [Calls -> Nat] /\ executed[c] \in Nat
      /\ \A d \in Calls : executed'[d] \in Nat /\ executed'[d] >= executed[d]
      /\ \A d \in Calls : d # c => executed'[d] = executed[d]
      /\ executed'[c] \in {executed[c], executed[c] + 1}
  <2>1. executed \in [Calls -> Nat] /\ executed[c] \in Nat
    BY <1>p DEF IInv, TypeOK
  <2>2. executed' = executed \/ executed' = [executed EXCEPT ![c] = executed[c] + 1]
    BY <1>i
  <2>3. QED
    BY SMT, <2>1, <2>2, <1>p
<1>t. \A q \in Responses : q.call \in Calls /\ q.by \in 1..executed[q.call]
  BY DEF ReceivedInv, OneTotal, Responses, IInv, TypeOK, Packets
<1>2. OneTotal'
  <2>1. \A q \in Responses' : q.by \in 1..executed'[q.call] /\ q.idx \in Indexes(q.total)
    <3>1. ASSUME NEW q \in Responses PROVE q.by \in 1..executed'[q.call]
      <4>1. executed'[q.call] \in Nat /\ executed[q.call] \in Nat
            /\ executed'[q.call] >= executed[q.call]
        BY <1>t, <1>e
      <4>2. QED
        BY SMT, <4>1, <1>t
    <3>2. QED
      BY <3>1, <1>r DEF ReceivedInv, OneTotal
  <2>2. \A q \in fed' : q \in Packets /\ phase'[q.call] # "none"
    BY <1>s DEF ReceivedInv, OneTotal
  <2>3. \A q, r \in Responses' : q.call = r.call /\ q.by = r.by => q.total = r.total
    BY <1>r DEF ReceivedInv, OneTotal
  <2>4. ASSUME NEW h \in handlers', NEW q \in Responses', q.call = h.call
        PROVE  q.by # h.by
    <3>1. CASE h \in handlers
      BY <3>1, <2>4, <1>r DEF ReceivedInv, OneTotal
    <3>2. CASE h = [call |-> c, by |-> executed[c] + 1]
      <4>1. h.call = c /\ h.by = executed[c] + 1
        BY <3>2
      <4>2. q.by \in 1..executed[c]
        BY <4>1, <2>4, <1>r, <1>t
      <4>3. QED
        BY SMT, <4>1, <4>2, <1>e
    <3>3. QED
      BY <3>1, <3>2, <1>i
  <2>5. QED
    BY <2>1, <2>2, <2>3, <2>4 DEF OneTotal
<1>3. FedIsKept'
  <2> SUFFICES ASSUME NEW q \in fed, executed'[q.call] = 1, ~ HasAnswer(q.call)
               PROVE  /\ q.total # 0
                      /\ merger[q.call].first = q.call
                      /\ merger[q.call].at[q.idx] # {}
                      /\ ~ (build_rpc_packet(q.call, q.by, q.total) \subseteq fed)
    BY <1>s DEF FedIsKept, HasAnswer
  <2>1. executed[q.call] = 1
    <3>1. q.call \in Calls /\ q.by \in 1..executed[q.call] /\ executed[q.call] \in Nat
      BY <1>q, <1>e
    <3>2. executed'[q.call] \in {executed[q.call], executed[q.call] + 1}
      BY <3>1, <1>e
    <3>3. QED
      BY SMT, <3>1, <3>2
  <2>2. QED
    BY <2>1 DEF ReceivedInv, FedIsKept
<1>4. QED
  BY <1>1, <1>2, <1>3 DEF ReceivedInv

LEMMA RecvResponseReceived ==
  ASSUME IInv, ReceivedInv, NEW p \in net, RecvResponse(p)
  PROVE  ReceivedInv'
<1> DEFINE c == p.call
<1> DEFINE m == feed(merger[c], p)
<1>p. p \in Packets /\ c \in Calls /\ p.by # 0 /\ p.idx \in Idx /\ p.total \in 0..MaxPieces
      /\ p \in Responses
  BY SMT, Bounds DEF IInv, TypeOK, Packets, RecvResponse, IsRequest, Totals, Responses
<1>a. net' \subseteq net
  BY ArriveFacts DEF RecvResponse, IInv
<1>s. UNCHANGED <<phase, inflight, pieces, held, mergers, handlers, executed, arrived, expired>>
  BY DEF RecvResponse, serverVars
<1>i. IF c \in inflight
      THEN /\ merger' = [merger EXCEPT ![c] = m]
           /\ fed' = fed \cup {p}
           /\ IF ~ try_merge_pieces(m, p)
              THEN rx' = rx
              ELSE rx' = [rx EXCEPT ![c] = IF rx[c] = NoAnswer THEN Body(m, p) ELSE rx[c]]
      ELSE UNCHANGED <<merger, fed, rx>>
  BY DEF RecvResponse, HasReceiver, IInv, CallState
<1>r. Responses' \subseteq Responses
  <2>1. fed' \subseteq fed \cup {p}
    <3> HIDE DEF c, m
    <3>1. QED
      BY <1>i
  <2>2. QED
    BY <2>1, <1>a, <1>p DEF Responses
<1>1. RunOrHeld'
  BY <1>s, SameRunOrHeld DEF ReceivedInv, RunOrHeld
<1>2. OneTotal'
  <2>1. ASSUME NEW q \in fed' PROVE q \in Packets /\ phase[q.call] # "none"
    <3> HIDE DEF m
    <3>1. CASE q \in fed
      BY <3>1 DEF ReceivedInv, OneTotal
    <3>2. CASE q = p /\ c \in inflight
      BY <3>2, <1>p DEF IInv, CallState
    <3>3. QED
      BY <2>1, <3>1, <3>2, <1>i
  <2>2. QED
    BY <2>1, <1>r, <1>s DEF ReceivedInv, OneTotal
<1>3. FedIsKept'
  <2> SUFFICES ASSUME NEW q \in fed', executed[q.call] = 1, ~ HasAnswer(q.call)'
               PROVE  /\ q.total # 0
                      /\ merger'[q.call].first = q.call
                      /\ merger'[q.call].at[q.idx] # {}
                      /\ ~ (build_rpc_packet(q.call, q.by, q.total) \subseteq fed')
    BY <1>s DEF FedIsKept, build_rpc_packet
  <2>t. q \in Responses /\ q.call \in Calls
    BY <1>r DEF Responses, OneTotal, ReceivedInv, IInv, TypeOK, Packets
  <2>1. CASE c \notin inflight
    <3> HIDE DEF m
    <3>1. UNCHANGED <<merger, fed, rx>>
      BY <2>1, <1>i
    <3>2. q \in fed /\ ~ HasAnswer(q.call)
      BY <3>1, <1>s DEF HasAnswer
    <3>3. QED
      BY <3>1, <3>2 DEF ReceivedInv, FedIsKept
  <2>2. CASE c \in inflight /\ q.call # c
    <3>1. merger'[q.call] = merger[q.call] /\ rx'[q.call] = rx[q.call] /\ fed' = fed \cup {p}
      <4> HIDE DEF c, m
      <4>1. QED
        BY <2>2, <2>t, <1>i, <1>p DEF IInv, TypeOK, MergersOK
    <3>2. q \in fed /\ ~ HasAnswer(q.call)
      BY <3>1, <2>2, <1>s DEF HasAnswer
    <3>3. /\ q.total # 0
          /\ merger[q.call].first = q.call
          /\ merger[q.call].at[q.idx] # {}
          /\ ~ (build_rpc_packet(q.call, q.by, q.total) \subseteq fed)
      BY <3>2 DEF ReceivedInv, FedIsKept
    <3>4. \A r \in build_rpc_packet(q.call, q.by, q.total) : r # p
      BY SMT, <2>2 DEF build_rpc_packet
    <3>5. QED
      <4> HIDE DEF c, m
      <4>1. QED
        BY <3>1, <3>3, <3>4
  <2>3. CASE c \in inflight /\ q.call = c
    <3>1. /\ merger'[c] = m
          /\ fed' = fed \cup {p}
      <4> HIDE DEF c, m
      <4>1. QED
        BY <2>3, <1>i, <1>p DEF IInv, TypeOK, MergersOK
    <3>2. \A r \in fed' : r.call = c => r.by = 1 /\ r.total = p.total /\ r.idx \in Indexes(p.total)
      <4>1. \A r \in Responses : r.call = c => r.by = 1
        BY SMT, <2>3 DEF ReceivedInv, OneTotal
      <4>2. \A r \in Responses : r.call = c => r.total = p.total /\ r.idx \in Indexes(r.total)
        BY <4>1, <1>p DEF ReceivedInv, OneTotal
      <4>3. \A r \in fed' : r \in Responses
        BY <1>r DEF Responses
      <4>4. QED
        BY <4>1, <4>2, <4>3
    <3>3. p.by = 1 /\ p.idx \in Indexes(p.total)
      BY <3>1, <3>2
    <3>4. ~ try_merge_pieces(m, p)
      <4> SUFFICES ASSUME try_merge_pieces(m, p) PROVE FALSE
        OBVIOUS
      <4>1. rx'[c] = IF rx[c] = NoAnswer THEN Body(m, p) ELSE rx[c]
        <5> HIDE DEF c, m
        <5>1. QED
          BY <2>3, <1>i, <1>p DEF IInv, TypeOK
      <4>2. Body(m, p) # {}
        <5> HIDE DEF m
        <5>1. CASE p.total = 0
          BY <5>1 DEF Body
        <5>2. CASE p.total # 0
          <6>1. 0 \in 0..(p.total - 1)
            BY SMT, <5>2, <1>p, Bounds
          <6>2. m.at[0] # {}
            BY <6>1, <5>2 DEF try_merge_pieces, Missing
          <6>3. QED
            BY <6>1, <6>2, <5>2 DEF Body
        <5>3. QED
          BY <5>1, <5>2
      <4>3. rx'[c] # {}
        <5> HIDE DEF c, m
        <5>1. QED
          BY <4>1, <4>2 DEF NoAnswer
      <4>4. QED
        BY <4>3, <2>3 DEF HasAnswer
    <3>5. ~ HasAnswer(c)
      <4>1. rx' = rx
        <5> HIDE DEF c, m
        <5>1. QED
          BY <3>4, <2>3, <1>i
      <4>2. QED
        BY <4>1, <2>3, <1>s DEF HasAnswer
    <3>6. p.total # 0 /\ p.total \in Nat /\ Indexes(p.total) = 0..(p.total - 1)
          /\ Indexes(p.total) \subseteq Idx
      BY SMT, <3>4, <1>p, IndexesInIdx DEF try_merge_pieces, Indexes
    <3>7. m.first = c /\ m.at[p.idx] = {p.by}
      BY <3>6, <1>p DEF feed
    <3>8. ASSUME NEW r \in fed, r.call = c
          PROVE  m.at[r.idx] # {}
      <4>1. merger[c].first = c /\ merger[c].at[r.idx] # {}
        BY <3>8, <3>5, <2>3 DEF ReceivedInv, FedIsKept
      <4>2. r.idx \in Idx /\ r.idx < p.total
        BY SMT, <3>1, <3>2, <3>6, <3>8
      <4>3. CASE r.idx = p.idx
        BY <4>3, <3>7
      <4>4. CASE r.idx # p.idx
        <5>1. m.at[r.idx] = merger[c].at[r.idx]
          BY <4>1, <4>2, <4>4, <3>6 DEF feed
        <5>2. QED
          BY <5>1, <4>1
      <4>5. QED
        BY <4>3, <4>4
    <3>9. \A r \in fed' : r.call = c => m.at[r.idx] # {}
      <4> HIDE DEF m
      <4>1. QED
        BY <3>1, <3>7, <3>8
    <3>10. PICK i \in 0..(p.total - 1) : m.at[i] = {}
      BY <3>4 DEF try_merge_pieces, Missing
    <3> HIDE DEF m
    <3>11. ~ (build_rpc_packet(c, q.by, q.total) \subseteq fed')
      <4> DEFINE r == [call |-> c, by |-> q.by, idx |-> i, total |-> q.total]
      <4>1. q.total = p.total
        BY <3>2, <2>3
      <4>2. r \in build_rpc_packet(c, q.by, q.total)
        BY <4>1, <3>6 DEF build_rpc_packet
      <4>3. r.call = c /\ r.idx = i
        OBVIOUS
      <4> HIDE DEF r
      <4>4. r \notin fed'
        BY <4>3, <3>9, <3>10
      <4>5. QED
        BY <4>2, <4>4
    <3>12. QED
      BY <3>1, <3>2, <3>6, <3>7, <3>9, <3>11, <2>3
  <2>4. QED
    BY <2>1, <2>2, <2>3
<1>4. QED
  BY <1>1, <1>2, <1>3 DEF ReceivedInv

LEMMA NextReceived == IInv /\ ReceivedInv /\ [Next]_vars => ReceivedInv'
<1> SUFFICES ASSUME IInv, ReceivedInv, [Next]_vars PROVE ReceivedInv'
  OBVIOUS
<1>1. CASE \E p \in Peers, n \in Totals : Begin(p, n)
  BY <1>1, BeginReceived
<1>2. ASSUME NEW c \in Calls, Recv(c) PROVE ReceivedInv'
  BY <1>2, PhaseReceived DEF Recv, serverVars, IInv, TypeOK, HasAnswer
<1>3. ASSUME NEW c \in Calls, Return(c) \/ Garbled(c) \/ Timeout(c) PROVE ReceivedInv'
  <2>1. PICK r \in Results : Leave(c, r)
    BY <1>3, ReturnLeaves
  <2>2. QED
    BY <2>1, PhaseReceived DEF Leave, serverVars, IInv, TypeOK, HasAnswer
<1>4. ASSUME NEW c \in Calls, DropReceiver(c) PROVE ReceivedInv'
  BY <1>4, PhaseReceived DEF DropReceiver, serverVars, IInv, TypeOK, HasAnswer
<1>5. CASE \E p \in net : RecvResponse(p)
  BY <1>5, RecvResponseReceived
<1>6. CASE \E p \in net : RecvRequest(p)
  BY <1>6, RecvRequestReceived
<1>7. CASE \E h \in handlers, n \in Totals : HandleRpc(h, n)
  BY <1>7, HandleRpcReceived
<1>8. CASE \E k \in held : ExpireMerger(k)
  BY <1>8, ExpireMergerReceived
<1>9. CASE UNCHANGED vars
  <2>1. Responses' = Responses
    BY <1>9 DEF vars, Responses
  <2>2. QED
    <3>1. RunOrHeld'
      BY <1>9, SameRunOrHeld DEF vars, ReceivedInv, RunOrHeld
    <3>2. OneTotal'
      BY <1>9, <2>1 DEF vars, ReceivedInv, OneTotal
    <3>3. FedIsKept'
      BY <1>9 DEF vars, ReceivedInv, FedIsKept, HasAnswer
    <3> QED BY <3>1, <3>2, <3>3 DEF ReceivedInv
<1>10. QED
  BY <1>1, <1>2, <1>3, <1>4, <1>5, <1>6, <1>7, <1>8, <1>9 DEF Next

\* What was received is not lost to another call's packets: the server runs a request
\* all of whose pieces it got and did not drop as too old (server.rs:141), and a call in
\* flight has the answer all of whose pieces its client got (client.rs:160).
THEOREM NothingReceivedIsLostAlways == SafeSpec => []NothingReceivedIsLost
<1>1. IInv /\ ReceivedInv => NothingReceivedIsLost
  <2> SUFFICES ASSUME IInv, ReceivedInv PROVE NothingReceivedIsLost
    OBVIOUS
  <2>1. ASSUME NEW c \in Begun, \A i \in Indexes(pieces[c]) : arrived[c][i] > 0
        PROVE  c \in expired \/ executed[c] > 0
    <3>1. c \in Calls /\ executed[c] \in Nat
      BY DEF Begun, IInv, TypeOK
    <3>2. ~ (executed[c] = 0 /\ c \notin expired)
      BY SMT, <3>1, <2>1 DEF ReceivedInv, RunOrHeld, RunOrHeldCall
    <3>3. QED
      BY SMT, <3>1, <3>2
  <2>2. QED
    BY <2>1 DEF NothingReceivedIsLost, ReceivedInv, FedIsKept, HasAnswer, NoAnswer
<1>2. QED
  BY <1>1, InitIInv, NextIInv, InitReceived, NextReceived, PTL DEF SafeSpec

-----------------------------------------------------------------------------
\* The refinement

LEMMA InitRefines == Init => Abs!Init
  BY DEF Init, Abs!Init, Abs!Idle

LEMMA NextRefines == IInv /\ [Next]_vars => [Abs!Next]_(Abs!vars)
<1> SUFFICES ASSUME IInv, [Next]_vars PROVE Abs!Next \/ UNCHANGED Abs!vars
  OBVIOUS
<1>1. CASE \E p \in Peers, n \in Totals : Begin(p, n)
  <2>1. PICK p \in Peers, n \in Totals : Begin(p, n)
    BY <1>1
  <2> DEFINE c == <<p, next[p]>>
  <2>2. c \in Calls /\ c[2] >= next[c[1]]
    BY SMT, <2>1, Bounds DEF Begin, IInv, TypeOK, Calls, Tids
  <2>3. result[c] = Abs!Idle
    BY <2>2 DEF IInv, NewCalls, CallState
  <2>4. Abs!Begin(c)
    BY <2>1, <2>3 DEF Begin, serverVars, Abs!Begin, Abs!Open
  <2> HIDE DEF c
  <2>5. QED
    BY <2>2, <2>4 DEF Abs!Next
<1>2. CASE \E c \in Calls : Recv(c) \/ DropReceiver(c)
  BY <1>2 DEF Recv, DropReceiver, serverVars, Abs!vars
<1>3. CASE \E c \in Calls : Return(c) \/ Garbled(c) \/ Timeout(c)
  <2>1. PICK c \in Calls : Return(c) \/ Garbled(c) \/ Timeout(c)
    BY <1>3
  <2>2. PICK r \in Results :
          /\ Leave(c, r)
          /\ \/ r = Abs!Failed
             \/ r = Abs!AnsweredBy(rx[c]) /\ rx[c] # {} /\ rx[c] \subseteq 1..executed[c]
    BY <2>1, ReturnLeaves
  <2>3. result[c] = Abs!Open
    BY <2>1, ReturnLeaves DEF IInv, CallState
  <2>4. Abs!Fail(c) \/ Abs!Answer(c)
    BY <2>2, <2>3 DEF Leave, serverVars, Abs!Fail, Abs!Answer
  <2>5. QED
    BY <2>4 DEF Abs!Next, Abs!End
<1>4. CASE \E p \in net : RecvResponse(p)
  <2>1. PICK p \in net : RecvResponse(p)
    BY <1>4
  <2>2. duplicates' = duplicates \/ duplicates' = duplicates + 1
    BY <2>1, ArriveFacts DEF RecvResponse, IInv
  <2>3. QED
    BY <2>1, <2>2 DEF RecvResponse, serverVars, Abs!Next, Abs!Duplicate, Abs!vars
<1>5. CASE \E p \in net : RecvRequest(p)
  <2>1. PICK p \in net : RecvRequest(p)
    BY <1>5
  <2>2. duplicates' = duplicates \/ duplicates' = duplicates + 1
    BY <2>1, ArriveFacts DEF RecvRequest, IInv
  <2> DEFINE c == p.call
  <2>3. c \in Calls /\ result[c] # Abs!Idle
    <3>1. c \in Calls
      BY DEF IInv, TypeOK, Packets
    <3>2. phase[c] # "none"
      BY <3>1 DEF IInv, NewCalls, Untouched
    <3>3. QED
      BY <3>1, <3>2 DEF IInv, CallState
  <2>4. UNCHANGED result /\ (\/ UNCHANGED executed
                             \/ executed' = [executed EXCEPT ![c] = executed[c] + 1])
    BY <2>1 DEF RecvRequest, clientVars
  <2>5. CASE UNCHANGED executed
    BY <2>2, <2>4, <2>5 DEF Abs!Next, Abs!Duplicate, Abs!vars
  <2>6. CASE executed' = [executed EXCEPT ![c] = executed[c] + 1]
    <3>1. executed'[c] <= arrived'[c][0] /\ arrived'[c][0] <= duplicates' + 1
      <4>1. IInv'
        BY NextIInv
      <4>2. /\ pieces'[c] \in 0..MaxPieces /\ executed'[c] \in Nat
            /\ arrived' \in [Calls -> [Idx -> Nat]]
        BY <4>1, <2>3 DEF IInv, TypeOK
      <4>3. 0 \in Indexes(pieces'[c]) /\ 0 \in Idx
        BY <4>2, IndexesInIdx
      <4>4. executed'[c] + Holds(c, 0)' <= arrived'[c][0] /\ arrived'[c][0] <= duplicates' + 1
        BY <4>1, <4>3, <2>3 DEF IInv, Counted
      <4>5. Holds(c, 0)' \in {0, 1} /\ arrived'[c][0] \in Nat
        BY <4>2, <4>3, <2>3 DEF Holds
      <4>6. QED
        BY SMT, <4>2, <4>4, <4>5
    <3>2. executed'[c] = executed[c] + 1 /\ executed[c] \in Nat /\ duplicates' \in Nat
          /\ arrived'[c][0] \in Nat
      <4>1. IInv'
        BY NextIInv
      <4>2. 0 \in Idx
        BY SMT, Bounds DEF Idx
      <4>3. QED
        BY SMT, <4>1, <4>2, <2>3, <2>6, Bounds DEF IInv, TypeOK
    <3>3. executed[c] <= duplicates'
      BY SMT, <3>1, <3>2
    <3> HIDE DEF c
    <3>4. Abs!Execute(c) \/ Abs!DuplicateExecute(c)
      BY <2>2, <2>3, <2>4, <2>6, <3>3 DEF Abs!Execute, Abs!DuplicateExecute
    <3>5. QED
      BY <2>3, <3>4 DEF Abs!Next
  <2>7. QED
    BY <2>4, <2>5, <2>6
<1>6. CASE \E h \in handlers, n \in Totals : HandleRpc(h, n)
  BY <1>6 DEF HandleRpc, clientVars, Abs!vars
<1>7. CASE \E k \in held : ExpireMerger(k)
  BY <1>7 DEF ExpireMerger, clientVars, Abs!vars
<1>8. CASE UNCHANGED vars
  BY <1>8 DEF vars, Abs!vars
<1>9. QED
  BY <1>1, <1>2, <1>3, <1>4, <1>5, <1>6, <1>7, <1>8 DEF Next

\* The rpc layer implements the safety part of RpcCalls: a call ends once, is answered
\* only by its own executions, and is run at most once more than packets were duplicated.
THEOREM Refines == SafeSpec => SafelyImplements
<1>1. SafeSpec => [][Abs!Next]_(Abs!vars)
  BY IInvAlways, NextRefines, PTL DEF SafeSpec
<1>2. SafeSpec => Abs!Init
  BY InitRefines DEF SafeSpec
<1>3. QED
  BY <1>1, <1>2, PTL DEF SafelyImplements, Abs!SafeSpec
=============================================================================
