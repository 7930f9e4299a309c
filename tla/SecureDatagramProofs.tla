------------------------ MODULE SecureDatagramProofs ------------------------
(***************************************************************************)
(* SecureDatagram for every window width, every number of threads, epochs  *)
(* and packets: no packet is delivered twice, and none is turned away that *)
(* should be taken.                                                        *)
(*                                                                         *)
(* For the first, what is carried along is that the slots record whatever  *)
(* was delivered and not forgotten (Refused), so that a commit that        *)
(* accepts a packet cannot have accepted it before.  For the second it is  *)
(* the converse: that whatever the slots record was accepted, under the    *)
(* present root key (WelcomeInv).                                          *)
(***************************************************************************)
EXTENDS SecureDatagram, TLAPS

\* Most leaves of these proofs are first-order, and Zenon is their prover.  A leaf
\* that needs arithmetic, or more of functions and records, names SMT.
USE Zenon

(* The replay windows and receive slots: what accept, commit_replay and    *)
(* the giving up of windows keep recorded.                                 *)

(* Whatever was delivered, not given up and not exposed (X) is refused by  *)
(* the slots.                                                              *)
Blocked(d, X, r, g) ==
  \A e \in Epochs, s \in Seqs : <<e, s>> \notin X =>
    /\ d[e][s] <= 1
    /\ d[e][s] = 1 => ~Unseen(r, g, e, s)

(* The window after accept still refuses what it refused, and refuses the  *)
(* accepted number as well.                                                *)
LEMMA AcceptType ==
  ASSUME NEW w \in Windows, NEW s \in Seqs
  PROVE  Accept(w, s) \in Windows
  BY DEF Windows, Accept, Seqs

LEMMA AcceptRecords ==
  ASSUME NEW w \in Windows, NEW s \in Seqs
  PROVE  ~CanAccept(Accept(w, s), s)
  BY SMT, SecureDatagramConstants DEF Windows, Accept, CanAccept, Seqs

LEMMA AcceptKeeps ==
  ASSUME NEW w \in Windows, NEW s \in Seqs, NEW x \in Seqs, ~CanAccept(w, x)
  PROVE  ~CanAccept(Accept(w, s), x)
  BY SMT, SecureDatagramConstants DEF Windows, Accept, CanAccept, Seqs

SlotPairs == [{0, 1} -> Slots]

LEMMA NewSlotFacts ==
  ASSUME NEW e \in Epochs, NEW s \in Seqs
  PROVE  /\ NewSlot(e, s) \in Slots
         /\ NewSlot(e, s).valid
         /\ NewSlot(e, s).epoch = e
         /\ ~CanAccept(NewSlot(e, s).window, s)
<1>1. NoWindow \in Windows
  BY SMT, SecureDatagramConstants DEF NoWindow, Windows, Seqs
<1>2. Accept(NoWindow, s) \in Windows /\ ~CanAccept(Accept(NoWindow, s), s)
  BY <1>1, AcceptType, AcceptRecords
<1> QED BY <1>2 DEF NewSlot, Slots

(* Marking a number in the slot of its epoch changes no slot's epoch, and  *)
(* no window forgets.                                                      *)
LEMMA MarkFacts ==
  ASSUME NEW slots \in SlotPairs, NEW e \in Epochs, NEW s \in Seqs,
         EpochInSlots(slots, e)
  PROVE  /\ Mark(slots, e, s) \in SlotPairs
         /\ \A i \in {0, 1} : /\ Mark(slots, e, s)[i].valid = slots[i].valid
                              /\ Mark(slots, e, s)[i].epoch = slots[i].epoch
         /\ \A i \in {0, 1}, x \in Seqs :
              ~CanAccept(slots[i].window, x) => ~CanAccept(Mark(slots, e, s)[i].window, x)
         /\ ~CanAccept(Mark(slots, e, s)[SlotOf(slots, e)].window, s)
<1> DEFINE k == SlotOf(slots, e)
<1> DEFINE m == Mark(slots, e, s)
<1>1. k \in {0, 1} /\ slots[k].valid /\ slots[k].epoch = e
  BY DEF EpochInSlots, InSlot, SlotOf
<1>2. /\ slots[0] \in Slots /\ slots[1] \in Slots
      /\ slots[0].window \in Windows /\ slots[1].window \in Windows
  BY DEF SlotPairs, Slots
<1>3. /\ m = [i \in {0, 1} |-> m[i]]
      /\ m[k] = [valid |-> TRUE, epoch |-> e, window |-> Accept(slots[k].window, s)]
      /\ \A i \in {0, 1} : i # k => m[i] = slots[i]
  BY <1>1 DEF Mark
<1> HIDE DEF k, m
<1>4. Accept(slots[k].window, s) \in Windows
  BY <1>1, <1>2, AcceptType
<1>5. \A x \in Seqs : ~CanAccept(slots[k].window, x) => ~CanAccept(Accept(slots[k].window, s), x)
  BY <1>1, <1>2, AcceptKeeps
<1>6. ~CanAccept(Accept(slots[k].window, s), s)
  BY <1>1, <1>2, AcceptRecords
<1>7. m[k] \in Slots
  <2>1. [valid |-> TRUE, epoch |-> e, window |-> Accept(slots[k].window, s)] \in Slots
    BY <1>4 DEF Slots
  <2> QED BY <1>3, <2>1
<1>8. m \in SlotPairs
  BY <1>2, <1>3, <1>7 DEF SlotPairs
<1>9. slots[k].valid = TRUE
  BY <1>1, <1>2 DEF Slots
<1>10. \A i \in {0, 1} : m[i].valid = slots[i].valid /\ m[i].epoch = slots[i].epoch
  <2>1. m[k].valid = slots[k].valid /\ m[k].epoch = slots[k].epoch
    <3>1. m[k].valid = TRUE /\ m[k].epoch = e
      BY SMT, <1>3
    <3> QED BY <1>1, <1>9, <3>1
  <2> QED BY <1>3, <2>1
<1>11. \A i \in {0, 1}, x \in Seqs :
         ~CanAccept(slots[i].window, x) => ~CanAccept(m[i].window, x)
  BY SMT, <1>1, <1>3, <1>5
<1>12. ~CanAccept(m[k].window, s)
  BY SMT, <1>3, <1>6
<1> QED BY <1>8, <1>10, <1>11, <1>12 DEF k, m

(* Marking therefore changes neither which epochs have a slot nor where.   *)
LEMMA MarkPlaces ==
  ASSUME NEW slots \in SlotPairs, NEW e \in Epochs, NEW s \in Seqs,
         EpochInSlots(slots, e), NEW f \in Epochs
  PROVE  /\ EpochInSlots(Mark(slots, e, s), f) <=> EpochInSlots(slots, f)
         /\ SlotOf(Mark(slots, e, s), f) = SlotOf(slots, f)
         /\ SlotOf(slots, f) \in {0, 1}
  BY SMT, MarkFacts DEF EpochInSlots, InSlot, SlotOf

LEMMA CommitGraceType ==
  ASSUME NEW g \in SlotPairs, NEW e \in Epochs, NEW s \in Seqs
  PROVE  CommitGrace(g, e, s) \in SlotPairs
  BY MarkFacts DEF CommitGrace

LEMMA CommitRxType ==
  ASSUME NEW r \in SlotPairs, NEW g \in SlotPairs, NEW e \in Epochs, NEW s \in Seqs
  PROVE  CommitRx(r, g, e, s) \in SlotPairs
<1>1. Mark(r, e, s) \in SlotPairs \/ ~EpochInSlots(r, e)
  BY MarkFacts
<1>2. [r EXCEPT ![0] = NewSlot(e, s)] \in SlotPairs
  BY NewSlotFacts DEF SlotPairs
<1>3. [i \in {0, 1} |-> IF i = 0 THEN NewSlot(e, s) ELSE r[0]] \in SlotPairs
  BY NewSlotFacts DEF SlotPairs
<1> QED BY <1>1, <1>2, <1>3 DEF CommitRx

(* What commit_replay accepts is recorded by the slots it leaves.          *)
LEMMA CommitRecords ==
  ASSUME NEW r \in SlotPairs, NEW g \in SlotPairs, NEW e \in Epochs, NEW s \in Seqs,
         Fresh(r, g, e, s)
  PROVE  ~Unseen(CommitRx(r, g, e, s), CommitGrace(g, e, s), e, s)
<1> DEFINE r2 == CommitRx(r, g, e, s)
<1> DEFINE g2 == CommitGrace(g, e, s)
<1>1. CASE EpochInSlots(g, e)
  <2>1. g2 = Mark(g, e, s)
    BY <1>1 DEF CommitGrace
  <2>2. EpochInSlots(g2, e) /\ SlotOf(g2, e) = SlotOf(g, e)
    BY SMT, <1>1, <2>1, MarkPlaces
  <2>3. ~CanAccept(g2[SlotOf(g2, e)].window, s)
    BY <1>1, <2>1, <2>2, MarkFacts
  <2> QED BY <2>2, <2>3 DEF Unseen
<1>2. CASE ~EpochInSlots(g, e) /\ r[0].valid /\ EpochInSlots(r, e)
  <2>1. g2 = g /\ r2 = Mark(r, e, s)
    BY <1>2 DEF CommitGrace, CommitRx
  <2>2. EpochInSlots(r2, e) /\ SlotOf(r2, e) = SlotOf(r, e)
    BY SMT, <1>2, <2>1, MarkPlaces
  <2>3. ~CanAccept(r2[SlotOf(r2, e)].window, s)
    BY <1>2, <2>1, <2>2, MarkFacts
  <2>4. r2[0].valid
    BY SMT, <1>2, <2>1, MarkFacts
  <2> QED BY <1>2, <2>1, <2>2, <2>3, <2>4 DEF Unseen
<1>3. CASE ~EpochInSlots(g, e) /\ ~(r[0].valid /\ EpochInSlots(r, e))
  <2>1. ~r[0].valid \/ (~EpochInSlots(r, e) /\ e > r[0].epoch /\ ~TooFar(r, e))
    BY <1>3 DEF Fresh, Unseen
  <2>2. g2 = g /\ r2[0] = NewSlot(e, s)
    BY <1>3, <2>1 DEF CommitGrace, CommitRx, SlotPairs
  <2>3. InSlot(r2, 0, e) /\ EpochInSlots(r2, e) /\ SlotOf(r2, e) = 0
    BY SMT, <2>2, NewSlotFacts DEF InSlot, EpochInSlots, SlotOf
  <2>4. ~CanAccept(r2[SlotOf(r2, e)].window, s) /\ r2[0].valid
    BY SMT, <2>2, <2>3, NewSlotFacts
  <2> QED BY <1>3, <2>2, <2>3, <2>4 DEF Unseen
<1> QED BY <1>1, <1>2, <1>3

(* What the slots refuse as recorded or too old stays refused, unless the  *)
(* commit drops the slot of a newer epoch.                                 *)
LEMMA CommitKeeps ==
  ASSUME NEW r \in SlotPairs, NEW g \in SlotPairs, NEW e \in Epochs, NEW s \in Seqs,
         NEW f \in Epochs, NEW x \in Seqs,
         ~Unseen(r, g, f, x),
         <<f, x>> \notin Dropped(r, CommitRx(r, g, e, s))
  PROVE  ~Unseen(CommitRx(r, g, e, s), CommitGrace(g, e, s), f, x)
<1> DEFINE r2 == CommitRx(r, g, e, s)
<1> DEFINE g2 == CommitGrace(g, e, s)
<1>0. SlotOf(g, f) \in {0, 1} /\ SlotOf(r, f) \in {0, 1}
  BY DEF SlotOf
<1>1. /\ EpochInSlots(g2, f) <=> EpochInSlots(g, f)
      /\ SlotOf(g2, f) = SlotOf(g, f)
      /\ ~CanAccept(g[SlotOf(g, f)].window, x) => ~CanAccept(g2[SlotOf(g2, f)].window, x)
  BY SMT, <1>0, MarkPlaces, MarkFacts DEF CommitGrace
<1>2. CASE EpochInSlots(g, f)
  BY <1>1, <1>2 DEF Unseen
<1>3. CASE ~EpochInSlots(g, f)
  <2>1. /\ r[0].valid
        /\ EpochInSlots(r, f) => ~CanAccept(r[SlotOf(r, f)].window, x)
        /\ ~EpochInSlots(r, f) => ~(f > r[0].epoch)
    BY <1>3 DEF Unseen
  <2>2. SUFFICES /\ r2[0].valid
                 /\ EpochInSlots(r2, f) => ~CanAccept(r2[SlotOf(r2, f)].window, x)
                 /\ ~EpochInSlots(r2, f) => ~(f > r2[0].epoch)
    BY <1>1, <1>3 DEF Unseen
  <2>3. CASE r2 = r
    BY <2>1, <2>3
  <2>4. CASE ~EpochInSlots(g, e) /\ EpochInSlots(r, e)
    <3>1. r2 = Mark(r, e, s)
      BY <2>1, <2>4 DEF CommitRx
    <3>2. /\ EpochInSlots(r2, f) <=> EpochInSlots(r, f)
          /\ SlotOf(r2, f) = SlotOf(r, f)
      BY SMT, <2>4, <3>1, MarkPlaces
    <3>3. r2[0].valid = r[0].valid /\ r2[0].epoch = r[0].epoch
      BY SMT, <2>4, <3>1, MarkFacts
    <3>4. ~CanAccept(r[SlotOf(r, f)].window, x) => ~CanAccept(r2[SlotOf(r, f)].window, x)
      BY SMT, <1>0, <2>4, <3>1, MarkFacts
    <3> QED BY <2>1, <3>2, <3>3, <3>4
  <2>5. CASE ~EpochInSlots(g, e) /\ ~EpochInSlots(r, e) /\ r2 # r
    <3>1. /\ e > r[0].epoch
          /\ r2 = [i \in {0, 1} |-> IF i = 0 THEN NewSlot(e, s) ELSE r[0]]
      BY <2>1, <2>5 DEF CommitRx
    <3>2. r2[0] = NewSlot(e, s) /\ r2[1] = r[0]
      BY SMT, <3>1
    <3>3. r2[0].valid /\ r2[0].epoch = e
      BY SMT, <3>2, NewSlotFacts
    <3>4. r[0].epoch \in Epochs /\ r[1].epoch \in Epochs
      BY DEF SlotPairs, Slots
    <3>5. CASE InSlot(r, 0, f)
      <4>1. f # e /\ InSlot(r2, 1, f) /\ ~InSlot(r2, 0, f)
        BY <2>5, <3>2, <3>3, <3>5 DEF EpochInSlots, InSlot
      <4>2. EpochInSlots(r, f) /\ SlotOf(r, f) = 0 /\ SlotOf(r2, f) = 1
        BY <3>5, <4>1 DEF SlotOf, EpochInSlots
      <4>3. EpochInSlots(r2, f)
        BY <4>1 DEF EpochInSlots
      <4> QED BY <2>1, <3>2, <3>3, <4>2, <4>3
    <3>6. CASE ~InSlot(r, 0, f) /\ InSlot(r, 1, f)
      <4>1. f # e /\ r[1].valid /\ r[1].epoch = f
        BY <2>5, <3>6 DEF EpochInSlots, InSlot
      <4>2. r[0].epoch # f
        BY <2>1, <3>6 DEF InSlot
      <4>3. ~EpochInSlots(r2, f)
        BY <3>2, <3>3, <4>1, <4>2 DEF EpochInSlots, InSlot
      <4>4. r2[1] # r[1]
        BY <3>2, <4>1, <4>2
      <4>5. ~(f > e)
        BY <3>3, <4>1, <4>4 DEF Dropped, DropsNewer
      <4> QED BY <3>3, <4>3, <4>5
    <3>7. CASE ~InSlot(r, 0, f) /\ ~InSlot(r, 1, f)
      <4>1. ~(f > r[0].epoch) /\ r[0].epoch # f
        BY <2>1, <3>7 DEF EpochInSlots, InSlot
      <4>2. f < e
        BY SMT, <3>1, <3>4, <4>1 DEF Epochs
      <4>3. ~EpochInSlots(r2, f)
        BY SMT, <3>2, <3>3, <4>1, <4>2 DEF EpochInSlots, InSlot, Epochs
      <4>4. ~(f > e)
        BY SMT, <4>2 DEF Epochs
      <4> QED BY <3>3, <4>3, <4>4
    <3> QED BY <3>5, <3>6, <3>7
  <2>6. CASE EpochInSlots(g, e)
    BY <2>3, <2>6 DEF CommitRx
  <2> QED BY <2>3, <2>4, <2>5, <2>6
<1> QED BY <1>2, <1>3

Counts == [Epochs -> [Seqs -> Nat]]

(* Giving up windows forgets what they no longer refuse, but for what is   *)
(* recorded and exposed.                                                   *)
LEMMA ForgetBlocks ==
  ASSUME NEW d \in Counts, NEW X, NEW r \in SlotPairs, NEW g \in SlotPairs,
         \A e \in Epochs, s \in Seqs : <<e, s>> \notin X => d[e][s] <= 1
  PROVE  /\ Forget(d, r, g) \in Counts
         /\ Blocked(Forget(d, r, g), X \cup Exposed(r, g), r, g)
<1> DEFINE f == Forget(d, r, g)
<1>1. \A e \in Epochs, s \in Seqs :
        f[e][s] = IF Unseen(r, g, e, s) /\ ~Recorded(r, g, e, s) THEN 0 ELSE d[e][s]
  BY DEF Forget
<1>2. \A e \in Epochs, s \in Seqs : d[e][s] \in Nat
  BY DEF Counts
<1>3. f \in Counts
  BY <1>2 DEF Forget, Counts
<1> HIDE DEF f
<1>4. ASSUME NEW e \in Epochs, NEW s \in Seqs, <<e, s>> \notin X \cup Exposed(r, g)
      PROVE  f[e][s] <= 1 /\ (f[e][s] = 1 => ~Unseen(r, g, e, s))
  <2>1. ~(Unseen(r, g, e, s) /\ Recorded(r, g, e, s)) /\ d[e][s] <= 1
    BY <1>4 DEF Exposed
  <2> QED BY SMT, <1>1, <1>2, <2>1
<1> QED BY <1>3, <1>4 DEF Blocked, f

(* Empty slots expose nothing.                                             *)
LEMMA NoneExposed ==
  ASSUME NEW g
  PROVE  Exposed(NoSlots, g) = {}
<1>1. \A e : ~EpochInSlots(NoSlots, e)
  BY DEF NoSlots, NoSlot, EpochInSlots, InSlot
<1> QED BY <1>1 DEF Exposed, Unseen, Recorded

LEMMA NoSlotsType == NoSlots \in SlotPairs
  BY SMT, SecureDatagramConstants
     DEF NoSlots, NoSlot, NoWindow, SlotPairs, Slots, Windows, Seqs, Epochs

LEMMA AgedFacts ==
  ASSUME rx \in SlotPairs, grace \in SlotPairs, NEW a \in Aged
  PROVE  /\ a[1] \in SlotPairs
         /\ a[2] \in SlotPairs
         /\ timeouts < MaxTimeouts \/ (a[1] = rx /\ a[2] = grace)
<1>1. ASSUME NEW slots \in SlotPairs, NEW v \in Evicted(slots)
      PROVE  v \in SlotPairs
  <2>1. PICK idle \in SUBSET {i \in {0, 1} : slots[i].valid} : v = Evict(slots, idle)
    BY DEF Evicted
  <2>2. NoSlot \in Slots
    BY NoSlotsType DEF NoSlots, SlotPairs
  <2> QED BY <2>1, <2>2 DEF Evict, SlotPairs
<1>2. CASE timeouts < MaxTimeouts
  <2>1. a[1] \in Evicted(rx) /\ a[2] \in {NoSlots} \cup Evicted(grace)
    BY <1>2 DEF Aged
  <2> QED BY <1>1, <1>2, <2>1, NoSlotsType
<1>3. CASE ~(timeouts < MaxTimeouts)
  BY SMT, <1>3 DEF Aged
<1> QED BY <1>2, <1>3

LEMMA CommitBlocks ==
  ASSUME NEW r \in SlotPairs, NEW g \in SlotPairs, NEW e \in Epochs, NEW s \in Seqs,
         NEW kept \in Counts, NEW X, Blocked(kept, X, r, g),
         NEW r2, r2 = CommitRx(r, g, e, s),
         NEW g2, g2 = CommitGrace(g, e, s),
         NEW d, d = IF Fresh(r, g, e, s) THEN [kept EXCEPT ![e][s] = @ + 1] ELSE kept
  PROVE  d \in Counts /\ Blocked(d, X \cup Dropped(r, r2), r2, g2)
<1> DEFINE Y == X \cup Dropped(r, r2)
<1>1. \A f \in Epochs, x \in Seqs : kept[f][x] \in Nat
  BY DEF Counts
<1>2. ASSUME NEW f \in Epochs, NEW x \in Seqs, <<f, x>> \notin Y
      PROVE  /\ kept[f][x] <= 1
             /\ kept[f][x] = 1 => ~Unseen(r, g, f, x) /\ ~Unseen(r2, g2, f, x)
  BY <1>2, CommitKeeps DEF Blocked
<1>3. CASE ~Fresh(r, g, e, s)
  BY <1>2, <1>3 DEF Blocked
<1>4. CASE Fresh(r, g, e, s)
  <2>1. d = [kept EXCEPT ![e][s] = @ + 1]
    BY <1>4
  <2>2. /\ d \in Counts
        /\ d[e][s] = kept[e][s] + 1
        /\ \A f \in Epochs, x \in Seqs : f # e \/ x # s => d[f][x] = kept[f][x]
    BY SMT, <1>1, <2>1 DEF Counts
  <2>3. ~Unseen(r2, g2, e, s) /\ Unseen(r, g, e, s)
    BY <1>4, CommitRecords DEF Fresh
  <2> HIDE DEF Y
  <2>4. ASSUME NEW f \in Epochs, NEW x \in Seqs, <<f, x>> \notin Y
        PROVE  d[f][x] <= 1 /\ (d[f][x] = 1 => ~Unseen(r2, g2, f, x))
    <3>1. CASE f = e /\ x = s
      <4>1. kept[e][s] <= 1 /\ kept[e][s] # 1
        BY <1>2, <2>3, <2>4, <3>1
      <4>2. d[e][s] = 1
        BY SMT, <1>1, <2>2, <4>1
      <4> QED BY SMT, <2>3, <3>1, <4>2
    <3>2. CASE f # e \/ x # s
      BY <1>2, <2>2, <2>4, <3>2
    <3> QED BY <3>1, <3>2
  <2>5. Blocked(d, Y, r2, g2)
    BY <2>4 DEF Blocked
  <2> QED BY <2>2, <2>5 DEF Y
<1> QED BY <1>3, <1>4

LEMMA ExposedType ==
  ASSUME NEW r \in SlotPairs, NEW g, NEW r2
  PROVE  Exposed(r, g) \cup Dropped(r, r2) \subseteq Epochs \X Seqs
<1>1. r[1].epoch \in Epochs
  BY DEF SlotPairs, Slots
<1>2. Dropped(r, r2) \subseteq Epochs \X Seqs
  BY <1>1 DEF Dropped
<1> QED BY <1>2 DEF Exposed

-----------------------------------------------------------------------------
Refused == Blocked(delivered, exposed, rx, grace)

IInv == TypeOK /\ Refused

(***************************************************************************)
(* The invariant.                                                          *)
(***************************************************************************)

LEMMA InitEstablishes == Init => IInv
<1> SUFFICES ASSUME Init PROVE IInv
  OBVIOUS
<1>1. rx \in SlotPairs /\ grace \in SlotPairs
  BY NoSlotsType DEF Init
<1>2. /\ snd \in [key : Keys, epoch : Epochs, seq : Nat]
      /\ net \subseteq Packets /\ answers \subseteq Answers
      /\ nsync \in 0 .. MaxSync /\ timeouts \in 0 .. MaxTimeouts
      /\ root \in Keys /\ sendEpoch \in Epochs
      /\ valid \in BOOLEAN /\ fails \in Nat
  BY SMT, SecureDatagramConstants DEF Init, Keys, Epochs
<1>3. cache \in [{0, 1} -> [valid : BOOLEAN, epoch : Epochs, key : Keys \cup {0}]]
  BY SMT, SecureDatagramConstants DEF Init, NoKeys, NoKey, Epochs
<1>4. thr \in [Threads -> [pc : {"idle", "open", "commit"}, pkt : Packets]]
  BY SMT, SecureDatagramConstants
     DEF Init, IdleThread, NoPacket, Packets, Keys, Epochs, Seqs
<1>5. syn \in [pc : {"idle", "epoch", "rx", "cache"}, epoch : Epochs, keep : BOOLEAN]
  BY SMT, SecureDatagramConstants DEF Init, IdleSync, Epochs
<1>6. delivered \in Counts /\ \A e \in Epochs, s \in Seqs : delivered[e][s] = 0
  BY DEF Init, Counts
<1>7. TypeOK
  <2>1. exposed \subseteq Epochs \X Seqs
    BY DEF Init
  <2> QED BY <1>1, <1>2, <1>3, <1>4, <1>5, <1>6, <2>1 DEF TypeOK, SlotPairs, Counts
<1>8. Refused
  BY SMT, <1>6 DEF Refused, Blocked
<1> QED BY <1>7, <1>8 DEF IInv

(* A step that leaves the slots and the counts alone keeps Refused:       *)
(* Unseen does not depend on send_epoch.                                   *)
LEMMA RefusedUnchanged ==
  ASSUME Refused, UNCHANGED <<rx, grace, delivered, exposed>>
  PROVE  Refused'
  BY DEF Refused

LEMMA Bounds ==
  /\ MaxKey \in Nat /\ MaxKey >= 1
  /\ MaxEpoch \in Nat /\ MaxSeq \in Nat /\ MaxSync \in Nat /\ MaxTimeouts \in Nat
  BY SMT, SecureDatagramConstants

LEMMA RemoteKeeps ==
  ASSUME IInv,
         \/ \E rotate \in BOOLEAN : Send(rotate)
         \/ \E e \in Epochs : AnswerSync(e)
         \/ AnswerCreate
         \/ RotateEpoch
  PROVE  IInv'
<1>1. ASSUME NEW rotate \in BOOLEAN, Send(rotate) PROVE IInv'
  <2>1. UNCHANGED <<rx, grace, delivered, exposed>>
    BY <1>1 DEF Send, session, history
  <2> DEFINE e == IF rotate THEN snd.epoch + 1 ELSE snd.epoch
  <2>2. snd \in [key : Keys, epoch : Epochs, seq : Nat]
    BY DEF IInv, TypeOK
  <2>3. e \in Epochs /\ snd.key \in Keys /\ snd.seq \in Seqs /\ snd.seq + 1 \in Nat
    <3>1. snd.key \in Keys /\ snd.epoch \in Epochs /\ snd.seq \in Nat
      BY <2>2
    <3>2. e <= MaxEpoch /\ snd.seq <= MaxSeq
      BY <1>1 DEF Send
    <3> QED BY SMT, <3>1, <3>2, Bounds DEF Epochs, Seqs
  <2>4. /\ net' = net \cup {[key |-> snd.key, epoch |-> e, seq |-> snd.seq]}
        /\ snd' = [key |-> snd.key, epoch |-> e, seq |-> snd.seq + 1]
    BY <1>1 DEF Send
  <2> HIDE DEF e
  <2>5. snd' \in [key : Keys, epoch : Epochs, seq : Nat]
    BY <2>2, <2>3, <2>4
  <2>6. net' \subseteq Packets
    BY SMT, <2>3, <2>4 DEF IInv, TypeOK, Packets
  <2>7. TypeOK'
    BY <1>1, <2>5, <2>6 DEF IInv, TypeOK, Send, session, history
  <2> QED BY <2>1, <2>7, RefusedUnchanged DEF IInv
<1>2. ASSUME NEW e \in Epochs, AnswerSync(e) PROVE IInv'
  <2>1. UNCHANGED <<rx, grace, delivered, exposed>>
    BY <1>2 DEF AnswerSync, session, history
  <2>2. nsync' \in 0 .. MaxSync
    BY SMT, <1>2, Bounds DEF IInv, TypeOK, AnswerSync
  <2>3. answers' \subseteq Answers
    <3>1. [key |-> snd.key, epoch |-> e, preserve |-> TRUE] \in Answers
      BY DEF IInv, TypeOK, Answers
    <3> QED BY <1>2, <3>1 DEF IInv, TypeOK, AnswerSync
  <2>4. TypeOK'
    BY <1>2, <2>2, <2>3 DEF IInv, TypeOK, AnswerSync, session, history
  <2> QED BY <2>1, <2>4, RefusedUnchanged DEF IInv
<1>3. ASSUME AnswerCreate PROVE IInv'
  <2>1. UNCHANGED <<rx, grace, delivered, exposed>>
    BY <1>3 DEF AnswerCreate, session, history
  <2>2. snd.key + 1 \in Keys /\ 0 \in Epochs
    BY SMT, <1>3, Bounds DEF IInv, TypeOK, AnswerCreate, Keys, Epochs
  <2>3. nsync' \in 0 .. MaxSync
    BY SMT, <1>3, Bounds DEF IInv, TypeOK, AnswerCreate
  <2>4. /\ answers' \subseteq Answers
        /\ snd' \in [key : Keys, epoch : Epochs, seq : Nat]
    <3>1. [key |-> snd.key + 1, epoch |-> 0, preserve |-> FALSE] \in Answers
      BY <2>2 DEF Answers
    <3>2. [key |-> snd.key + 1, epoch |-> 0, seq |-> 0] \in [key : Keys, epoch : Epochs, seq : Nat]
      BY <2>2
    <3> QED BY <1>3, <3>1, <3>2 DEF IInv, TypeOK, AnswerCreate
  <2>5. TypeOK'
    BY <1>3, <2>3, <2>4 DEF IInv, TypeOK, AnswerCreate, session, history
  <2> QED BY <2>1, <2>5, RefusedUnchanged DEF IInv
<1>4. ASSUME RotateEpoch PROVE IInv'
  <2>1. UNCHANGED <<rx, grace, delivered, exposed>>
    BY <1>4 DEF RotateEpoch, remote, history
  <2>2. sendEpoch' \in Epochs
    BY SMT, <1>4, Bounds DEF IInv, TypeOK, RotateEpoch, Epochs
  <2>3. TypeOK'
    BY <1>4, <2>2 DEF IInv, TypeOK, RotateEpoch, remote, history
  <2> QED BY <2>1, <2>3, RefusedUnchanged DEF IInv
<1> QED BY <1>1, <1>2, <1>3, <1>4

LEMMA SyncKeeps ==
  ASSUME IInv,
         \/ \E a \in answers : SyncRoot(a)
         \/ SyncEpoch
         \/ SyncRx
         \/ SyncCache
  PROVE  IInv'
<1>1. ASSUME NEW a \in answers, SyncRoot(a) PROVE IInv'
  <2>1. UNCHANGED <<rx, grace, delivered, exposed>>
    BY <1>1 DEF SyncRoot, history
  <2>2. a \in Answers
    BY DEF IInv, TypeOK
  <2>3. TypeOK'
    BY <1>1, <2>2 DEF IInv, TypeOK, SyncRoot, history, Answers
  <2> QED BY <2>1, <2>3, RefusedUnchanged DEF IInv
<1>2. ASSUME SyncEpoch PROVE IInv'
  <2>1. UNCHANGED <<rx, grace, delivered, exposed>>
    BY <1>2 DEF SyncEpoch, history
  <2>2. TypeOK'
    BY <1>2 DEF IInv, TypeOK, SyncEpoch, remote, history
  <2> QED BY <2>1, <2>2, RefusedUnchanged DEF IInv
<1>3. ASSUME SyncRx PROVE IInv'
  <2>1. rx \in SlotPairs /\ grace \in SlotPairs /\ delivered \in Counts
    BY DEF IInv, TypeOK, SlotPairs, Counts
  <2>2. rx' \in SlotPairs /\ grace' \in SlotPairs
    BY <1>3, <2>1, NoSlotsType DEF SyncRx
  <2>3. /\ \A e \in Epochs, s \in Seqs : <<e, s>> \notin exposed => delivered[e][s] <= 1
        /\ delivered' = Forget(delivered, rx', grace') /\ rx' = NoSlots
        /\ exposed' = IF syn.keep THEN exposed ELSE {}
    BY <1>3 DEF IInv, Refused, Blocked, SyncRx
  <2>4. delivered' \in Counts /\ Blocked(delivered', exposed', rx', grace')
    <3>1. delivered' \in Counts /\ Blocked(delivered', exposed, rx', grace')
      <4>1. Exposed(rx', grace') = {}
        BY <2>3, NoneExposed
      <4>2. exposed \cup Exposed(rx', grace') = exposed
        BY <4>1
      <4>3. /\ delivered' \in Counts
            /\ Blocked(delivered', exposed \cup Exposed(rx', grace'), rx', grace')
        BY <2>1, <2>2, <2>3, ForgetBlocks
      <4> QED BY <4>2, <4>3
    <3>2. CASE syn.keep
      BY <2>3, <3>1, <3>2
    <3>3. CASE ~syn.keep
      <4>1. grace' = NoSlots
        BY <1>3, <3>3 DEF SyncRx
      <4>2. \A e \in Epochs, s \in Seqs :
              Unseen(NoSlots, NoSlots, e, s) /\ ~Recorded(NoSlots, NoSlots, e, s)
        BY DEF Unseen, Recorded, NoSlots, NoSlot, EpochInSlots, InSlot
      <4>3. \A e \in Epochs, s \in Seqs : delivered'[e][s] = 0
        BY <2>3, <4>1, <4>2 DEF Forget
      <4>4. \A e \in Epochs, s \in Seqs : delivered'[e][s] <= 1 /\ delivered'[e][s] # 1
        BY SMT, <4>3
      <4> QED BY <3>1, <4>4 DEF Blocked
    <3> QED BY <3>2, <3>3
  <2>5. TypeOK'
    BY <1>3, <2>2, <2>3, <2>4 DEF IInv, TypeOK, SyncRx, remote, SlotPairs, Counts
  <2>6. Refused'
    BY <2>4 DEF Refused, Blocked, Unseen, CanAccept, EpochInSlots, InSlot, SlotOf
  <2> QED BY <2>5, <2>6 DEF IInv
<1>4. ASSUME SyncCache PROVE IInv'
  <2>1. UNCHANGED <<rx, grace, delivered, exposed>>
    BY <1>4 DEF SyncCache, history
  <2>2. /\ cache' \in [{0, 1} -> [valid : BOOLEAN, epoch : Epochs, key : Keys \cup {0}]]
        /\ syn' \in [pc : {"idle", "epoch", "rx", "cache"}, epoch : Epochs, keep : BOOLEAN]
    BY SMT, <1>4, SecureDatagramConstants DEF SyncCache, NoKeys, NoKey, IdleSync, Epochs
  <2>3. TypeOK'
    BY <1>4, <2>2 DEF IInv, TypeOK, SyncCache, remote, history
  <2> QED BY <2>1, <2>3, RefusedUnchanged DEF IInv
<1> QED BY <1>1, <1>2, <1>3, <1>4

KeySlots == [valid : BOOLEAN, epoch : Epochs, key : Keys \cup {0}]
ThreadStates == [pc : {"idle", "open", "commit"}, pkt : Packets]

LEMMA IdleThreadType == IdleThread \in ThreadStates
  BY SMT, Bounds DEF IdleThread, NoPacket, ThreadStates, Packets, Keys, Epochs, Seqs

LEMMA OpenKeeps ==
  ASSUME IInv, NEW t \in Threads, Open(t)
  PROVE  IInv'
<1> DEFINE p == thr[t].pkt
<1>1. UNCHANGED <<rx, grace, delivered, exposed>>
  BY DEF Open, history
<1>2. thr[t] \in ThreadStates /\ p \in Packets /\ p.epoch \in Epochs
  BY DEF IInv, TypeOK, ThreadStates, Packets
<1>3. cache' \in [{0, 1} -> KeySlots]
  <2>1. cache \in [{0, 1} -> KeySlots] /\ root \in Keys
    BY DEF IInv, TypeOK, KeySlots
  <2>2. [valid |-> TRUE, epoch |-> p.epoch, key |-> root] \in KeySlots
    BY <1>2, <2>1 DEF KeySlots
  <2>3. InsertKey(p.epoch) \in [{0, 1} -> KeySlots]
    BY <2>1, <2>2 DEF InsertKey
  <2>4. cache' = cache \/ cache' = InsertKey(p.epoch)
    BY DEF Open
  <2> QED BY <2>1, <2>3, <2>4
<1>4. fails' \in Nat /\ valid' \in BOOLEAN
  BY SMT DEF IInv, TypeOK, Open
<1>5. thr' \in [Threads -> ThreadStates]
  <2>1. [thr[t] EXCEPT !.pc = "commit"] \in ThreadStates
    BY <1>2 DEF ThreadStates
  <2>2. \/ thr' = [thr EXCEPT ![t] = [thr[t] EXCEPT !.pc = "commit"]]
        \/ thr' = [thr EXCEPT ![t] = IdleThread]
    BY DEF Open
  <2>3. thr \in [Threads -> ThreadStates]
    BY DEF IInv, TypeOK, ThreadStates
  <2> QED BY <2>1, <2>2, <2>3, IdleThreadType
<1>6. TypeOK'
  BY <1>1, <1>3, <1>4, <1>5
     DEF IInv, TypeOK, Open, remote, history, KeySlots, ThreadStates
<1> QED BY <1>1, <1>6, RefusedUnchanged DEF IInv

LEMMA TimeoutType ==
  ASSUME IInv, NEW a \in Aged, Timeout(a[1], a[2])
  PROVE  timeouts' \in 0 .. MaxTimeouts
<1>1. timeouts < MaxTimeouts \/ (a[1] = rx /\ a[2] = grace)
  BY AgedFacts DEF IInv, TypeOK, SlotPairs
<1>2. timeouts \in 0 .. MaxTimeouts
  BY DEF IInv, TypeOK
<1> QED BY SMT, <1>1, <1>2, Bounds DEF Timeout

(* The counts left once a check has aged the slots are blocked by them.    *)
LEMMA AgedBlocks ==
  ASSUME IInv, NEW a \in Aged, NEW kept,
         kept = IF a[1] = rx /\ a[2] = grace THEN delivered
                ELSE Forget(delivered, a[1], a[2])
  PROVE  kept \in Counts /\ Blocked(kept, exposed \cup Exposed(a[1], a[2]), a[1], a[2])
<1>1. rx \in SlotPairs /\ grace \in SlotPairs /\ delivered \in Counts
  BY DEF IInv, TypeOK, SlotPairs, Counts
<1>2. a[1] \in SlotPairs /\ a[2] \in SlotPairs
  BY <1>1, AgedFacts
<1>3. /\ Blocked(delivered, exposed, rx, grace)
      /\ \A e \in Epochs, s \in Seqs : <<e, s>> \notin exposed => delivered[e][s] <= 1
  BY DEF IInv, Refused, Blocked
<1>4. CASE a[1] = rx /\ a[2] = grace
  <2>1. Blocked(delivered, exposed \cup Exposed(rx, grace), rx, grace)
    BY <1>3 DEF Blocked
  <2> QED BY <1>1, <1>4, <2>1
<1>5. CASE ~(a[1] = rx /\ a[2] = grace)
  BY <1>1, <1>2, <1>3, <1>5, ForgetBlocks
<1> QED BY <1>4, <1>5

LEMMA PrecheckKeeps ==
  ASSUME IInv, NEW a \in Aged, NEW t \in Threads, NEW p \in net,
         Precheck(t, p, a[1], a[2])
  PROVE  IInv'
<1>1. rx' \in SlotPairs /\ grace' \in SlotPairs
  BY AgedFacts DEF IInv, TypeOK, SlotPairs, Precheck
<1>2. /\ delivered' \in Counts /\ Blocked(delivered', exposed', a[1], a[2])
      /\ exposed' \subseteq Epochs \X Seqs
  <2>1. exposed' = exposed \cup Exposed(a[1], a[2]) /\ a[1] \in SlotPairs
    BY <1>1 DEF Precheck
  <2>2. delivered' \in Counts /\ Blocked(delivered', exposed \cup Exposed(a[1], a[2]), a[1], a[2])
    BY AgedBlocks DEF Precheck
  <2> QED BY <2>1, <2>2, ExposedType DEF IInv, TypeOK
<1>3. thr' \in [Threads -> ThreadStates]
  <2>1. thr \in [Threads -> ThreadStates] /\ p \in Packets
    BY DEF IInv, TypeOK, ThreadStates
  <2>2. [pc |-> "open", pkt |-> p] \in ThreadStates
    BY <2>1 DEF ThreadStates
  <2>3. thr' = thr \/ thr' = [thr EXCEPT ![t] = [pc |-> "open", pkt |-> p]]
    BY DEF Precheck
  <2> QED BY <2>1, <2>2, <2>3
<1>4. timeouts' \in 0 .. MaxTimeouts
  BY TimeoutType DEF Precheck
<1>5. TypeOK'
  BY <1>1, <1>2, <1>3, <1>4
     DEF IInv, TypeOK, Precheck, remote, SlotPairs, Counts, ThreadStates
<1>6. Blocked(delivered', exposed', rx', grace')
  BY <1>2 DEF Precheck
<1>7. Refused'
  BY <1>6 DEF Refused, Blocked, Unseen, CanAccept, EpochInSlots, InSlot, SlotOf
<1> QED BY <1>5, <1>7 DEF IInv

LEMMA CommitStepKeeps ==
  ASSUME IInv, NEW a \in Aged, NEW t \in Threads, Commit(t, a[1], a[2])
  PROVE  IInv'
<1> DEFINE p == thr[t].pkt
<1> DEFINE kept == IF a[1] = rx /\ a[2] = grace THEN delivered
                   ELSE Forget(delivered, a[1], a[2])
<1> DEFINE X == exposed \cup Exposed(a[1], a[2])
<1>1. p \in Packets /\ p.epoch \in Epochs /\ p.seq \in Seqs
  BY DEF IInv, TypeOK, Packets
<1>2. a[1] \in SlotPairs /\ a[2] \in SlotPairs
  BY AgedFacts DEF IInv, TypeOK, SlotPairs
<1>3. /\ rx' = CommitRx(a[1], a[2], p.epoch, p.seq)
      /\ grace' = CommitGrace(a[2], p.epoch, p.seq)
      /\ delivered' = IF Fresh(a[1], a[2], p.epoch, p.seq)
                      THEN [kept EXCEPT ![p.epoch][p.seq] = @ + 1] ELSE kept
      /\ exposed' = X \cup Dropped(a[1], rx')
  BY DEF Commit
<1>4. kept \in Counts /\ Blocked(kept, X, a[1], a[2])
  BY AgedBlocks
<1>e. exposed' \subseteq Epochs \X Seqs
  <2>1. Exposed(a[1], a[2]) \cup Dropped(a[1], rx') \subseteq Epochs \X Seqs
    BY <1>2, ExposedType
  <2>2. exposed \subseteq Epochs \X Seqs
    BY DEF IInv, TypeOK
  <2> QED BY <1>3, <2>1, <2>2
<1> HIDE DEF kept, X, p
<1>5. delivered' \in Counts /\ Blocked(delivered', exposed', rx', grace')
  BY SMT, <1>1, <1>2, <1>3, <1>4, CommitBlocks
<1>6. rx' \in SlotPairs /\ grace' \in SlotPairs
  BY <1>1, <1>2, <1>3, CommitRxType, CommitGraceType
<1>7. thr' \in [Threads -> ThreadStates]
  BY IdleThreadType DEF IInv, TypeOK, Commit, ThreadStates
<1>8. cache' \in [{0, 1} -> KeySlots]
  <2>1. cache \in [{0, 1} -> KeySlots]
    BY DEF IInv, TypeOK, KeySlots
  <2>2. cache' = PruneKeyCache(rx', grace')
    BY DEF Commit
  <2>3. ASSUME NEW i \in {0, 1} PROVE PruneKeyCache(rx', grace')[i] \in KeySlots
    BY <2>1 DEF PruneKeyCache, KeySlots
  <2>4. PruneKeyCache(rx', grace') = [i \in {0, 1} |-> PruneKeyCache(rx', grace')[i]]
    BY DEF PruneKeyCache
  <2> QED BY <2>2, <2>3, <2>4
<1>9. timeouts' \in 0 .. MaxTimeouts
  BY TimeoutType DEF Commit
<1>10. TypeOK'
  BY <1>5, <1>6, <1>7, <1>8, <1>9, <1>e
     DEF IInv, TypeOK, Commit, remote, SlotPairs, Counts, ThreadStates, KeySlots
<1>11. Refused'
  BY <1>5 DEF Refused, Blocked, Unseen, CanAccept, EpochInSlots, InSlot, SlotOf
<1> QED BY <1>10, <1>11 DEF IInv

LEMMA NextKeeps == IInv /\ [Next]_vars => IInv'
<1> SUFFICES ASSUME IInv, [Next]_vars PROVE IInv'
  OBVIOUS
<1>1. CASE UNCHANGED vars
  <2>1. UNCHANGED <<rx, grace, delivered, exposed>>
    BY <1>1 DEF vars
  <2>2. TypeOK'
    BY <1>1 DEF IInv, TypeOK, vars
  <2> QED BY <2>1, <2>2, RefusedUnchanged DEF IInv
<1>2. CASE \/ \E rotate \in BOOLEAN : Send(rotate)
           \/ \E e \in Epochs : AnswerSync(e)
           \/ AnswerCreate
           \/ RotateEpoch
  BY <1>2, RemoteKeeps
<1>3. CASE \/ \E a \in answers : SyncRoot(a)
           \/ SyncEpoch
           \/ SyncRx
           \/ SyncCache
  BY <1>3, SyncKeeps
<1>4. CASE \E t \in Threads : Open(t)
  BY <1>4, OpenKeeps
<1>5. CASE \E a \in Aged, t \in Threads :
             \/ \E p \in net : Precheck(t, p, a[1], a[2])
             \/ Commit(t, a[1], a[2])
  BY <1>5, PrecheckKeeps, CommitStepKeeps
<1> QED BY <1>1, <1>2, <1>3, <1>4, <1>5 DEF Next

(* decrypt_payload delivers a packet at most once while the session can    *)
(* tell that it had it, for every window width and any number of threads;  *)
(* but for what a previous slot records once the current one idled out.    *)
THEOREM AtMostOnceAlways == Spec => []AtMostOnce
<1>1. IInv => AtMostOnce
  BY DEF IInv, Refused, Blocked, AtMostOnce
<1> QED BY <1>1, InitEstablishes, NextKeeps, PTL DEF Spec

(* The session's variables keep their types.                               *)
THEOREM SessionTypes == Spec => []TypeOK
<1>1. IInv => TypeOK
  BY DEF IInv
<1> QED BY <1>1, InitEstablishes, NextKeeps, PTL DEF Spec

(* Outside sync_root_key the key cache holds keys of the current root key. *)
(* The clearing of the cache is the last step of sync_root_key, so what a  *)
(* thread derived meanwhile is gone when it returns.                       *)
THEOREM CachedKeyAlways == Spec => []CachedKeyIsCurrent
<1>1. Init => CachedKeyIsCurrent
  BY SMT DEF Init, CachedKeyIsCurrent, NoKeys, NoKey
<1>2. TypeOK /\ CachedKeyIsCurrent /\ [Next]_vars => CachedKeyIsCurrent'
  <2> SUFFICES ASSUME TypeOK, CachedKeyIsCurrent, [Next]_vars, syn'.pc = "idle",
                      NEW i \in {0, 1}, cache'[i].valid
               PROVE  cache'[i].key = root'
    BY DEF CachedKeyIsCurrent
  <2>0. cache \in [{0, 1} -> [valid : BOOLEAN, epoch : Epochs, key : Keys \cup {0}]]
    BY DEF TypeOK
  <2>1. ASSUME UNCHANGED <<cache, root, syn>> PROVE cache'[i].key = root'
    BY <2>1 DEF CachedKeyIsCurrent
  <2>2. ASSUME SyncCache PROVE FALSE
    BY <2>2 DEF SyncCache, NoKeys, NoKey
  <2>3. ASSUME NEW t \in Threads, Open(t) PROVE cache'[i].key = root'
    <3>1. /\ UNCHANGED <<root, syn>>
          /\ cache' = cache \/ cache' = InsertKey(thr[t].pkt.epoch)
      BY <2>3 DEF Open
    <3>2. CASE cache' = cache
      BY <3>1, <3>2 DEF CachedKeyIsCurrent
    <3>3. CASE cache' = InsertKey(thr[t].pkt.epoch)
      <4>1. cache'[i].key = root \/ cache'[i] = cache[i]
        BY <2>0, <3>3 DEF InsertKey
      <4> QED BY <3>1, <4>1 DEF CachedKeyIsCurrent
    <3> QED BY <3>1, <3>2, <3>3
  <2>4. ASSUME NEW a \in Aged, NEW t \in Threads, Commit(t, a[1], a[2])
        PROVE  cache'[i].key = root'
    <3>1. UNCHANGED <<root, syn>> /\ cache' = PruneKeyCache(rx', grace')
      BY <2>4 DEF Commit
    <3>2. cache[i].valid /\ cache'[i].key = cache[i].key
      BY <2>0, <3>1 DEF PruneKeyCache
    <3> QED BY <3>1, <3>2 DEF CachedKeyIsCurrent
  <2>5. CASE UNCHANGED vars
    BY <2>1, <2>5 DEF vars
  <2>6. CASE \/ \E rotate \in BOOLEAN : Send(rotate)
             \/ \E e \in Epochs : AnswerSync(e)
             \/ AnswerCreate
             \/ RotateEpoch
    BY <2>1, <2>6 DEF Send, AnswerSync, AnswerCreate, RotateEpoch, session
  <2>7. CASE \/ \E a \in answers : SyncRoot(a)
             \/ SyncEpoch
             \/ SyncRx
    BY SMT, <2>7 DEF SyncRoot, SyncEpoch, SyncRx, TypeOK
  <2>8. CASE \E a \in Aged, t \in Threads, p \in net : Precheck(t, p, a[1], a[2])
    BY <2>1, <2>8 DEF Precheck
  <2> QED BY <2>2, <2>3, <2>4, <2>5, <2>6, <2>7, <2>8 DEF Next
<1> QED BY <1>1, <1>2, SessionTypes, PTL DEF Spec
-----------------------------------------------------------------------------
(* Reordering, rotation and resynchronisation cost no packet               *)

(* Whatever a window marks was accepted, under this root key and epoch.    *)
FromAccepted(A, k, slots) ==
  \A i \in {0, 1} : slots[i].valid =>
    /\ slots[i].window.valid
    /\ \A x \in slots[i].window.seen \cup {slots[i].window.max} :
         [key |-> k, epoch |-> slots[i].epoch, seq |-> x] \in A

(* The epoch of an accepted packet has a slot, unless its window was given *)
(* up or two newer epochs have come.                                       *)
Placed(A, k, L, r, g) ==
  \A q \in A : q.key = k =>
    \/ q.epoch \in L \/ EpochInSlots(r, q.epoch) \/ EpochInSlots(g, q.epoch)
    \/ \E n \in A : n.key = k /\ n.epoch >= q.epoch + 2

(* The windows belong to the root key: not so while sync_root_key has      *)
(* replaced the one and not yet cleared the others.                        *)
Trusted == ~crossed /\ (syn.pc \in {"epoch", "rx"} => syn.keep)

WelcomeInv ==
  /\ accepted \subseteq net
  /\ \A t \in Threads : thr[t].pc # "idle" => thr[t].pkt \in net
  /\ Trusted => /\ FromAccepted(accepted, root, rx)
                /\ FromAccepted(accepted, root, grace)
                /\ Placed(accepted, root, lost, rx, grace)

LEMMA ValidInSlots ==
  ASSUME NEW slots, NEW e
  PROVE  e \in ValidIn(slots) <=> EpochInSlots(slots, e)
  BY DEF ValidIn, EpochInSlots, InSlot

LEMMA NoSlotsEmpty == \A i \in {0, 1} : NoSlots[i].valid = FALSE
  BY DEF NoSlots, NoSlot

LEMMA NoSlotsFromAccepted ==
  ASSUME NEW A, NEW k
  PROVE  FromAccepted(A, k, NoSlots)
  BY NoSlotsEmpty DEF FromAccepted

(* A check leaves a slot as it is or empties it.                           *)
LEMMA AgedParts ==
  ASSUME rx \in SlotPairs, grace \in SlotPairs, NEW a \in Aged, NEW i \in {0, 1}
  PROVE  /\ a[1][i].valid => a[1][i] = rx[i]
         /\ a[2][i].valid => a[2][i] = grace[i]
<1>1. ASSUME NEW slots, NEW v \in Evicted(slots), v[i].valid
      PROVE  v[i] = slots[i]
  <2>1. PICK idle \in SUBSET {j \in {0, 1} : slots[j].valid} : v = Evict(slots, idle)
    BY DEF Evicted
  <2>2. v[i] = IF i \in idle THEN NoSlot ELSE slots[i]
    BY <2>1 DEF Evict
  <2>3. NoSlot.valid = FALSE
    BY DEF NoSlot
  <2> QED BY <1>1, <2>2, <2>3
<1>2. CASE timeouts < MaxTimeouts
  <2>1. a[1] \in Evicted(rx) /\ a[2] \in {NoSlots} \cup Evicted(grace)
    BY <1>2 DEF Aged
  <2> QED BY <1>1, <2>1, NoSlotsEmpty
<1>3. CASE ~(timeouts < MaxTimeouts)
  BY SMT, <1>3 DEF Aged
<1> QED BY <1>2, <1>3

(* The invariant after a check, before anything is committed: what is no   *)
(* longer in a slot was given up.                                          *)
LEMMA AgedWelcome ==
  ASSUME rx \in SlotPairs, grace \in SlotPairs, NEW a \in Aged, NEW L,
         FromAccepted(accepted, root, rx), FromAccepted(accepted, root, grace),
         Placed(accepted, root, lost, rx, grace),
         L = lost \cup ((ValidIn(rx) \cup ValidIn(grace))
                          \ (ValidIn(a[1]) \cup ValidIn(a[2])))
  PROVE  /\ FromAccepted(accepted, root, a[1])
         /\ FromAccepted(accepted, root, a[2])
         /\ Placed(accepted, root, L, a[1], a[2])
<1>1. FromAccepted(accepted, root, a[1]) /\ FromAccepted(accepted, root, a[2])
  BY SMT, AgedParts DEF FromAccepted
<1>2. ASSUME NEW e, EpochInSlots(rx, e) \/ EpochInSlots(grace, e)
      PROVE  e \in L \/ EpochInSlots(a[1], e) \/ EpochInSlots(a[2], e)
  BY <1>2, ValidInSlots
<1>3. lost \subseteq L
  OBVIOUS
<1>4. Placed(accepted, root, L, a[1], a[2])
  BY <1>2, <1>3 DEF Placed
<1> QED BY <1>1, <1>4

LEMMA PlacedGrows ==
  ASSUME NEW A, NEW k, NEW L, NEW r, NEW g, NEW M, L \subseteq M, Placed(A, k, L, r, g)
  PROVE  Placed(A, k, M, r, g)
  BY DEF Placed

LEMMA AcceptMarks ==
  ASSUME NEW w \in Windows, NEW s \in Seqs
  PROVE  /\ Accept(w, s).valid
         /\ Accept(w, s).seen \cup {Accept(w, s).max} \subseteq
              IF w.valid THEN w.seen \cup {w.max, s} ELSE {s}
  BY SecureDatagramConstants DEF Windows, Accept, CanAccept, Seqs

LEMMA NewSlotFromAccepted ==
  ASSUME NEW e \in Epochs, NEW s \in Seqs
  PROVE  /\ NewSlot(e, s).window.valid
         /\ NewSlot(e, s).window.seen \cup {NewSlot(e, s).window.max} = {s}
  BY DEF NewSlot, NoWindow, Accept

LEMMA MarkFromAccepted ==
  ASSUME NEW slots \in SlotPairs, NEW e \in Epochs, NEW s \in Seqs, NEW A, NEW k,
         EpochInSlots(slots, e), FromAccepted(A, k, slots),
         [key |-> k, epoch |-> e, seq |-> s] \in A
  PROVE  FromAccepted(A, k, Mark(slots, e, s))
<1> DEFINE j == SlotOf(slots, e)
<1> DEFINE m == Mark(slots, e, s)
<1>1. j \in {0, 1} /\ slots[j].valid /\ slots[j].epoch = e
  BY DEF EpochInSlots, InSlot, SlotOf
<1>2. slots[j].window \in Windows
  BY <1>1 DEF SlotPairs, Slots
<1>3. /\ m[j] = [valid |-> TRUE, epoch |-> e, window |-> Accept(slots[j].window, s)]
      /\ \A i \in {0, 1} : i # j => m[i] = slots[i]
  BY <1>1 DEF Mark
<1> HIDE DEF j, m
<1>4. /\ slots[j].window.valid
      /\ \A x \in slots[j].window.seen \cup {slots[j].window.max} :
           [key |-> k, epoch |-> e, seq |-> x] \in A
  BY <1>1 DEF FromAccepted
<1>5. /\ Accept(slots[j].window, s).valid
      /\ Accept(slots[j].window, s).seen \cup {Accept(slots[j].window, s).max}
           \subseteq slots[j].window.seen \cup {slots[j].window.max, s}
  BY SMT, <1>2, <1>4, AcceptMarks
<1>6. /\ m[j].epoch = e
      /\ m[j].window = Accept(slots[j].window, s)
  <2> DEFINE w == Accept(slots[j].window, s)
  <2>1. m[j] = [valid |-> TRUE, epoch |-> e, window |-> w]
    BY <1>3
  <2> HIDE DEF w
  <2>2. m[j].epoch = e /\ m[j].window = w
    BY SMT, <2>1
  <2> QED BY <2>2 DEF w
<1>7. /\ m[j].window.valid
      /\ \A x \in m[j].window.seen \cup {m[j].window.max} :
           [key |-> k, epoch |-> m[j].epoch, seq |-> x] \in A
  BY <1>4, <1>5, <1>6
<1>8. FromAccepted(A, k, m)
  BY SMT, <1>1, <1>3, <1>7 DEF FromAccepted
<1> QED BY <1>8 DEF m

(* What commit_replay refuses leaves the slots alone.                      *)
LEMMA CommitRefuses ==
  ASSUME NEW r \in SlotPairs, NEW g \in SlotPairs, NEW e \in Epochs, NEW s \in Seqs,
         ~Fresh(r, g, e, s)
  PROVE  CommitRx(r, g, e, s) = r /\ CommitGrace(g, e, s) = g
<1>1. ASSUME NEW slots \in SlotPairs, EpochInSlots(slots, e),
             ~CanAccept(slots[SlotOf(slots, e)].window, s)
      PROVE  Mark(slots, e, s) = slots
  <2> DEFINE j == SlotOf(slots, e)
  <2>1. j \in {0, 1} /\ slots[j].valid /\ slots[j].epoch = e
    BY <1>1 DEF EpochInSlots, InSlot, SlotOf
  <2>2. slots[j] \in Slots /\ slots[j].window \in Windows
    BY <2>1 DEF SlotPairs, Slots
  <2>3. Accept(slots[j].window, s) = slots[j].window
    BY <1>1, <2>2 DEF Accept, CanAccept, Windows
  <2>4. slots[j] = [valid |-> TRUE, epoch |-> e, window |-> slots[j].window]
    BY <2>1, <2>2 DEF Slots
  <2>5. Mark(slots, e, s) = [i \in {0, 1} |-> slots[i]]
    BY <2>3, <2>4 DEF Mark
  <2> QED BY <2>5 DEF SlotPairs
<1>2. CASE EpochInSlots(g, e)
  BY <1>1, <1>2 DEF Fresh, Unseen, CommitRx, CommitGrace
<1>3. CASE ~EpochInSlots(g, e)
  BY <1>1, <1>3 DEF Fresh, Unseen, CommitRx, CommitGrace
<1> QED BY <1>2, <1>3

LEMMA CommitFromAccepted ==
  ASSUME NEW r \in SlotPairs, NEW g \in SlotPairs, NEW e \in Epochs, NEW s \in Seqs,
         NEW A, NEW k, [key |-> k, epoch |-> e, seq |-> s] \in A,
         FromAccepted(A, k, r), FromAccepted(A, k, g)
  PROVE  /\ FromAccepted(A, k, CommitRx(r, g, e, s))
         /\ FromAccepted(A, k, CommitGrace(g, e, s))
<1>1. FromAccepted(A, k, CommitGrace(g, e, s))
  BY MarkFromAccepted DEF CommitGrace
<1> DEFINE r2 == CommitRx(r, g, e, s)
<1>2. CASE r2 = r
  BY <1>1, <1>2
<1>3. CASE EpochInSlots(r, e) /\ r2 = Mark(r, e, s)
  BY <1>1, <1>3, MarkFromAccepted
<1>4. CASE r2[0] = NewSlot(e, s) /\ r2[1] \in {r[0], r[1]}
  <2>1. /\ r2[0].epoch = e /\ r2[0].window.valid
        /\ r2[0].window.seen \cup {r2[0].window.max} = {s}
    <3> DEFINE n == NewSlot(e, s)
    <3>1. /\ n.epoch = e /\ n.window.valid
          /\ n.window.seen \cup {n.window.max} = {s}
      BY NewSlotFacts, NewSlotFromAccepted
    <3>2. r2[0] = n
      BY <1>4
    <3> HIDE DEF n, r2
    <3> QED BY <3>1, <3>2
  <2> HIDE DEF r2
  <2>2. FromAccepted(A, k, r2)
    BY SMT, <1>4, <2>1 DEF FromAccepted
  <2> QED BY <1>1, <2>2 DEF r2
<1>5. \/ r2 = r
      \/ EpochInSlots(r, e) /\ r2 = Mark(r, e, s)
      \/ r2[0] = NewSlot(e, s) /\ r2[1] \in {r[0], r[1]}
  <2>1. \/ r2 = r
        \/ EpochInSlots(r, e) /\ r2 = Mark(r, e, s)
        \/ r2 = [r EXCEPT ![0] = NewSlot(e, s)]
        \/ r2 = [i \in {0, 1} |-> IF i = 0 THEN NewSlot(e, s) ELSE r[0]]
    BY DEF CommitRx
  <2> HIDE DEF r2
  <2>2. CASE r2 = [r EXCEPT ![0] = NewSlot(e, s)]
    BY SMT, <2>2 DEF SlotPairs
  <2>3. CASE r2 = [i \in {0, 1} |-> IF i = 0 THEN NewSlot(e, s) ELSE r[0]]
    BY SMT, <2>3
  <2> QED BY <2>1, <2>2, <2>3
<1> QED BY <1>2, <1>3, <1>4, <1>5

(* A commit keeps the slot of an epoch, or the epoch was displaced, or two *)
(* newer epochs have come: the current one and that of the packet.         *)
LEMMA CommitPlaces ==
  ASSUME NEW r \in SlotPairs, NEW g \in SlotPairs, NEW e \in Epochs, NEW s \in Seqs,
         NEW f \in Epochs, EpochInSlots(r, f) \/ EpochInSlots(g, f)
  PROVE  \/ EpochInSlots(CommitRx(r, g, e, s), f)
         \/ EpochInSlots(CommitGrace(g, e, s), f)
         \/ f \in Displaced(r, CommitRx(r, g, e, s))
         \/ e >= f + 2
<1> DEFINE r2 == CommitRx(r, g, e, s)
<1>1. EpochInSlots(g, f) => EpochInSlots(CommitGrace(g, e, s), f)
  BY MarkPlaces DEF CommitGrace
<1> SUFFICES ASSUME EpochInSlots(r, f)
             PROVE  EpochInSlots(r2, f) \/ f \in Displaced(r, r2) \/ e >= f + 2
  BY <1>1
<1>2. CASE r2 = r
  BY <1>2
<1>3. CASE EpochInSlots(r, e) /\ r2 = Mark(r, e, s)
  BY SMT, <1>3, MarkPlaces
<1>4. CASE ~r[0].valid /\ r2 = [r EXCEPT ![0] = NewSlot(e, s)]
  <2>1. r2[1] = r[1]
    BY SMT, <1>4 DEF SlotPairs
  <2> QED BY <1>4, <2>1 DEF EpochInSlots, InSlot
<1>5. CASE /\ r[0].valid /\ e > r[0].epoch
           /\ r2 = [i \in {0, 1} |-> IF i = 0 THEN NewSlot(e, s) ELSE r[0]]
  <2>1. r2[1] = r[0]
    BY SMT, <1>5
  <2> HIDE DEF r2
  <2>2. CASE r[0].epoch = f
    BY <1>5, <2>1, <2>2 DEF EpochInSlots, InSlot
  <2>3. CASE r[0].epoch # f
    <3>1. r[1].valid /\ r[1].epoch = f
      BY <2>3 DEF EpochInSlots, InSlot
    <3>2. r[0].epoch \in Nat /\ f \in Nat /\ e \in Nat
      BY SMT, Bounds DEF SlotPairs, Slots, Epochs
    <3>3. CASE f > r[0].epoch
      BY <2>1, <2>3, <3>1, <3>3 DEF Displaced
    <3>4. CASE f < r[0].epoch
      BY SMT, <1>5, <3>2, <3>4
    <3> QED BY SMT, <2>3, <3>2, <3>3, <3>4
  <2> QED BY <2>2, <2>3
<1> QED BY <1>2, <1>3, <1>4, <1>5 DEF CommitRx

(* What is accepted has a slot.                                            *)
LEMMA FreshPlaces ==
  ASSUME NEW r \in SlotPairs, NEW g \in SlotPairs, NEW e \in Epochs, NEW s \in Seqs,
         Fresh(r, g, e, s)
  PROVE  \/ EpochInSlots(CommitRx(r, g, e, s), e)
         \/ EpochInSlots(CommitGrace(g, e, s), e)
<1> DEFINE r2 == CommitRx(r, g, e, s)
<1>1. CASE EpochInSlots(g, e)
  BY <1>1, MarkPlaces DEF CommitGrace
<1>2. CASE ~EpochInSlots(g, e) /\ r[0].valid /\ EpochInSlots(r, e)
  BY <1>2, MarkPlaces DEF CommitRx
<1>3. CASE ~EpochInSlots(g, e) /\ ~(r[0].valid /\ EpochInSlots(r, e))
  <2>1. ~r[0].valid \/ (~EpochInSlots(r, e) /\ e > r[0].epoch /\ ~TooFar(r, e))
    BY <1>3 DEF Fresh, Unseen
  <2>2. r2[0] = NewSlot(e, s)
    BY <1>3, <2>1 DEF CommitRx, SlotPairs
  <2> QED BY SMT, <2>2, NewSlotFacts DEF EpochInSlots, InSlot
<1> QED BY <1>1, <1>2, <1>3

LEMMA WelcomeInit == Init => WelcomeInv
<1> SUFFICES ASSUME Init PROVE WelcomeInv
  OBVIOUS
<1>1. rx = NoSlots /\ grace = NoSlots /\ accepted = {}
  BY DEF Init
<1>2. \A t \in Threads : thr[t].pc = "idle"
  BY DEF Init, IdleThread
<1>3. FromAccepted(accepted, root, rx) /\ FromAccepted(accepted, root, grace)
  BY <1>1, NoSlotsFromAccepted
<1> QED BY <1>1, <1>2, <1>3 DEF WelcomeInv, Placed

(* A step that leaves the windows, the history and the root key alone.     *)
LEMMA WelcomeUnchanged ==
  ASSUME WelcomeInv, UNCHANGED <<rx, grace, accepted, lost, crossed, root>>,
         net \subseteq net', Trusted' => Trusted,
         \A t \in Threads : thr'[t].pc # "idle" => thr[t].pc # "idle" /\ thr'[t].pkt = thr[t].pkt
  PROVE  WelcomeInv'
<1>1. accepted' \subseteq net'
  BY DEF WelcomeInv
<1>2. \A t \in Threads : thr'[t].pc # "idle" => thr'[t].pkt \in net'
  BY DEF WelcomeInv
<1>3. ASSUME Trusted'
      PROVE  /\ FromAccepted(accepted, root, rx)'
             /\ FromAccepted(accepted, root, grace)'
             /\ Placed(accepted, root, lost, rx, grace)'
  BY <1>3 DEF WelcomeInv
<1> QED BY <1>1, <1>2, <1>3 DEF WelcomeInv

LEMMA WelcomeRemote ==
  ASSUME TypeOK, WelcomeInv,
         \/ UNCHANGED vars
         \/ \E rotate \in BOOLEAN : Send(rotate)
         \/ \E e \in Epochs : AnswerSync(e)
         \/ AnswerCreate
         \/ RotateEpoch
         \/ SyncEpoch
         \/ SyncCache
         \/ \E t \in Threads : Open(t)
  PROVE  WelcomeInv'
<1>1. /\ UNCHANGED <<rx, grace, accepted, lost, crossed, root>>
      /\ net \subseteq net'
  BY DEF vars, Send, AnswerSync, AnswerCreate, RotateEpoch, SyncEpoch, SyncCache, Open,
         session, history, remote
<1>2. Trusted' => Trusted
  <2>1. CASE SyncEpoch
    <3>1. /\ syn \in [pc : {"idle", "epoch", "rx", "cache"}, epoch : Epochs, keep : BOOLEAN]
          /\ syn.pc = "epoch" /\ syn' = [syn EXCEPT !.pc = "rx"]
      BY <2>1 DEF SyncEpoch, TypeOK
    <3>2. syn'.pc = "rx" /\ syn'.keep = syn.keep
      BY <3>1
    <3> QED BY <1>1, <3>1, <3>2 DEF Trusted
  <2>2. CASE SyncCache
    BY <1>1, <2>2 DEF SyncCache, Trusted
  <2>3. CASE ~SyncEpoch /\ ~SyncCache
    <3>1. syn' = syn
      BY <2>3 DEF vars, Send, AnswerSync, AnswerCreate, RotateEpoch, Open
    <3> QED BY <1>1, <3>1 DEF Trusted
  <2> QED BY <2>1, <2>2, <2>3
<1>3. ASSUME NEW t \in Threads, thr'[t].pc # "idle"
      PROVE  thr[t].pc # "idle" /\ thr'[t].pkt = thr[t].pkt
  <2>1. CASE \E u \in Threads : Open(u)
    <3>1. PICK u \in Threads : Open(u)
      BY <2>1
    <3>2. /\ thr \in [Threads -> ThreadStates] /\ thr[u].pc = "open"
          /\ \/ thr' = [thr EXCEPT ![u] = [thr[u] EXCEPT !.pc = "commit"]]
             \/ thr' = [thr EXCEPT ![u] = IdleThread]
      BY <3>1 DEF Open, TypeOK, ThreadStates
    <3>3. CASE t # u
      BY <1>3, <3>2, <3>3
    <3>4. CASE t = u /\ thr' = [thr EXCEPT ![u] = [thr[u] EXCEPT !.pc = "commit"]]
      <4>1. thr'[t] = [thr[t] EXCEPT !.pc = "commit"] /\ thr[t] \in ThreadStates
        BY <3>2, <3>4
      <4> QED BY <3>2, <3>4, <4>1 DEF ThreadStates
    <3>5. CASE t = u /\ thr' = [thr EXCEPT ![u] = IdleThread]
      BY <1>3, <3>2, <3>5 DEF IdleThread
    <3> QED BY <3>2, <3>3, <3>4, <3>5
  <2>2. CASE ~(\E u \in Threads : Open(u))
    <3>1. thr' = thr
      BY <2>2 DEF vars, Send, AnswerSync, AnswerCreate, RotateEpoch, SyncEpoch, SyncCache
    <3> QED BY <1>3, <3>1
  <2> QED BY <2>1, <2>2
<1> QED BY <1>1, <1>2, <1>3, WelcomeUnchanged

(* The windows keep their root key, or are no longer trusted until they    *)
(* are cleared.                                                            *)
LEMMA WelcomeSync ==
  ASSUME TypeOK, WelcomeInv, (\E a \in answers : SyncRoot(a)) \/ SyncRx
  PROVE  WelcomeInv'
<1>1. UNCHANGED <<accepted, net, thr>>
  BY DEF SyncRoot, SyncRx, history, remote
<1>2. /\ accepted' \subseteq net'
      /\ \A t \in Threads : thr'[t].pc # "idle" => thr'[t].pkt \in net'
  BY <1>1 DEF WelcomeInv
<1>3. ASSUME NEW a \in answers, SyncRoot(a), Trusted'
      PROVE  /\ FromAccepted(accepted, root, rx)'
             /\ FromAccepted(accepted, root, grace)'
             /\ Placed(accepted, root, lost, rx, grace)'
  <2>1. /\ syn.pc = "idle" /\ root' = a.key
        /\ syn'.pc = "epoch" /\ syn'.keep = (a.preserve /\ root = a.key)
        /\ UNCHANGED <<rx, grace, lost, crossed>>
    BY <1>3 DEF SyncRoot, history
  <2>2. Trusted /\ root' = root
    BY <1>3, <2>1 DEF Trusted
  <2> QED BY <1>1, <2>1, <2>2 DEF WelcomeInv
<1>4. ASSUME SyncRx, Trusted'
      PROVE  /\ FromAccepted(accepted, root, rx)'
             /\ FromAccepted(accepted, root, grace)'
             /\ Placed(accepted, root, lost, rx, grace)'
  <2>1. /\ rx' = NoSlots /\ grace' = IF syn.keep THEN rx ELSE NoSlots
        /\ lost' = IF syn.keep THEN lost \cup (ValidIn(grace) \ ValidIn(rx))
                               ELSE {q.epoch : q \in {p \in accepted : p.key = root}}
        /\ root' = root /\ accepted' = accepted /\ crossed' = (crossed /\ syn.keep)
    BY <1>4 DEF SyncRx
  <2>2. CASE ~syn.keep
    <3>1. FromAccepted(accepted', root', rx') /\ FromAccepted(accepted', root', grace')
      BY <2>1, <2>2, NoSlotsFromAccepted
    <3>2. Placed(accepted', root', lost', rx', grace')
      BY <2>1, <2>2 DEF Placed
    <3> QED BY <3>1, <3>2 DEF FromAccepted, Placed, EpochInSlots, InSlot
  <2>3. CASE syn.keep
    <3>1. Trusted
      BY <1>4, <2>1, <2>3 DEF Trusted
    <3>2. FromAccepted(accepted, root, rx) /\ Placed(accepted, root, lost, rx, grace)
      BY <3>1 DEF WelcomeInv
    <3>3. FromAccepted(accepted', root', rx') /\ FromAccepted(accepted', root', grace')
      BY <2>1, <2>3, <3>2, NoSlotsFromAccepted
    <3>4. ASSUME NEW e, e \in lost \/ EpochInSlots(rx, e) \/ EpochInSlots(grace, e)
          PROVE  e \in lost' \/ EpochInSlots(grace', e)
      BY <2>1, <2>3, <3>4, ValidInSlots
    <3>5. Placed(accepted', root', lost', rx', grace')
      BY <2>1, <3>2, <3>4 DEF Placed
    <3> QED BY <3>3, <3>5 DEF FromAccepted, Placed, EpochInSlots, InSlot
  <2> QED BY <2>2, <2>3
<1> QED BY <1>2, <1>3, <1>4 DEF WelcomeInv

LEMMA WelcomePrecheck ==
  ASSUME TypeOK, WelcomeInv, NEW a \in Aged, NEW t \in Threads, NEW p \in net,
         Precheck(t, p, a[1], a[2])
  PROVE  WelcomeInv'
<1>1. /\ rx' = a[1] /\ grace' = a[2]
      /\ UNCHANGED <<net, root, syn, accepted, crossed>>
      /\ lost' = lost \cup ((ValidIn(rx) \cup ValidIn(grace))
                               \ (ValidIn(a[1]) \cup ValidIn(a[2])))
      /\ thr' = thr \/ thr' = [thr EXCEPT ![t] = [pc |-> "open", pkt |-> p]]
  BY DEF Precheck, remote
<1>2. \A u \in Threads : thr'[u].pc # "idle" => thr'[u].pkt \in net
  BY SMT, <1>1 DEF WelcomeInv, TypeOK
<1>3. ASSUME Trusted'
      PROVE  /\ FromAccepted(accepted', root', rx')
             /\ FromAccepted(accepted', root', grace')
             /\ Placed(accepted', root', lost', rx', grace')
  <2>1. Trusted
    BY <1>1, <1>3 DEF Trusted
  <2>2. rx \in SlotPairs /\ grace \in SlotPairs
    BY DEF TypeOK, SlotPairs
  <2>3. /\ FromAccepted(accepted, root, rx) /\ FromAccepted(accepted, root, grace)
        /\ Placed(accepted, root, lost, rx, grace)
    BY <2>1 DEF WelcomeInv
  <2>4. /\ FromAccepted(accepted, root, a[1]) /\ FromAccepted(accepted, root, a[2])
        /\ Placed(accepted, root, lost', a[1], a[2])
    BY <1>1, <2>2, <2>3, AgedWelcome
  <2> QED BY <1>1, <2>4
<1>4. Trusted' => /\ FromAccepted(accepted, root, rx)'
                  /\ FromAccepted(accepted, root, grace)'
                  /\ Placed(accepted, root, lost, rx, grace)'
  BY <1>3 DEF FromAccepted, Placed, EpochInSlots, InSlot
<1> QED BY <1>1, <1>2, <1>4 DEF WelcomeInv

LEMMA WelcomeCommit ==
  ASSUME TypeOK, WelcomeInv, NEW a \in Aged, NEW t \in Threads, Commit(t, a[1], a[2])
  PROVE  WelcomeInv'
<1> DEFINE p == thr[t].pkt
<1> DEFINE r == a[1]
<1> DEFINE g == a[2]
<1> DEFINE L == lost \cup ((ValidIn(rx) \cup ValidIn(grace)) \ (ValidIn(r) \cup ValidIn(g)))
<1>1. /\ rx' = CommitRx(r, g, p.epoch, p.seq)
      /\ grace' = CommitGrace(g, p.epoch, p.seq)
      /\ UNCHANGED <<net, root, syn>>
      /\ accepted' = IF Fresh(r, g, p.epoch, p.seq) THEN accepted \cup {p} ELSE accepted
      /\ lost' = L \cup Displaced(r, rx')
      /\ crossed' = (crossed \/ (Fresh(r, g, p.epoch, p.seq) /\ p.key # root))
      /\ thr' = [thr EXCEPT ![t] = IdleThread]
      /\ thr[t].pc = "commit"
  BY DEF Commit, remote
<1>2. p \in Packets /\ p.epoch \in Epochs /\ p.seq \in Seqs /\ p \in net
  BY <1>1 DEF TypeOK, Packets, WelcomeInv
<1>3. rx \in SlotPairs /\ grace \in SlotPairs
  BY DEF TypeOK, SlotPairs
<1>4. r \in SlotPairs /\ g \in SlotPairs
  BY <1>3, AgedFacts
<1>5. accepted' \subseteq net'
  BY <1>1, <1>2 DEF WelcomeInv
<1>6. \A u \in Threads : thr'[u].pc # "idle" => thr'[u].pkt \in net'
  BY <1>1 DEF WelcomeInv, TypeOK, IdleThread
<1>7. ASSUME Trusted'
      PROVE  /\ FromAccepted(accepted', root', rx')
             /\ FromAccepted(accepted', root', grace')
             /\ Placed(accepted', root', lost', rx', grace')
  <2>1. Trusted
    BY <1>1, <1>7 DEF Trusted
  <2>2. /\ FromAccepted(accepted, root, rx) /\ FromAccepted(accepted, root, grace)
        /\ Placed(accepted, root, lost, rx, grace)
    BY <2>1 DEF WelcomeInv
  <2>3. /\ FromAccepted(accepted, root, r) /\ FromAccepted(accepted, root, g)
        /\ Placed(accepted, root, L, r, g)
    BY <1>3, <2>2, AgedWelcome
  <2> HIDE DEF p, r, g, L
  <2>4. CASE ~Fresh(r, g, p.epoch, p.seq)
    <3>1. rx' = r /\ grace' = g /\ accepted' = accepted
      BY <1>1, <1>2, <1>4, <2>4, CommitRefuses
    <3>2. Placed(accepted, root, lost', r, g)
      BY <1>1, <2>3, PlacedGrows
    <3> QED BY <1>1, <2>3, <3>1, <3>2
  <2>5. CASE Fresh(r, g, p.epoch, p.seq)
    <3>1. p.key = root /\ accepted' = accepted \cup {p}
      BY <1>1, <1>7, <2>5 DEF Trusted
    <3>2. [key |-> root, epoch |-> p.epoch, seq |-> p.seq] \in accepted'
      <4>1. p = [key |-> root, epoch |-> p.epoch, seq |-> p.seq]
        BY <1>2, <3>1 DEF Packets
      <4> QED BY <3>1, <4>1
    <3>3. FromAccepted(accepted', root, r) /\ FromAccepted(accepted', root, g)
      BY <2>3, <3>1 DEF FromAccepted
    <3>4. FromAccepted(accepted', root, rx') /\ FromAccepted(accepted', root, grace')
      BY <1>1, <1>2, <1>4, <3>2, <3>3, CommitFromAccepted
    <3>5. ASSUME NEW q \in accepted', q.key = root
          PROVE  \/ q.epoch \in lost' \/ EpochInSlots(rx', q.epoch)
                 \/ EpochInSlots(grace', q.epoch)
                 \/ \E n \in accepted' : n.key = root /\ n.epoch >= q.epoch + 2
      <4>1. CASE q = p
        BY <1>1, <1>2, <1>4, <2>5, <4>1, FreshPlaces
      <4>2. CASE q \in accepted
        <5>1. \/ q.epoch \in L \/ EpochInSlots(r, q.epoch) \/ EpochInSlots(g, q.epoch)
              \/ \E n \in accepted : n.key = root /\ n.epoch >= q.epoch + 2
          BY <2>3, <3>5, <4>2 DEF Placed
        <5>2. q.epoch \in Epochs
          BY SMT, <4>2 DEF WelcomeInv, TypeOK, Packets
        <5>3. CASE EpochInSlots(r, q.epoch) \/ EpochInSlots(g, q.epoch)
          <6>1. \/ EpochInSlots(rx', q.epoch) \/ EpochInSlots(grace', q.epoch)
                \/ q.epoch \in Displaced(r, rx') \/ p.epoch >= q.epoch + 2
            BY <1>1, <1>2, <1>4, <5>2, <5>3, CommitPlaces
          <6> QED BY <1>1, <3>1, <6>1
        <5>4. CASE q.epoch \in L
          BY <1>1, <5>4
        <5>5. CASE \E n \in accepted : n.key = root /\ n.epoch >= q.epoch + 2
          BY <3>1, <5>5
        <5> QED BY <5>1, <5>3, <5>4, <5>5
      <4> QED BY <3>1, <4>1, <4>2
    <3>6. Placed(accepted', root, lost', rx', grace')
      BY <3>5 DEF Placed
    <3> QED BY <1>1, <3>4, <3>6
  <2> QED BY <2>4, <2>5
<1>8. Trusted' => /\ FromAccepted(accepted, root, rx)'
                  /\ FromAccepted(accepted, root, grace)'
                  /\ Placed(accepted, root, lost, rx, grace)'
  BY <1>7 DEF FromAccepted, Placed, EpochInSlots, InSlot
<1> QED BY <1>5, <1>6, <1>8 DEF WelcomeInv

LEMMA WelcomeNext == TypeOK /\ WelcomeInv /\ [Next]_vars => WelcomeInv'
  BY WelcomeRemote, WelcomeSync, WelcomePrecheck, WelcomeCommit DEF Next

(* The known epochs are those of the slots and the send_epoch.             *)
LEMMA BaselineBound ==
  ASSUME NEW r \in SlotPairs, r[0].valid, sendEpoch \in Epochs
  PROVE  Baseline(r) \in Nat /\ r[0].epoch <= Baseline(r)
<1> DEFINE known == {sendEpoch} \cup {r[i].epoch : i \in {j \in {0, 1} : r[j].valid}}
<1>1. \E e \in known : \A f \in known : f <= e
  <2>1. sendEpoch \in Nat /\ r[0].epoch \in Nat /\ r[1].epoch \in Nat
    BY SMT, Bounds DEF SlotPairs, Slots, Epochs
  <2>2. known = {sendEpoch, r[0].epoch} \/ known = {sendEpoch, r[0].epoch, r[1].epoch}
    OBVIOUS
  <2> HIDE DEF known
  <2> QED BY SMT, <2>1, <2>2
<1>2. r[0].epoch \in known /\ known \subseteq Nat
  BY SMT, Bounds DEF SlotPairs, Slots, Epochs
<1>3. Baseline(r) = CHOOSE e \in known : \A f \in known : f <= e
  BY DEF Baseline
<1> HIDE DEF known
<1> QED BY <1>1, <1>2, <1>3

LEMMA WelcomeImplies == TypeOK /\ WelcomeInv => InWindowIsWelcome
<1> SUFFICES ASSUME TypeOK, WelcomeInv, syn.pc = "idle", ~crossed,
                    NEW p \in net, p \notin accepted, p.key = root, LastTwo(p),
                    p.epoch \notin lost, ~Overtaken(p), Opened(p) \/ Newest(p)
             PROVE  Fresh(rx, grace, p.epoch, p.seq)
  BY DEF InWindowIsWelcome
<1>1. p \in Packets /\ p.epoch \in Epochs /\ p.seq \in Seqs
  BY DEF TypeOK, Packets
<1>2. rx \in SlotPairs /\ grace \in SlotPairs /\ sendEpoch \in Epochs
  BY DEF TypeOK, SlotPairs
<1>3. /\ FromAccepted(accepted, root, rx) /\ FromAccepted(accepted, root, grace)
      /\ Placed(accepted, root, lost, rx, grace)
      /\ accepted \subseteq net
  BY DEF WelcomeInv, Trusted
<1>4. ASSUME NEW slots \in SlotPairs, FromAccepted(accepted, root, slots),
             NEW i \in {0, 1}, InSlot(slots, i, p.epoch)
      PROVE  CanAccept(slots[i].window, p.seq)
  <2> DEFINE w == slots[i].window
  <2>1. w \in Windows /\ w.max \in Seqs
    BY DEF SlotPairs, Slots, Windows
  <2>2. \A x \in w.seen \cup {w.max} : [key |-> root, epoch |-> p.epoch, seq |-> x] \in accepted
    BY <1>4 DEF FromAccepted, InSlot
  <2> HIDE DEF w
  <2>3. p.seq \notin w.seen
    <3>1. p = [key |-> root, epoch |-> p.epoch, seq |-> p.seq]
      BY <1>1 DEF Packets
    <3> QED BY <2>2, <3>1
  <2>4. ~(w.max >= p.seq + W)
    <3> DEFINE n == [key |-> root, epoch |-> p.epoch, seq |-> w.max]
    <3>1. n \in accepted /\ n.key = p.key /\ n.seq = w.max
      BY <2>2
    <3> HIDE DEF n
    <3> QED BY <3>1 DEF Overtaken, Known
  <2>5. CanAccept(w, p.seq)
    BY SMT, <1>1, <2>1, <2>3, <2>4, SecureDatagramConstants, Bounds DEF CanAccept, Seqs
  <2> QED BY <2>5 DEF w
<1>5. ASSUME NEW slots \in SlotPairs, FromAccepted(accepted, root, slots),
             EpochInSlots(slots, p.epoch)
      PROVE  CanAccept(slots[SlotOf(slots, p.epoch)].window, p.seq)
  BY <1>4, <1>5 DEF EpochInSlots, SlotOf
<1>6. CASE EpochInSlots(grace, p.epoch)
  BY <1>2, <1>3, <1>5, <1>6 DEF Fresh, Unseen
<1>7. CASE ~EpochInSlots(grace, p.epoch) /\ ~rx[0].valid
  BY <1>7 DEF Fresh, Unseen
<1>8. CASE ~EpochInSlots(grace, p.epoch) /\ rx[0].valid /\ EpochInSlots(rx, p.epoch)
  BY <1>2, <1>3, <1>5, <1>8 DEF Fresh, Unseen
<1>9. CASE ~EpochInSlots(grace, p.epoch) /\ rx[0].valid /\ ~EpochInSlots(rx, p.epoch)
  <2>1. ~Opened(p)
    <3> SUFFICES ASSUME NEW q \in accepted, q.key = root, q.epoch = p.epoch PROVE FALSE
      BY DEF Opened, Known
    <3>1. PICK n \in accepted : n.key = root /\ n.epoch >= p.epoch + 2
      BY <1>3, <1>9 DEF Placed
    <3>2. n \in net /\ n.epoch \in Epochs
      BY SMT, <1>3 DEF TypeOK, Packets
    <3>3. n.epoch <= p.epoch + 1
      BY <3>1, <3>2 DEF LastTwo
    <3> QED BY SMT, <1>1, <3>1, <3>2, <3>3, Bounds DEF Epochs
  <2>2. PICK q \in Known(p) : q.epoch = rx[0].epoch
    <3>1. [key |-> root, epoch |-> rx[0].epoch, seq |-> rx[0].window.max] \in accepted
      BY <1>3, <1>9 DEF FromAccepted
    <3> QED BY SMT, <3>1 DEF Known
  <2>3. rx[0].epoch < p.epoch /\ p.epoch <= rx[0].epoch + Ahead
    BY <2>1, <2>2 DEF Newest
  <2>4. ~TooFar(rx, p.epoch)
    <3>1. Baseline(rx) \in Nat /\ rx[0].epoch <= Baseline(rx)
      BY <1>2, <1>9, BaselineBound
    <3>2. rx[0].epoch \in Nat /\ p.epoch \in Nat /\ Ahead \in Nat
      BY SMT, <1>1, <1>2, SecureDatagramConstants, Bounds DEF SlotPairs, Slots, Epochs
    <3> QED BY SMT, <2>3, <3>1, <3>2 DEF TooFar
  <2> QED BY <1>9, <2>3, <2>4 DEF Fresh, Unseen
<1> QED BY <1>6, <1>7, <1>8, <1>9

(* decrypt_payload turns no packet away that it should take, for every     *)
(* window width, look-ahead and number of threads: a packet of the last    *)
(* two epochs, whose window was not given up and which is not too far      *)
(* behind, passes precheck_replay through reordering, rotation and         *)
(* resynchronisation.                                                      *)
THEOREM InWindowIsWelcomeAlways == Spec => []InWindowIsWelcome
<1>1. TypeOK /\ WelcomeInv => InWindowIsWelcome
  BY WelcomeImplies
<1>2. Init => WelcomeInv
  BY WelcomeInit
<1>3. TypeOK /\ WelcomeInv /\ [Next]_vars => WelcomeInv'
  BY WelcomeNext
<1> QED BY <1>1, <1>2, <1>3, SessionTypes, PTL DEF Spec
=============================================================================
