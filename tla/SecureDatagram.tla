--------------------------- MODULE SecureDatagram ---------------------------
(***************************************************************************)
(* One direction of a SecureDatagramSession (src/iconnectd/src/peers/      *)
(* secure_datagram.rs): the remote end encrypts packets under (epoch, seq) *)
(* nonces, the local end decrypts them.  The session object is shared by   *)
(* the receive loops of every connection of the peer, so several threads   *)
(* run decrypt_payload at once, each in three separate critical sections   *)
(* (precheck_replay, get_or_create_encryptor, commit_replay), while a      *)
(* handshake that ends as initiator may run sync_root_key in between.      *)
(*                                                                         *)
(* The network is the set of packets sent: a packet is received any number *)
(* of times, in any order, or never.  Wall-clock time appears only through *)
(* what it decides: a slot being idle for more than EVICT_IDLE_AFTER_MS,   *)
(* the grace period being over, a rotation being due.  Each is a free      *)
(* choice at the place where the code compares times.  The generation is   *)
(* left out: every session of the program has generation 1                 *)
(* (peer_session.rs:105 and :128, WEB_SESSION_GENERATION).                 *)
(***************************************************************************)
EXTENDS Integers, FiniteSets

CONSTANTS
  Threads,        \* receive loops that share the session
  W,              \* width of the replay window (256)
  Ahead,          \* MAX_ACCEPTED_RX_EPOCH_AHEAD (3)
  FailThreshold,  \* DECRYPT_FAIL_THRESHOLD (10)
  MaxKey,         \* bound: root keys the remote end creates
  MaxEpoch,       \* bound: epochs
  MaxSeq,         \* bound: highest number sent under one root key
  MaxSent,        \* bound: packets sent
  MaxSync,        \* bound: handshake answers of the remote end
  MaxTimeouts     \* bound: checks that find a slot idle or the grace period over

ASSUME SecureDatagramConstants ==
  /\ W \in Nat \ {0}
  /\ Ahead \in Nat
  /\ FailThreshold \in Nat \ {0}
  /\ MaxKey \in Nat \ {0}
  /\ {MaxEpoch, MaxSeq, MaxSent, MaxSync, MaxTimeouts} \subseteq Nat

VARIABLES
  snd,        \* the remote session: root key, send_epoch, next send_seq
  net,        \* every packet sent
  answers,    \* handshake answers not yet applied
  nsync,      \* answers made so far
  timeouts,   \* checks so far that found a slot idle or the grace period over
  root,       \* root_key
  sendEpoch,  \* send_epoch of this end
  rx,         \* rx_slots of this direction
  grace,      \* sync_rx_grace of this direction; two empty slots when inactive
  cache,      \* key_cache of this direction
  valid,      \* ~invalidated
  fails,      \* decrypt_fail_count
  thr,        \* decrypt_payload of each thread
  syn,        \* sync_root_key, while a handshake task runs it
  delivered,  \* history: how often (epoch, seq) was accepted since last forgotten
  accepted,   \* history: every packet accepted
  exposed,    \* history: packets that were recorded and would be taken again
  lost,       \* history: epochs whose window was given up
  crossed     \* history: a packet of another root key entered the windows

remote == <<snd, net, answers, nsync>>
session == <<root, sendEpoch, rx, grace, cache, valid, fails>>
history == <<timeouts, delivered, exposed, accepted, lost, crossed>>
vars == <<snd, net, answers, nsync, root, sendEpoch, rx, grace, cache, valid,
          fails, thr, syn, timeouts, delivered, exposed, accepted, lost, crossed>>

Keys == 1 .. MaxKey
Epochs == 0 .. MaxEpoch
Seqs == 0 .. MaxSeq
Packets == [key : Keys, epoch : Epochs, seq : Seqs]
Windows == [valid : BOOLEAN, max : Seqs, seen : SUBSET Seqs]
Slots == [valid : BOOLEAN, epoch : Epochs, window : Windows]
Answers == [key : Keys, epoch : Epochs, preserve : BOOLEAN]

(* ReplayWindow256.  Bit i of the bitmap stands for max_seq - i, so the    *)
(* bitmap is the set of sequence numbers it marks.                         *)
NoWindow == [valid |-> FALSE, max |-> 0, seen |-> {}]

(* Mutant: the far edge of the window is one number too wide.              *)
CanAcceptWide(w, s) ==
  \/ ~w.valid
  \/ s > w.max
  \/ w.max - s <= W /\ s \notin w.seen

CanAccept(w, s) ==
  \/ ~w.valid
  \/ s > w.max
  \/ w.max - s < W /\ s \notin w.seen

(* Mutant: max_seq is left at the next number expected.                    *)
AcceptNext(w, s) ==
  IF w.valid /\ s <= w.max THEN w
  ELSE [valid |-> TRUE, max |-> s + 1, seen |-> {s}]

Accept(w, s) ==
  IF ~w.valid THEN [valid |-> TRUE, max |-> s, seen |-> {s}]
  ELSE IF s > w.max
       THEN [valid |-> TRUE, max |-> s, seen |-> {x \in w.seen : s - x < W} \cup {s}]
  ELSE IF CanAccept(w, s) THEN [valid |-> TRUE, max |-> w.max, seen |-> w.seen \cup {s}]
  ELSE w

(* EpochRxSlot and the two slots of a direction: 0 current, 1 previous.    *)
NoSlot == [valid |-> FALSE, epoch |-> 0, window |-> NoWindow]
NoSlots == [i \in {0, 1} |-> NoSlot]
NewSlot(e, s) == [valid |-> TRUE, epoch |-> e, window |-> Accept(NoWindow, s)]

InSlot(slots, i, e) == slots[i].valid /\ slots[i].epoch = e
EpochInSlots(slots, e) == InSlot(slots, 0, e) \/ InSlot(slots, 1, e)
SlotOf(slots, e) == IF InSlot(slots, 0, e) THEN 0 ELSE 1

Evict(slots, idle) == [i \in {0, 1} |-> IF i \in idle THEN NoSlot ELSE slots[i]]

Baseline(r) ==
  LET known == {sendEpoch} \cup {r[i].epoch : i \in {j \in {0, 1} : r[j].valid}}
  IN  CHOOSE e \in known : \A f \in known : f <= e

TooFar(r, e) == e > Baseline(r) + Ahead

(* (e, s) is not recorded in the slots, and e is not older than they are.  *)
(* The grace slots go first: their epochs are looked up nowhere else.      *)
Unseen(r, g, e, s) ==
  IF EpochInSlots(g, e) THEN CanAccept(g[SlotOf(g, e)].window, s)
  ELSE \/ ~r[0].valid
       \/ EpochInSlots(r, e) /\ CanAccept(r[SlotOf(r, e)].window, s)
       \/ ~EpochInSlots(r, e) /\ e > r[0].epoch

(* precheck_replay, and what commit_replay returns: the two apply the same *)
(* test, each to the slots as they are when it holds the lock.             *)
Fresh(r, g, e, s) ==
  /\ Unseen(r, g, e, s)
  /\ EpochInSlots(g, e) \/ ~r[0].valid \/ EpochInSlots(r, e) \/ ~TooFar(r, e)

Mark(slots, e, s) ==
  [i \in {0, 1} |->
     IF i = SlotOf(slots, e)
     THEN [valid |-> TRUE, epoch |-> e, window |-> Accept(slots[i].window, s)]
     ELSE slots[i]]

CommitGrace(g, e, s) == IF EpochInSlots(g, e) THEN Mark(g, e, s) ELSE g

(* Mutant: a newer epoch replaces the current slot instead of moving it.   *)
CommitRxReplaces(r, g, e, s) ==
  IF EpochInSlots(g, e) THEN r
  ELSE IF r[0].valid /\ EpochInSlots(r, e) THEN Mark(r, e, s)
  ELSE IF ~r[0].valid \/ (e > r[0].epoch /\ ~TooFar(r, e))
       THEN [r EXCEPT ![0] = NewSlot(e, s)]
  ELSE r

CommitRx(r, g, e, s) ==
  IF EpochInSlots(g, e) THEN r
  ELSE IF ~r[0].valid THEN [r EXCEPT ![0] = NewSlot(e, s)]
  ELSE IF EpochInSlots(r, e) THEN Mark(r, e, s)
  ELSE IF e > r[0].epoch /\ ~TooFar(r, e)
       THEN [i \in {0, 1} |-> IF i = 0 THEN NewSlot(e, s) ELSE r[0]]
  ELSE r

(* key_cache: the traffic key of an epoch is determined by the root key it *)
(* was derived from.                                                       *)
NoKey == [valid |-> FALSE, epoch |-> 0, key |-> 0]
NoKeys == [i \in {0, 1} |-> NoKey]

CachedKey(e) == cache[SlotOf(cache, e)].key

InsertKey(e) ==
  [cache EXCEPT ![IF ~cache[0].valid \/ cache[0].epoch = e THEN 0 ELSE 1] =
     [valid |-> TRUE, epoch |-> e, key |-> root]]

PruneKeyCache(r, g) ==
  [i \in {0, 1} |->
     [cache[i] EXCEPT !.valid =
        @ /\ \/ cache[i].epoch = sendEpoch
             \/ EpochInSlots(r, cache[i].epoch)
             \/ EpochInSlots(g, cache[i].epoch)]]

ValidIn(slots) == {slots[i].epoch : i \in {j \in {0, 1} : slots[j].valid}}

(* evict_old_rx_slots, sync_rx_grace_active and maybe_expire: the slots a  *)
(* check may be left with.                                                 *)
Evicted(slots) == {Evict(slots, idle) : idle \in SUBSET {i \in {0, 1} : slots[i].valid}}
Aged ==
  IF timeouts < MaxTimeouts
  THEN Evicted(rx) \X ({NoSlots} \cup Evicted(grace))
  ELSE {<<rx, grace>>}

(* The window in which (e, s) is looked up holds it.                       *)
Recorded(r, g, e, s) ==
  \/ EpochInSlots(g, e) /\ ~CanAccept(g[SlotOf(g, e)].window, s)
  \/ ~EpochInSlots(g, e) /\ EpochInSlots(r, e) /\ ~CanAccept(r[SlotOf(r, e)].window, s)

(* What the history forgets when windows are given up: the packets that no *)
(* window holds and that are not of too old an epoch either.               *)
Forget(d, r, g) ==
  [e \in Epochs |-> [s \in Seqs |->
     IF Unseen(r, g, e, s) /\ ~Recorded(r, g, e, s) THEN 0 ELSE d[e][s]]]

(* What would be taken again although it is recorded: with an idle current *)
(* slot evicted, precheck_replay returns and commit_replay opens a new     *)
(* slot before they come to the previous slot.                             *)
Exposed(r, g) ==
  {q \in Epochs \X Seqs : Unseen(r, g, q[1], q[2]) /\ Recorded(r, g, q[1], q[2])}

NoPacket == [key |-> 1, epoch |-> 0, seq |-> 0]
IdleThread == [pc |-> "idle", pkt |-> NoPacket]
IdleSync == [pc |-> "idle", epoch |-> 0, keep |-> FALSE]

Init ==
  /\ snd = [key |-> 1, epoch |-> 0, seq |-> 0]
  /\ net = {}
  /\ answers = {}
  /\ nsync = 0
  /\ root = 1
  /\ sendEpoch = 0
  /\ rx = NoSlots
  /\ grace = NoSlots
  /\ cache = NoKeys
  /\ valid = TRUE
  /\ fails = 0
  /\ thr = [t \in Threads |-> IdleThread]
  /\ syn = IdleSync
  /\ timeouts = 0
  /\ delivered = [e \in Epochs |-> [s \in Seqs |-> 0]]
  /\ exposed = {}
  /\ accepted = {}
  /\ lost = {}
  /\ crossed = FALSE

(***************************************************************************)
(* The remote end.                                                         *)
(***************************************************************************)

(* encrypt_payload: a rotation when one is due, then the next number.      *)
Send(rotate) ==
  LET e == IF rotate THEN snd.epoch + 1 ELSE snd.epoch
  IN  /\ snd.seq <= MaxSeq
      /\ Cardinality(net) < MaxSent
      /\ e <= MaxEpoch
      /\ net' = net \cup {[key |-> snd.key, epoch |-> e, seq |-> snd.seq]}
      /\ snd' = [key |-> snd.key, epoch |-> e, seq |-> snd.seq + 1]
      /\ UNCHANGED <<answers, nsync, session, thr, syn, history>>

(* upsert_responder_session with a live session: next_sync_epoch is above  *)
(* the remote send_epoch and its receive slots.                            *)
AnswerSync(e) ==
  /\ nsync < MaxSync
  /\ e > snd.epoch
  /\ answers' = answers \cup {[key |-> snd.key, epoch |-> e, preserve |-> TRUE]}
  /\ nsync' = nsync + 1
  /\ UNCHANGED <<snd, net, session, thr, syn, history>>

(* upsert_responder_session without one: a session under a new root key.   *)
AnswerCreate ==
  /\ nsync < MaxSync
  /\ snd.key < MaxKey
  /\ snd' = [key |-> snd.key + 1, epoch |-> 0, seq |-> 0]
  /\ answers' = answers \cup {[key |-> snd.key + 1, epoch |-> 0, preserve |-> FALSE]}
  /\ nsync' = nsync + 1
  /\ UNCHANGED <<net, session, thr, syn, history>>

(* encrypt_payload of this end, when its rotation is due: the other        *)
(* direction sees the new send_epoch.                                      *)
RotateEpoch ==
  /\ valid
  /\ sendEpoch < MaxEpoch
  /\ sendEpoch' = sendEpoch + 1
  /\ UNCHANGED <<remote, root, rx, grace, cache, valid, fails, thr, syn, history>>

(***************************************************************************)
(* sync_root_key, one step per lock or atomic it goes through.             *)
(***************************************************************************)

SyncRoot(a) ==
  /\ syn.pc = "idle"
  /\ valid
  /\ answers' = answers \ {a}
  /\ root' = a.key
  /\ syn' = [pc |-> "epoch", epoch |-> a.epoch, keep |-> a.preserve /\ root = a.key]
  /\ UNCHANGED <<snd, net, nsync, sendEpoch, rx, grace, cache, valid, fails, thr, history>>

SyncEpoch ==
  /\ syn.pc = "epoch"
  /\ sendEpoch' = syn.epoch
  /\ syn' = [syn EXCEPT !.pc = "rx"]
  /\ UNCHANGED <<remote, root, rx, grace, cache, valid, fails, thr, history>>

SyncRx ==
  /\ syn.pc = "rx"
  /\ rx' = NoSlots
  /\ grace' = IF syn.keep THEN rx ELSE NoSlots
  /\ syn' = [syn EXCEPT !.pc = "cache"]
  /\ delivered' = Forget(delivered, rx', grace')
  /\ exposed' = IF syn.keep THEN exposed ELSE {}
  /\ lost' = IF syn.keep THEN lost \cup (ValidIn(grace) \ ValidIn(rx))
                         ELSE {q.epoch : q \in {p \in accepted : p.key = root}}
  /\ crossed' = (crossed /\ syn.keep)
  /\ UNCHANGED <<remote, root, sendEpoch, cache, valid, fails, thr, accepted, timeouts>>

(* Mutant: the cached traffic keys outlive the root key.                   *)
SyncCacheKept ==
  /\ syn.pc = "cache"
  /\ syn' = IdleSync
  /\ UNCHANGED <<remote, root, sendEpoch, rx, grace, cache, valid, fails, thr, history>>

SyncCache ==
  /\ syn.pc = "cache"
  /\ cache' = NoKeys
  /\ syn' = IdleSync
  /\ UNCHANGED <<remote, root, sendEpoch, rx, grace, valid, fails, thr, history>>

(***************************************************************************)
(* decrypt_payload of thread t.                                            *)
(***************************************************************************)

Timeout(r, g) == timeouts' = IF r = rx /\ g = grace THEN timeouts ELSE timeouts + 1

Precheck(t, p, r, g) ==
  /\ valid
  /\ thr[t].pc = "idle"
  /\ Timeout(r, g)
  /\ rx' = r
  /\ grace' = g
  /\ thr' = IF Fresh(r, g, p.epoch, p.seq)
            THEN [thr EXCEPT ![t] = [pc |-> "open", pkt |-> p]]
            ELSE thr
  /\ delivered' = IF r = rx /\ g = grace THEN delivered ELSE Forget(delivered, r, g)
  /\ exposed' = exposed \cup Exposed(r, g)
  /\ lost' = lost \cup ((ValidIn(rx) \cup ValidIn(grace)) \ (ValidIn(r) \cup ValidIn(g)))
  /\ UNCHANGED <<remote, root, sendEpoch, cache, valid, fails, syn, accepted, crossed>>

(* get_or_create_encryptor holds the cache lock; what follows it touches   *)
(* only the failure count.                                                 *)
Open(t) ==
  LET p == thr[t].pkt
      hit == EpochInSlots(cache, p.epoch)
      good == (IF hit THEN CachedKey(p.epoch) ELSE root) = p.key
  IN  /\ thr[t].pc = "open"
      /\ cache' = IF hit THEN cache ELSE InsertKey(p.epoch)
      /\ fails' = IF good THEN 0 ELSE fails + 1
      /\ valid' = (valid /\ fails' < FailThreshold)
      /\ thr' = [thr EXCEPT ![t] = IF good THEN [@ EXCEPT !.pc = "commit"] ELSE IdleThread]
      /\ UNCHANGED <<remote, root, sendEpoch, rx, grace, syn, history>>

(* The slot that leaves when a newer epoch arrives is the older of the     *)
(* two, unless an idle current slot was evicted and an older epoch took    *)
(* its place.  History counts its epoch as given up then (Displaced), and  *)
(* its packets as exposed if it is newer than both slots (DropsNewer).     *)
DropsNewer(r, r2) == r[1].valid /\ r2[1] # r[1] /\ r[1].epoch > r2[0].epoch
Dropped(r, r2) == IF DropsNewer(r, r2) THEN {r[1].epoch} \X Seqs ELSE {}
Displaced(r, r2) ==
  {e \in {r[1].epoch} : r[1].valid /\ e > r[0].epoch /\ r2[1].epoch # e}

Commit(t, r, g) ==
  LET p == thr[t].pkt
      ok == Fresh(r, g, p.epoch, p.seq)
      kept == IF r = rx /\ g = grace THEN delivered ELSE Forget(delivered, r, g)
  IN  /\ thr[t].pc = "commit"
      /\ Timeout(r, g)
      /\ rx' = CommitRx(r, g, p.epoch, p.seq)
      /\ grace' = CommitGrace(g, p.epoch, p.seq)
      /\ cache' = PruneKeyCache(rx', grace')
      /\ thr' = [thr EXCEPT ![t] = IdleThread]
      /\ delivered' = IF ok THEN [kept EXCEPT ![p.epoch][p.seq] = @ + 1] ELSE kept
      /\ exposed' = exposed \cup Exposed(r, g) \cup Dropped(r, rx')
      /\ accepted' = IF ok THEN accepted \cup {p} ELSE accepted
      /\ lost' = lost \cup ((ValidIn(rx) \cup ValidIn(grace)) \ (ValidIn(r) \cup ValidIn(g)))
                      \cup Displaced(r, rx')
      /\ crossed' = (crossed \/ (ok /\ p.key # root))
      /\ UNCHANGED <<remote, root, sendEpoch, valid, fails, syn>>

Next ==
  \/ \E rotate \in BOOLEAN : Send(rotate)
  \/ \E e \in Epochs : AnswerSync(e)
  \/ AnswerCreate
  \/ RotateEpoch
  \/ \E a \in answers : SyncRoot(a)
  \/ SyncEpoch
  \/ SyncRx
  \/ SyncCache
  \/ \E t \in Threads : Open(t)
  \/ \E a \in Aged, t \in Threads :
       \/ \E p \in net : Precheck(t, p, a[1], a[2])
       \/ Commit(t, a[1], a[2])

Spec == Init /\ [][Next]_vars

(***************************************************************************)
(* Properties.                                                             *)
(***************************************************************************)

(* Every variable keeps its type; a window's max_seq is a number that was  *)
(* sent.                                                                   *)
TypeOK ==
  /\ snd \in [key : Keys, epoch : Epochs, seq : Nat]
  /\ net \subseteq Packets
  /\ answers \subseteq Answers
  /\ nsync \in 0 .. MaxSync
  /\ root \in Keys
  /\ sendEpoch \in Epochs
  /\ rx \in [{0, 1} -> Slots]
  /\ grace \in [{0, 1} -> Slots]
  /\ cache \in [{0, 1} -> [valid : BOOLEAN, epoch : Epochs, key : Keys \cup {0}]]
  /\ valid \in BOOLEAN
  /\ fails \in Nat
  /\ thr \in [Threads -> [pc : {"idle", "open", "commit"}, pkt : Packets]]
  /\ syn \in [pc : {"idle", "epoch", "rx", "cache"}, epoch : Epochs, keep : BOOLEAN]
  /\ timeouts \in 0 .. MaxTimeouts
  /\ delivered \in [Epochs -> [Seqs -> Nat]]
  /\ exposed \subseteq Epochs \X Seqs

(* decrypt_payload hands a packet on at most once, although two threads    *)
(* may both pass precheck_replay with it before either of them commits,    *)
(* and although sync_root_key may move the windows to the grace slots in   *)
(* between: as long as the session can tell that it had the packet, by the *)
(* window that recorded it or by an epoch older than the current slot      *)
(* (until a slot idles out, a grace period ends or the slots are cleared   *)
(* for a new handshake).  The exception, exposed: once the current slot    *)
(* idled out, neither precheck_replay nor commit_replay looks at a         *)
(* previous slot that is still there, and what it records is taken again.  *)
(* The same goes for a previous slot that is newer than the one taking the *)
(* idle slot's place and is dropped when the next epoch arrives (Dropped). *)
AtMostOnce ==
  \A e \in Epochs, s \in Seqs : <<e, s>> \notin exposed => delivered[e][s] <= 1

(* Outside sync_root_key every valid slot of the key cache holds a key     *)
(* derived from the current root key: a thread that derived one while the  *)
(* root key was being replaced has not left it behind.                     *)
CachedKeyIsCurrent ==
  syn.pc = "idle" => \A i \in {0, 1} : cache[i].valid => cache[i].key = root

Known(p) == {q \in accepted : q.key = p.key}
Overtaken(p) == \E q \in Known(p) : q.seq >= p.seq + W
Opened(p) == \E q \in Known(p) : q.epoch = p.epoch
LastTwo(p) == \A q \in {n \in net : n.key = p.key} : q.epoch <= p.epoch + 1
Newest(p) == \A q \in Known(p) : q.epoch < p.epoch /\ p.epoch <= q.epoch + Ahead

(* Reordering, a rotation and a resynchronisation do not cost a packet: a  *)
(* packet not yet accepted, under the current root key, of the last two    *)
(* epochs sent under it, that no accepted packet is W or more numbers      *)
(* ahead of, passes precheck_replay, if its epoch has been heard of (and   *)
(* its window not given up) or is a little newer than all that were heard. *)
(* The exception, crossed: a thread that opened a packet before the root   *)
(* key was replaced commits its number into the new windows.               *)
InWindowIsWelcome ==
  syn.pc = "idle" /\ ~crossed =>
    \A p \in net \ accepted :
      /\ p.key = root
      /\ LastTwo(p)
      /\ p.epoch \notin lost
      /\ ~Overtaken(p)
      /\ Opened(p) \/ Newest(p)
      => Fresh(rx, grace, p.epoch, p.seq)
=============================================================================
