# iConnect: a TLA+ verification project

iConnect builds a mesh VPN: daemons (`iconnectd`) connect to each other over
tunnels, flood routing information, relay packets for each other and are managed
locally or from a web server (`iconnect-web`). The code that is built is
`src/iconnectd/src`; `src/iconnectd/easytier` is an unbuilt upstream copy
(`docs/android-port-plan.md`, section 2.4) and is not modelled.

The project models the parts of the daemon in which several tasks, threads or
peers change shared state: the modules below are checked by TLC on small instances,
and the safety invariants of all of them but the route table are proved with TLAPS
for every instance (section 11 says what is not). `PROJECT.json` maps every definition to the
lines it translates.

## 1. The system and its parts

| Part | Code (`src/iconnectd/src`) | Modules |
|---|---|---|
| Route flooding | `peers/peer_ospf_route.rs` | `RouteSync`, `MCRouteSync`; proofs `RouteSyncTypes`, `RouteSyncProofs` |
| Relay sessions | `peers/relay_peer_map.rs`, `peers/peer_session.rs` | `RelaySession`; proofs `RelaySessionProofs` |
| Manual connectors | `connector/manual.rs` | `ManualConnector`; proofs `ManualConnectorProofs` |
| Secure datagrams | `peers/secure_datagram.rs` | `SecureDatagram`, `MCSecureDatagram`; proofs `SecureDatagramProofs` |
| Route sessions and their initiators | `peers/peer_ospf_route.rs` (`maintain_sessions`) | `RouteSession`; proofs `RouteSessionProofs` |
| Route table and path selection | `peers/peer_ospf_route.rs`, `peers/graph_algo.rs` | `RouteTable`, `MCRouteTable` |
| Peer RPC | `proto/rpc_impl/*` | `RpcCalls` (abstract), `PeerRpc`; proofs `PeerRpcProofs` |
| Peers and their connections | `peers/peer_map.rs`, `peer.rs`, `peer_conn.rs` | `PeerConns`, `MCPeerConns`; proofs `PeerConnsProofs` |
| Everything else | see section 12 and `PROJECT.json` | not modelled |

How they interact: a manual connector opens tunnels and hands them to the peer
manager, which makes them connections of a peer. The set of directly connected
peers is what route flooding publishes; the route table derived from it gives the
next hops over which relay sessions exchange handshakes and encrypted packets.
Route flooding calls its neighbours through peer RPC. Every session of a relay, a
direct connection or the web client encrypts with a secure datagram session.

The modules meet at these places: what `PeerConns` keeps as live URLs is `alive` of
`ManualConnector`; the calls of `RouteSync` and `RouteSession` are calls as
`RpcCalls` describes them (answered once or failed, perhaps executed all the same);
`RouteSync` starts and stops sessions freely, which covers the choices of
`RouteSession`; the database of `RouteSync` is the route information of
`RouteTable`; the keys of `RelaySession` are the root keys of `SecureDatagram`, of
which it uses the failure count.

The runtimes are multi-threaded (`launcher.rs:224`, `android.rs:124`), so tasks
interleave between any two accesses to shared state that no lock joins, not only at
awaits. The modules make a step of each such access wherever the order matters.

## 2. RouteSync: flooding of peer infos and neighbour lists

**State.** Each node has a database `info`, `conn` (`SyncedRouteInfo`), its
reachability `reach` (route table), the `cached` bitmap with `dbv`, how far the
database's version is ahead of it, the rebuild `job`s, and a session per neighbour
`sess` (`SyncRouteSession`: ids, saved versions, what the time stamps make it skip,
the lists of unreachable entries). `calls` are `sync_route_info` calls in flight;
`published` is history.

**Actions.** `UpdateMyPeerInfo`, `UpdateMyConnInfo`, `ClearExpiredPeer` change the
database; `RebuildTable` and `RebuildRows` are the two halves of
`update_route_table_and_cached_local_conn_bitmap`, between which its lock on the
map is released; `SyncRouteWithPeer`, `DoSyncRouteInfo`, `SyncRouteDone` are the
caller's, callee's and answer's part of a call; `StartSession`, `StopSession`,
`CleanDstSavedMap`, `CallTimeout`, `CallLost`, `Connect`, `Disconnect` the rest.

**Abstractions.** An info is its version. Wall-clock times, which are only compared
with each other, become the sets of entries older than the last successful sync.
A request's infos and lists are merged in one step. Sessions start and stop at any
time, which covers every choice of `maintain_sessions`. Foreign networks and
credentials are not in the database. `Unrenewed` says whether the entry of a reachable
peer may miss its hourly renewal and be removed as dead; a node's own entry is always
renewed in time, that is, the system clock does not jump by an hour. `SupportsList`
lets a node that knows its partner's info send lists instead of the cached
bitmap (`UsesList`); with FALSE everybody sends the bitmap.

| Run | Instance | Shows |
|---|---|---|
| `RouteSync_pair` | settled pair, one fault, up to four calls, no expiry, lists or bitmaps | skipped infos and saved entries are held; the infos converge, and the lists where finding 1 does not stand in between (fair) |
| `RouteSync_threads` | 2 nodes that have just met, bitmaps, one call at a time, one fault, one expiry | types, versions come from the owner, lists are not older than their version |
| `RouteSync_stale_bitmap` | 2 nodes (violation) | finding 1 |

In all runs a database change, the two halves of the rebuild after it, and the
requests of other threads interleave as they may in the code.

- `SkippedInfoIsHeld`: what the time stamps make a session skip of the infos, the
  partner holds. The same of the lists (`SkippedListIsHeld`) is false: that is
  finding 1, and the settled pair of `RouteSync_pair` reaches it as well.
- `InfosConverge`: after the last fault both nodes have each other's infos.
- `ListsConverge`: they have each other's lists too, if sessions do not go on for ever
  skipping a list the partner does not hold. **Without this condition the lists of a
  pair do not converge**: after finding 1 the two nodes may rest with a list that is
  out of date until its owner changes it again. The property says that this is the
  only way in which they stay apart.
- `SavedIsHeld`: what a session believes saved, the partner has.
- `ListNotOlderThanVersion`: before the first expiry, a list in a database is not older
  than its version, although a bitmap takes versions and rows under two locks. With an
  expiry and a third node it is false (section 10).

`MCRouteSync` has two starts that leave the bounds for what happens in a running
network. In `SettledInit` a pair has exchanged everything; node 1 may change its info,
and the link may break and come back. In `MetInit` the link has just come up again and
only node 1 has noticed. Its list then changes twice more, so that a link breaks
between the two halves of a rebuild that is under way, is announced, and comes back,
with a merge of the partner's entry in between. One fault is the least with which a
stale request, a restarted session and a newer entry meet. `MaxCalls` bounds the calls
in flight. Larger instances outgrow TLC; for safety the theorems of section 11 cover
them.

**Fairness.** `SettledFairSpec` assumes `WF(TaskStep)`: the tasks are loops on a running
runtime, so if one of them always has something to do, one of them does something.
Faults, expiry and connects carry no fairness.

## 3. RelaySession: sessions through relays

Two peers without a direct connection shake hands through relays (Noise messages 1
and 2), store a session and encrypt under its key. `store` is the
`PeerSessionStore`, `pend` `pending_handshakes`, `lock` the handshake locks, `task`
the handshake tasks, `buffered` and `sender` packets that wait and a `send_msg` that
is about to buffer one, `state` and `backoff` the `RelayPeerState`, `handler` a
request that is being handled, `net` and `data` what is under way.

A handshake message may be lost, duplicated, overtaken or slower than the retry
delay; each is a fault and bounded by `MaxFaults`. A key is a number, a packet
the key it is encrypted with. `FailLimit` stands for the ten failures of
`DECRYPT_FAIL_THRESHOLD`, `MaxPending` for the buffer's capacity.

| Run | Instance | Shows |
|---|---|---|
| `RelaySession_heals` | one sends, 2 faults, 1 eviction, 2 handshake tasks | types and buffer bound; a pending entry always has an attempt waiting for it; both peers end up with one key |
| `RelaySession_crossed` | both send, no faults (violation) | finding 2 |

`Heals` assumes that tasks run, the receive loop takes every packet in turn, and the
sender keeps sending. It is checked for traffic one way only. With both peers sending
it does not hold: handshakes can cross again every time both sessions have been
invalidated, and nothing but chance in the timing ends that.

A packet may be buffered after the flush of the handshake it waited for
(`relay_peer_map.rs:188`): `send_msg` finds no session, the handshake ends and
flushes, then the packet is put into the buffer. The model reaches this state. The
packet stays until the next handshake or until idle state is evicted.

## 4. ManualConnector: configured connectors

`connectors`, `reconnecting` and `removed` are the sets of
`ConnectorManagerData`; `alive` are the URLs with a client connection; `proc` is what
the routine and each caller of the management interface is doing, with the local
variables of `handle_remove_connector`; `task` are the reconnect tasks; `wanted` is
history. Each access to a set is a step. A panic is modelled for a build that
unwinds; the release profile aborts the process instead.

| Run | Instance | Shows |
|---|---|---|
| `ManualConnector_calls` | two calls, one new URL, one broken connection, three of these in all | nothing is lost or doubled; configured URLs are connected again and again, unless the routine has panicked |
| `ManualConnector_readd` | one URL added again (violation) | finding 3 |

Three events (`MaxEvents`) are enough for a call to overtake another one, or for an
addition or a broken connection to come between two calls. The instance reaches a
panic: the second call may carry out the first one's removal between the routine's
collection of dead URLs and its `unwrap` (`manual.rs:231`). So the run does not claim
`RoutineNeverPanics`, `StaysConnected` excludes what follows a panic, and deadlock is
not checked because nothing may be left to do then; section 11 says under which
conditions the routine survives. Outside the bounds, because the added URL is new:
adding a URL that is being reconnected (finding 3) or whose removal is noted. The
routine carries out the noted removal later, so that the URL just added is lost; the
theorem about `WantedIsKept` excludes this.

Removals are not promised anything: one that looks while its connector is in neither
set (`manual.rs:239`), or is noted between the iteration and `clear` (`manual.rs:268`),
is lost. Fairness: every task runs (`WF`), and an attempt that is repeated for ever
succeeds at last (`SF` of a successful `Reconnect`), without which nothing could be
connected.

## 5. SecureDatagram: epochs, replay windows, key cache

One direction of a session: the remote end (`snd`) encrypts packets under
(epoch, seq) nonces; `rx`, `grace`, `cache`, `root`, `sendEpoch`, `valid` and `fails`
are the fields of the local `SecureDatagramSession`. The receive loops of all
connections of a peer share it, so `thr` has several `decrypt_payload` calls, each in
three critical sections (`Precheck`, `Open`, `Commit`). `SyncRoot`, `SyncEpoch`,
`SyncRx`, `SyncCache` are the four sections of `sync_root_key`. A replay window is the
set of numbers its bitmap marks. The network is the set of packets ever sent, so each
one may arrive any number of times, in any order or never. Where the code compares
times (idle slots, end of the grace period, rotation) the model chooses. `delivered`,
`exposed`, `accepted`, `lost` and `crossed` are history.

Run `SecureDatagram_replay`: two threads, a window of 2, two root keys, two epochs,
three packets, one sync, one timeout.

- `AtMostOnce`: no packet is delivered twice while the session can tell that it had it:
  a window records it, or its epoch is too old. A window is gone when its slot is idle
  for 30 s, when the grace period ends or a second sync comes in it, and with a new root
  key; the history then starts anew for the packets no window is left for (`Forget`),
  and for no others. One exception is in the statement (`exposed`): when the current
  slot is idle and evicted but the previous one is still valid, `precheck_replay`
  returns before it looks at the previous slot (`secure_datagram.rs:574`) and
  `commit_replay` puts the packet's epoch in the empty place, so a packet the previous
  slot records is delivered once more. The run reaches this, and without the exception
  the property is false. `exposed` also holds the packets of a previous slot that is
  displaced as described below.
- `CachedKeyIsCurrent`: outside `sync_root_key` no key of an old root key is cached.
- `InWindowIsWelcome`: reordering, a rotation and a sync do not cost a packet. Two
  exceptions are in the statement: an epoch whose window was given up (`lost`), and
  packets after a thread that opened a packet before the root key was replaced has
  committed its number into the new windows (`crossed`); a sync that keeps the windows
  keeps that number too. A window is also given up when the current slot is idle and
  evicted, a packet of an older epoch takes the empty place, and the next newer epoch
  then displaces the previous slot, which is the newer of the two (`Displaced`,
  `secure_datagram.rs:672`). A packet of the previous epoch, of
  which none was accepted before the rotation, has no slot and is refused: the
  property speaks of epochs that have been heard of.

A window of 2, one step of look-ahead and three packets are enough for a number to
leave the window, for an epoch to be replaced and for two threads to hold the same
packet; with `MaxEpoch = 2`, and with `FailThreshold = 2`, the run passes as well
but takes much longer. The run does not reach `Displaced`, which takes three epochs and a
window of 3, nor a number that crossed and is kept by a second sync; with one thread
these instances pass too, and the theorem of section 11 covers them. There is no liveness here: nothing has to arrive. Not
modelled: races between senders (`next_nonce` is one step), and two handshake tasks
that sync one session at once.

## 6. RouteSession: who keeps sessions with whom

Each node keeps one session as its initiator and answers in the others.
`sess` has the flags of `SyncRouteSession`, `cur` is `cur_dst_peer_id_to_initiate`,
`known` the NAT types a node has learned, `calls` the requests and answers under way.
`Maintain` is one round of `maintain_sessions`: the sessions of lost neighbours are
stopped, a neighbour that is not known to be an initiator is chosen (one without NAT
first), the flag moves, idle sessions are stopped. `SyncRouteWithPeer`,
`DoSyncRouteInfo`, `Receive` and `Timeout` are a call; `DoSyncRouteInfoOrphaned` is
the handler whose session is stopped under it; `TaskEnds` the task that lagged behind
`sync_now`. A session that is stopped aborts its task, and with it the calls it waits
for (`Abandoned`): a request already sent is still handled, an answer comes to nobody.

Run `RouteSession_spans`: three nodes in a line, one of them without NAT, and any one
fault (a request that is late or lost, an answer to it that is late, a session stopped
under its handler, a link that fails or comes back, a request without need, a task
that ends). One fault is enough to meet every fault at every moment.

- `OneInitiatorSession`: what `peer_ospf_route.rs` says of it, "every node should
  have exactly one initator session", as far as it can hold at every moment.
- `SessionsSettle`: the choices come to rest and the sessions that are left connect
  all nodes that links connect. Fairness: `maintain_sessions` and the session tasks
  are loops, and a call ends.

What the same model shows beyond the run:

- A session task that ends by itself (`peer_ospf_route.rs:3336`) is not replaced:
  `maintain_sessions` stops its session, but starts one only when its choice changes.
  A leaf then has no session at all. `SessionsSettle` excludes this (`ended`).
- On a triangle, `SessionsSettle` fails for a schedule in which the nodes act in lock
  step for ever: each sees the others' flags and all change their choice together.
- On two triangles joined by one link, each triangle may choose in a circle; this is a
  fixed point in which the joining link carries no session. Whether it is reached
  from the start was not checked. `docs/credential_peer.md:377` says that
  `maintain_sessions` builds a minimum spanning tree ("构建最小生成树"); the rule is
  local and on graphs with cycles does not guarantee one.

## 7. RouteTable: next hops and owners of addresses

`info`, `conn`, `suppressed` and `version` are the `SyncedRouteInfo`; `next_hop_map`,
`next_hop_map_version`, `suppressed_peer_ids`, `peer_infos`, `ip_peer_id_map` and
`cidr_peer_id_map` the `RouteTable`. A task changes the route information
(`UpdatePeerInfo`, `UpdateConnInfo`, `RemovePeer`, `ReplaceSuppressed`), increments
the version and rebuilds: `BeginUpdate` under the write lock of `cost_calculator`,
then under its read lock the nodes, the edges of one node after the other, the path
search, the entries one after the other, the version, the infos and addresses of one
peer after the other, the subnets, the clean-up. `ClearExpired` may clean at any time.
`DijkstraWithFirstHop` is the algorithm of `graph_algo.rs`, with any order among
nodes of equal score; the properties compare it with the definition of a best path
over all simple paths.

Run `RouteTable_rebuild`: one rebuild from every undirected network of four nodes,
with and without a node that avoids relaying, for both policies; three tasks that
apply two changes to a triangle while they rebuild; a start without any
information. `AVOID_RELAY_COST` is 100; the code's value only has to exceed the cost
of a path. The three tasks are interchangeable.

- `RoutesAreBest`: at rest a peer has a route exactly if there is a path, and the
  route is first hop, length and latency of a best path.
- `OwnersAreNearest`: at rest every announced address and subnet belongs to a nearest
  peer that announces it. The map of subnets is stored whatever its version
  (`peer_ospf_route.rs:1785`). It is right because of the lock: overlapping rebuilds all
  passed `BeginUpdate` before the first of them read anything, so a rebuild that has
  not seen a change is over before the rebuild for that change begins. With the read
  lock released once the next hops are written, the property is violated.
- `NeverLost`: a peer reachable over links no change has touched has a route at every
  moment of every rebuild.

The triangle is checked for `LeastCost` in the run; the policies differ only in the
path search, which the first set of starts covers. Costs are constant. In the code
`end_update` of the peer center (`peer_center/instance.rs:391`) notes the time of the
present costs and not of those `begin_update` cloned, so that costs that arrive
between the two wait for the next change; this is outside the model. The model shows
one thing more: an address that its owner gives up stays mapped to it while the owner
is reachable and nobody else claims it (`peer_ospf_route.rs:1505` tests reachability
only).

## 8. PeerRpc: calls between peers

`RpcCalls` says what a user of the RPC layer may rely on: a call ends once, answered
or failed; an answer comes from executions of this call; a call is executed at most
once more than packets were duplicated; and every call ends. `PeerRpc` is the
implementation: `inflight`, `merger`, `rx`, `phase` of the clients, `held`, `mergers`,
`handlers` of the server, and the network, which loses, reorders, delays and (bounded)
duplicates pieces. `Begin`, `Recv`, `Return`, `Garbled`, `Timeout`, `DropReceiver` are
the steps of a call, `RecvResponse` and `RecvRequest` the receive loops with
`PacketMerger::feed`, `HandleRpc` the handler, `ExpireMerger` the clean-up after 10 s.

Run `PeerRpc_calls`: two clients that may use the same transaction id, requests and
responses of one or two pieces, one duplicate.

- `Implements`: `PeerRpc` implements `RpcCalls`, liveness included
  (`INSTANCE ... WITH status <- result`).
- `LoopSurvives`: `sender.send(..).unwrap()` (`client.rs:179`) never meets a dropped
  receiver: the entry is removed before the receiver is dropped, under the lock the loop
  holds while it feeds the merger.
- `WholeCopyPerRun`, `NothingReceivedIsLost`: a retransmitted piece alone never runs a
  request again; calls of two clients with one id do not disturb each other.
- `TablesDrain`: `packet_mergers` and `inflight_requests` become empty.

Fairness: timers run out, tasks go on, handlers have a timeout. Nothing is assumed of
the network. With peers of an old version, whose packets have no piece fields
(`MinPieces = 0`), everything holds too, on a larger state space than the run's.
A request of which every piece is duplicated runs twice, and the pieces of the two
responses may mix in the client's merger; if the responses differ in length,
`resize` (`packet.rs:132`) may drop pieces and the call times out.

## 9. PeerConns: connections of a peer

`peer_map` is the entry of one remote peer in `PeerMap`, `conns` and `events` the
connections and close events of each `Peer` object ever made for it, `pc` and `peer`
the tasks in `add_new_peer_conn`, `watched` the tasks that wait for a connection to
close, `alive` what `alive_client_urls` lists, `cleaner` the task that calls
`clean_peer_without_conn`: it lists the peers (`CleanerStart`), asks for the
connections of each, which are none also if the peer has gone meanwhile
(`CleanerList`), and removes it (`CleanerRemove`). A `Peer` lives as long as something refers to it
(`Release`); when it is dropped its connections close.

Run `PeerConns_close`: two connections made to one URL and one accepted, one call of
`close_peer` or `close_peer_conn`, connections closing by themselves at any time.
Three connections are the least with which a `Peer` is replaced by a second one while
a third task adds to the first.

- `NoneIsLeaked`: an open connection always belongs to a `Peer` that is in the map or
  in the hands of a task.
- `OpenUrlIsAlive`: a URL counts as alive while any connection to it is open, although
  the list is taken out, filtered and put back when another one closes.
- `ClosedIsForgotten`: closed connections leave the `Peer` and the list, and a peer
  without connections leaves the map. Fairness: tasks go on and the cleaner runs every
  3 s; no connection has to be made or closed.

The model reaches the `unwrap` in `add_new_peer_conn` (`peer_map.rs:69`) on an entry that
has gone since it was looked up. It follows a build that unwinds, in which the task
ends and the connection is dropped; a release build aborts there.

## 10. Findings and observations

Violation runs show a disagreement with a comment or an assertion, which
`PROJECT.json` quotes:

1. `RouteSync_stale_bitmap`: a request built before the cached bitmap is rebuilt
   carries the old neighbour list while the sync timestamp moves past the new one
   (`peer_ospf_route.rs:2935`).
2. `RelaySession_crossed`: crossing handshakes leave two peers with different keys
   (`relay_peer_map.rs:499`); ten undecryptable packets later they try again.
3. `ManualConnector_readd`: adding a URL again while it is reconnecting fails the
   routine's assertion (`manual.rs:233`).

Observations without a run of their own, besides those in sections 3 to 9, made with
`RouteSync` on three nodes in a line:

- the first answer of a new session clears the unreachable entries its own request
  recorded (`peer_ospf_route.rs:3131`), which are then not sent again;
- expiry tests the age of an entry, not how long its owner was unreachable; a short
  link loss removes an entry that its neighbours do not send again
  (`peer_ospf_route.rs:2945`);
- an entry that expires between the two halves of the request handler's rebuild leaves
  a row with the recorded version and an empty list in the cached bitmap
  (`peer_ospf_route.rs:2589` skips the peer, its version stays). The row is sent, and
  receivers that take it keep an empty list under a version whose list is not empty.
  `RouteSync_threads` does not reach it: it takes a third node.

All of this comes from the models; nothing was reproduced on a running daemon.

## 11. Proofs

Each theorem holds for every value of the constants that satisfies the assumption
named in the module. Each proof has one step, or one lemma, per action of `Next`. The
invariants it adds were first checked by TLC on the instances of the runs.

**RouteSync** (`ConstAssumption`). `RouteSyncTypes` has the lemmas about the operators
and the effect of each action, and `TypeCorrect`: `Spec => []TypeOK`.
`RouteSyncProofs` has the rest.

- `VersionsComeFromOwner`: `Spec => []VersionsFromOwner`. The property is not
  inductive: a call in flight could carry anything. `OwnerInv` adds that cached
  bitmaps, half-done rebuilds and calls stay within the owner's version, and that a
  node always reaches itself, so that its own entry never expires.
- `SavedVersionsAreHeld`: `MaxExpired = 0` implies `Spec => []SavedIsHeld`. `HeldInv`
  adds that what is in flight is held by its sender and, once merged, by its
  receiver. The assumption is needed: expiry makes a database go back under a session
  that has saved the entry.
- `ListsNotOlder`: under `Spec /\ [][SparesRebuilds]_vars` every list in a database is
  always `Genuine`, not older than its version, also after expiries. `ListInv` says that a (version, list) pair in a database, a cached bitmap or a call
  was published by its owner, or that its list is part of one published later. That a
  bitmap is so rests on `JobsFollow`: between the two halves of a rebuild the entry
  either still has the recorded version, and then its list is within the recorded ids,
  or it has a newer one. `SparesRebuilds` excludes the expiry of an entry between the
  two halves; without it the property is false (section 10).
- `ListsNotOlderBeforeExpiry`: `Spec => []ListNotOlderThanVersion`, with no condition on
  the steps; the property speaks of the time before the first expiry.

**SecureDatagram** (`SecureDatagramConstants`), in `SecureDatagramProofs`.

- `AtMostOnceAlways`, `SessionTypes`, `CachedKeyAlways`. A count of one delivery is not
  inductive. `IInv` adds `Refused`: whatever is counted as delivered and is not exposed
  is refused by the windows there are now, wherever they have moved since. The lemmas say that accepting a
  number records it and keeps what was recorded, in a window, in a pair of slots, and in
  the slots together with the grace slots. `CommitBlocks` is the heart of it: the commit
  checks once more under the lock.
- `InWindowIsWelcomeAlways`. `WelcomeInv` adds the converse of `Refused`: what the
  windows mark was accepted under the present root key and epoch (`FromAccepted`), and
  the epoch of an accepted packet has a slot unless its window was given up or two newer
  epochs have come (`Placed`). Both hold while the windows belong to the root key
  (`Trusted`), which is not so between the first and the third section of
  `sync_root_key` with a new key.

**PeerRpc** (`BoundsAreNat`), packets without piece fields included, in
`PeerRpcProofs`.

- `Refines`: `SafeSpec => Abs!SafeSpec`; every step maps to a step of `RpcCalls` or to
  none. `LoopAlwaysSurvives` and `WholeCopyAlways` follow from the same `IInv`, which
  says which executions the pieces in mergers, channels and network come from, that
  pieces held, consumed by executions and arrived add up, and that an entry in flight
  has a receiver.
- `NothingReceivedIsLostAlways`. `ReceivedInv` says where a piece is that has arrived:
  in the server's merger of its own call until the request runs or expires, and in the
  client's merger until the call has its answer. For this the pieces of one
  response agree on their number (`OneTotal`); with two executions `resize` may
  drop pieces, which the property leaves out.

**PeerConns** (`ConnsAssumption`), in `PeerConnsProofs`.

- `TypesAlways`, `NoneIsLeakedAlways`, `OpenUrlIsAliveAlways`. `NoneIsLeaked` is not
  inductive: `IInv` adds which `Peer` a task holds (`PeerOfTask`) and that an open
  connection is in the `Peer` its task put it in, also when the map has another one
  by then.

**RouteSession** (`NodesAreNumbers`), on every graph, in `RouteSessionProofs`.

- `TypesAlways`, `OneInitiatorAlways`. The choice of `maintain_sessions` is the least id
  of a set; that a least one exists is `WFMin` of the library. `IInv` adds that
  neighbours are at the other end of a link and what a message is.

**RelaySession** (`RelayAssumption`), in `RelaySessionProofs`.

- `TypesAlways`, with the bound of `pending_packets` and the limit of failures of a
  stored session; `PendingIsAwaitedAlways`. `IInv` is the type invariant in parts, with
  what the handshake tasks and attempts look like in each of their states.

**ManualConnector** (`ConnectorAssumption`), for any number of URLs, callers, calls and
broken connections, in `ManualConnectorProofs`. `TypesAlways` needs no more. Three
things the management interface may do break the other properties; each theorem names
the ones it excludes:

| Theorem | `Spec` and | Invariant |
|---|---|---|
| `WantedIsKeptAlways` | no URL is added while its removal is noted (`AddsUnnoted`) | `KeptInv`: noted URLs are not wanted |
| `OnePlaceAlways` | no URL is added that is being reconnected (`AddsUnmoved`) | `PlaceInv`: a URL whose task runs is in `reconnecting`, the one in the routine's hands has no task that puts it back |
| `RoutineNeverPanicsAlways` | `AddsUnmoved`, and no `list_connectors` removes a URL the routine has just found dead (`RemovalsWait`) | `PanicInv`: what the routine has still to move is among the connectors |

`AddsUnmoved` is the condition finding 3 violates, `RemovalsWait` the one two calls
violate in `ManualConnector_calls` (section 4).

Only model-checked:

- liveness (`InfosConverge`, `ListsConverge`, `Heals`, `StaysConnected`, `SessionsSettle`, `TablesDrain`,
  `ClosedIsForgotten`, the fairness of `Implements`): out of the prover's reach;
- `RouteTable`: the path search is recursive, and what a recursive definition computes
  is out of the prover's reach;
- `SkippedInfoIsHeld`: false beyond a pair (section 10).

The proofs about `RouteSync` are about `Spec`, the cold start; `RouteSync_pair` and
`RouteSync_threads` start from states of `MCRouteSync`.

## 12. Not modelled, and why

- `src/iconnectd/easytier`, about half of the lines under `src/`: not built.
- Tunnels, virtual network interface, DNS, STUN, proxies, WireGuard portal, Android
  and desktop front ends: mostly input and output. What they do to the modelled parts
  (loss, delay, reordering, duplication, broken connections) appears there as faults.
- Configuration, statistics, access rules, REST handlers: data definitions, parsing,
  matching and database access, with little state that changes in steps.
- Hole punching: its success depends on NATs outside this code.
- Token bucket: its guarantees are about rates in real time.
- Foreign networks, credentials, peer center, DHCP, leases of public IPv6 addresses,
  IP reassembly, web sessions: within reach of the method, and where the project would
  grow next. Foreign networks and credentials would enter `RouteSync` as further kinds
  of entries and `RouteSession` as a filter on candidates.
- Within the modelled parts: what each section and `PROJECT.json` names.

The mapped lines are therefore a small share of the repository. They are the part in
which orders of events matter.

## 13. Running it

`tlc -config RouteSync_threads.cfg MCRouteSync` and so on; the module of each run is in
`PROJECT.json`. Every run ends within a few minutes; the largest are
`RouteSync_threads` (878,838 states), `SecureDatagram_replay` (858,771) and
`ManualConnector_calls` (593,499). `tlapm` checks `RouteSyncTypes.tla`,
`RouteSyncProofs.tla`, `SecureDatagramProofs.tla`, `PeerRpcProofs.tla`,
`PeerConnsProofs.tla`, `RouteSessionProofs.tla`, `RelaySessionProofs.tla` and
`ManualConnectorProofs.tla`, the longest in several minutes.
