# TLA+ models of the Siphon datapath

This directory holds TLA+ models of the in-node datapath of Siphon
(`src/datapath/siphon`) and of its standalone C demo
(`src/datapath/unit-testing`), and the TLC configurations that check them.
`PROJECT.json` lists every component, every run, the fault variants
(mutants) each property is tested against, the source lines each
definition translates, the findings, and the hazards of the code.

## 1. The system

A Siphon node moves *minions* through a pipeline of *stops*. A minion is
a baton that carries one message buffer. `Minion::start` loops
`next_stop_ = next_stop_->process(this)` until a stop returns `nullptr`,
which means the stop has parked the minion. A parked minion is restarted
later by `wakeup(stop)`, called synchronously on whatever thread does
the waking (`base/minion.hpp`, `base/minion.cpp`).

The stops are:

| Stop | Source | What `process` does |
|---|---|---|
| MinionPool | `base/minion_pool.*` | Recycles the buffer, then hands the minion to a waiting requester or queues it. |
| TCP/UDP receiver | `networking/*_connection.cpp` | Swaps the received buffer into the minion and forwards it to the crossbar. |
| Crossbar | `controller/crossbar.cpp` | Looks up the forwarding table. On a miss it archives the minion and queries the controller. On a hit it sends the minion to the local app or to a peer's sender. |
| Sender outbox | `MinionStopQueueType` | Queues the minion for the peer's socket wrapper, which writes one message at a time. |
| Apps | `apps/*` | The pseudo source requests minions under a token bucket. The sink returns them to the pool. |

Concurrency:

- All handlers run on a `boost::asio` reactor. `ThreadPool` gives it
  `hardware_concurrency()` threads, at least one.
- Within a handler, minions run to completion. Different handlers run in
  parallel.
- Shared state is protected by atomics and lock-free queues:
  - the counter `waiting_minions_` and two `boost::lockfree::queue`s of
    capacity 256;
  - the MPSC archive queues;
  - `shared_mutex`es on the archive map and the forwarding table, whose
    entries are `shared_ptr`s swapped with atomic operations.
- The controller's messages arrive over one TCP connection
  (`controller_connection.cpp`). `ControllerProxy` dispatches them on its
  strand. A RoutingInfo message runs
  `Crossbar::installForwardingTableEntry`.
- Forwarding entries with a `Timeout` expire through a deadline timer.
  Every lookup re-arms the timer.

### Inventory

| Component | State | Operations | Hard behaviour |
|---|---|---|---|
| MinionStopQueue / MinionPool / outbox | counter, minion queue, requester queue | `request`, `process`, `create` | The counter moves before the push, and `spinPop` waits for it. A full queue drops a push. |
| Pending packet archive | map session → queue pointer (absent, null, or queue) | `archiveMinion`, `getPendingPacketQueue`, `removeSessionFromArchive`, `resetSessionFromArchive` | A load and a store are separate. Erase happens only when the pointer is non-null. |
| Forwarding table | map session → entry | `insertEntry`, `getNextHop`, `getEntry`, `deleteOneEntry` on expiry | TTL re-arm versus an expiry already queued. |
| Crossbar | none of its own | `process`, `installForwardingTableEntry`, `handleArchivedPacket`, `queryForwardingTableEntry` | Miss/install/hit races. Parent-session fallback. Drain of the archive. |
| Controller connection | output queue, output buffer, `should_call_send_`, input buffer | `sendControlMsg`, `startSend`, `onSent`, `onRecv` | One outstanding write. NUL framing across reads. |
| Controller proxy / node manager | online node set | NodeOnline, NodeOffline, RoutingInfo dispatch | Arrival order. Assertion on an unknown node. |
| TCP/UDP pipelines | `pending_msg_`, extra data list, encoders/decoders | `process`, `onDataSent`, `onDataReceived`, `onAck` | The receiver re-reads before a minion takes its buffer. Late acks. |
| Connection managers | sender and receiver maps | `create`, `remove`, `shouldInitiateConnectionTo` | Exactly one initiator per node pair. Removal with a non-empty outbox. |
| Coding parameters | a 32-bit word `T | B<<8 | N<<16 | counter<<24` | encode, decode, `setParameters` | The 8-bit counter wraps. The counter is reset on ack. |
| Token bucket | tokens, `should_send_ontoken_available_` | `generateOneToken`, `consumeOneToken`, `onTokenAvailable` | Double posting of `onTokenAvailable`. |
| C demo (`unit-testing/`) | FIFO ring (pointer array, two offsets, count), encoder and decoder counters and parity sets | `fifoAdd`, `fifoGet`, `messageArrived`, `decode`, main's loop | Offsets that wrap. A full `fifoAdd` whose `false` is ignored. A decoder that finds the parity message by counting. |

What makes the core correct:

1. No minion is lost or duplicated.
2. Every spinning pop ends.
3. Every request is eventually served.
4. Archived packets are all sent on, in order, once an entry is
   installed.
5. The process never dereferences a null pointer.
6. An archived session has no table entry.

## 2. Modules

### `MinionStopQueue.tla`: `base/minion_pool.{hpp,cpp}`

This module models the rendezvous class that the pool and every sender
outbox share.

State:

| Variable | Models |
|---|---|
| `waiting_minions` | `waiting_minions_` |
| `minion_q` | `minion_q_` |
| `requester_q` | `requester_q_` |
| `mpc` | each minion's position in `process()` |
| `rpc` | each requester's position in `request()` |

Actions:

| Action | Models |
|---|---|
| `Process` | the `fetch_add`; `MinionPool::process` recycles first, which is data only |
| `PushMinion` | the push (`BoundedPush`: a full queue is left as it is) |
| `PopRequester` | the `spinPop` of a requester |
| `Request` | the `fetch_sub` |
| `PushRequester` | the requester's push, which drops the requester on a full queue |
| `PopMinion` | the `spinPop` and `wakeup` |
| `SpinEmpty` | a failed iteration of a spin loop, which changes nothing |

`Init` is the state after `MinionPool::create`: all minions queued and
the counter equal to their number.

Fairness: threads inside `process()`/`request()` finish, and an away
minion comes back to the stop. Both are weakly fair. The two spinning
pops are strongly fair. The boost queue is lock-free but not
wait-free, so strong fairness of a spinning pop is an assumption about
the scheduler. With weak fairness alone, TLC shows one spinner starved by
another that keeps winning the pop. Requests are not fair: nothing
obliges a stop to ask for a minion.

`Rendezvous.tla` is what the stop promises its callers, with no counter
and no queues: a set of minions `present` at the stop and a set of
requesters `asking`. `Match(m, r)` takes one of each at once. Its
specification `RendezvousSpec` asks weak fairness of `Match`: a minion
never stays at the stop while a request waits.
`MinionStopQueue` maps a minion to present from its `fetch_add` until
its pop, and a requester to asking from its `fetch_sub` until it is
served.

### `Crossbar.tla`: `controller/crossbar.cpp`, `controller/forwarding_table.cpp`, `base/mpsc_queue.hpp`

Each step is one critical section of the code:

- `Arrive`: the null-payload return to the pool, and the lookup of the
  session and then of its parent.
- `Archive`: `archiveMinion` under the unique `map_lock_` (find or
  emplace the element, give a null element a fresh queue), the query
  when it created the element, and the first step of `MPSCQueue::push`,
  `head_.load` into `stale_head` (`wstale`).
- `PushCas`: one iteration of push's `compare_exchange_weak` loop. It
  links the node when `head_` (`HeadNode`, the newest node) still equals
  `stale_head`, and then releases the lock. Otherwise it reloads
  `stale_head`. The pusher holds the unique lock, so only a `popAll`
  can move `head_` under it. A spurious failure of the weak form
  reloads the same value and is a stutter. While a worker pushes, the
  shared acquisitions (`ResetLoad`, `InstallGet`, `InstallRemove`) wait
  (`MapLockShareable`).
- `ResetLoad` / `ResetStore`: the load and the store of
  `resetSessionFromArchive`. `map_lock_` is held shared between them, so
  `Archive` and the erase in `InstallRemove` wait (`MapLockFree`).
- `PopAll`: the atomic exchange of `MPSCQueue::popAll`. The reversal
  that follows works on a list no other thread sees.
- `Handle`: `handleArchivedPacket(list, getEntry(session))`, then the
  current minion is sent on.
- `InstallGet`, `InstallDrain`, `InstallInsert`, `InstallRemove`: the
  parts of `installForwardingTableEntry`. The controller may answer a
  pending query or install unprompted, with or without a Timeout, up to
  `MaxInstalls` messages.
- `Expire`: the timer firing for an entry with a Timeout, which runs
  `deleteOneEntry`.

Data abstraction:

- Queues are ids with a FIFO sequence of minions.
- An archive element is `Absent`, `NullQ` (a null `shared_ptr`), or a
  queue id.
- The next hop is not distinguished: `out` records the order in which
  minions are sent on.
- A null dereference sets `crashed`, which stops the process.

`Serial = TRUE` models a reactor with one thread. A handler then starts
only when no other handler is unfinished.

`pending[s]` counts the queries emitted for `s` that no RoutingInfo has
answered. `ArchivedSessionQueried` says that whenever no handler is half
done, a session with parked minions and no route has such a query
outstanding (spec.md §4.4: the first archived minion emits the query).
It holds with one thread. With two it fails: see finding 7.

`NodeInOneList` is about the queue itself. The archive queue is used by
two consumers: the install's drain and a routed packet's `popAll`. The
queue's remark at `mpsc_queue.hpp:83` allows only one. Their exchanges
race with a push's CAS loop. The property says that a node is linked in
at most one list: one archive queue, or a list a worker popped and has
not yet handled. It also says that a minion already sent on is linked in
none. The mutant `PushStore` replaces the CAS by a store of
`n->next = stale_head`. It re-links a node that a drain has just woken,
and TLC finds that trace with two threads.

### `ForwardingTable.tla`: `controller/forwarding_table.cpp`, `controller/forwarding_table_entry.cpp`

The forwarding table of the crossbar with its entries' TTL timers and
next-hop choice. Entries are numbered in install order (`EntryIds`).

| Variable | Models |
|---|---|
| `table` | `table_`: the entry each session holds, or `NoEntry` |
| `installs` | entries created so far (`ForwardingTableEntryFactory::generateEntry`) |
| `ekind`, `ettl`, `esess` | each entry's class, `expire_time_` and `sessionID_` |
| `armed`, `fired` | a pending `async_wait`; expiry handlers due and not yet run |
| `hold` | the `shared_ptr` a worker took in `getNextHop` |
| `hits` | hits so far (bound `MaxHits`) |
| `lastHit` | the latest lookup result with the `rand()` value drawn |
| `erased` | for each erase by `onEntryExpired`: the entry erased and the entry whose timer ran |

- `Install(s, k, ttl)`: `newEntry` then `insertEntry`: the new entry arms
  its timer if it has a TTL; the entry it replaces is destroyed (its
  timer cancelled) unless a worker still holds it.
- `Lookup(w, s)`: the `atomic_load` under the shared lock.
- `EntryGetNextHop(w, r)`: `ForwardingTableEntry::getNextHop` with
  `rand() = r`: cancel and re-arm (a handler already due stays due), the
  entry's `nextHop()`, and the release of the worker's `shared_ptr`.
- `Fire(e)`: the timer's deadline passes; the handler is queued.
- `OnEntryExpired(e)`: the handler runs with success and
  `deleteOneEntry(sessionID)` erases whatever entry the session holds.

`rand()` is an integer in `0..RandMax` and a weight a natural number, so
`rd = rand()/RAND_MAX * W` is compared exactly as `w * RandMax >= r * W`.
`WeightedMap` is the `std::multimap` with `std::greater` (insertion after
equal weights), `Pick` the selection loop as a `RECURSIVE` operator that
returns `Garbage` past the end. The reference `RefChoice` states the
choice directly: the first hop, in descending weight order, whose prefix
sum reaches the draw.

### `UdpLink.tla`: `networking/udp_connection.cpp`, `networking/udp_connection_manager.cpp`, `coder/*`

One UDP link, from node A to node B, with the test coder pair
(`FakeEncoder`, `FakeDecoder`), on a network that may lose datagrams and
deliver them in any order. With `Churn`, A's controller proxy may remove
the sender for B (NodeOffline) and create it again (NodeOnline).

| Variable | Models |
|---|---|
| `aloc`, `msess`, `mword`, `mid` | A's minions: where each is, and the session, coding word and id of its message |
| `outq`, `asks`, `current`, `sending` | the outbox `q_` and the socket wrapper (as in `TcpSender`) |
| `enc` | `UDPSender::encoders_`: the word of each session's encoder, or none |
| `senderUp`, `peerSet` | `UDPConnectionManager::senders_` and A's `UDPReceiver::senders_` hold B |
| `net` | datagrams in flight: data and acks |
| `rst`, `parked`, `pending` | B's receiver: receiving, waiting for a minion, or sending an ack; its request parked in the pool; `pending_msg_` |
| `binuse`, `dec` | B's minions out of its pool; `UDPReceiver::decoders_` |
| `accepted`, `delivered` | the datagrams B read, and those it handed to the crossbar |
| `crashed` | A died on its ack path |

- `Route(m, s)`: `UDPSender::process` under `mtx_`. The encoder is
  created if missing; the word is stamped and the counter incremented.
- `Enqueue(m)`: the push into `q_` after the lock, which may wake the
  wrapper (`WrapperProcess`: `async_send`).
- `DataSent`: `onDataSent`. The minion is posted to the pool and the
  next one is requested.
- `ReadData(d)`: `onDataReceived` for data, then the pool request.
  `Process` (`UDPReceiver::process`) runs at once or when
  `BReturn` brings a minion back. It decodes, delivers, and sends the
  ack. `AckSent` is the ack's completion, which restarts the receive.
- `ReadAck(a)`: A's `onDataReceived` for an ack, then `onAck`, or a
  crash when the peer or the encoder is gone.
- `RemoveSender`, `CreateSender`: `UDPConnectionManager::remove` and
  `create`. Minions in the destroyed sender are `"lost"`.
- `Lose(d)`: the network drops a datagram.

The 32-bit coding word is kept as four bytes with carries (`AddWord`):
`fetch_add(1 << 24)` wraps the counter, and `FakeDecoder`'s
`+ 0x1010101` carries from `T` into `B`. TLC's integers could not hold
the word itself.

### `ControllerConnection.tla` and `FifoChannel.tla`: `controller/controller_connection.cpp`, `controller/controller_proxy.cpp`, `controller/notification_observers.hpp`

`FifoChannel` is the abstract promise of one direction of the control
connection: `sent` grows by appending, `delivered` grows as a prefix of
`sent` (several messages at once, since one read can carry several), and
under weak fairness everything sent is delivered. Its fairness is written
with `ENABLED` expanded (`ChanFairness`), which TLC evaluates quickly
through a refinement mapping.

`ControllerConnection` models both directions of the one TCP connection:

- Up, node to Controller:
  - `Notify(m)`: `Crossbar::queryForwardingTableEntry` ->
    `INotification::notify` -> `ISerializedObserver::wrappedHandler`,
    which posts `handleNotification` to the strand.
  - `strand` is the FIFO of handlers posted to the proxy's strand, which
    is also `output_strand_`. It starts with the `startSend` posted by
    `connectAndStartAtNodeID`. `RunStartSend`, `HandleNotification`
    (with `sendControlMsg`) and `OnSent` each run the handler at its head.
  - `StartSend` is an operator of the state it reads. It returns the new
    `should_call_send_`, queue and buffer, and the bytes of the
    `async_write` it issues.
  - `WriteSome(i, k)`: an `async_write` in flight delivers its next k
    bytes. When the write is complete, its strand-wrapped `onSent` is
    posted.
- Down, Controller to node:
  - `ControllerSend(m)`: the environment writes a message.
  - `ReadSome(k)`: `async_read_until` reads any k bytes and completes
    once `input_buf_` holds a NUL.
  - `OnRecv`: `SplitFrames` (the `getline` loop) dispatches every
    complete message and writes the unterminated tail back. A frame that
    is not exactly one message fails the shape check of
    `onControlMsgReceived` and is dropped.
- Failure of the connection:
  - `ConnectionLost`: the environment resets the connection, at most
    once and at any point. The Controller then sends nothing more, and
    no more bytes move either way.
  - `WriteFails(i)`: the write in flight completes with an error after
    the prefix it already wrote. Its bytes go to the auxiliary
    `failed_bytes`, and `onSent` is posted with the error.
  - `OnSent` never reads `ec`. It sets `should_call_send_` and then
    asserts that the whole buffer was written. After a failed write
    the assert aborts the process (`alive` becomes false), unless the
    build has `NDEBUG`. Without the assert, `onSent` clears the buffer
    and `startSend` issues the next write, which fails in turn.
  - `ReadFails`: the pending `async_read_until` fails, and `onRecv`
    calls `onError`, which throws `ec` out of the reactor thread.
  - The build is chosen in `Init` (`asserts_on \in BOOLEAN`), so one run
    covers both builds.
- Data abstraction: a JSON message is one symbol and is sent as
  `<<m, Nul>>`. The handshake of `connectAndStartAtNodeID` is the
  initial state.

Fairness is weak on each of these:

- the strand running its head handler, since the reactor threads run
  every posted handler;
- a write in flight making progress, assuming the Controller keeps
  reading its socket;
- a pending read making progress while bytes are available;
- `onRecv` running once its read completed, or the failed read
  completing after a reset.

Nothing else is fair: notifications and Controller messages may stop at
any time, and the connection need never break. `Halted` is the aborted
process. `Quiescent` is the idle node after everything was exchanged.

Refinement: `Up` and `Down` instantiate `FifoChannel` with these
mappings:

- `UpDelivered` is the complete frames that reached the Controller.
- `UpSent` is the frames of the bytes delivered or still on the write,
  then `output_queue_`, then the notifications still on the strand.
- `DownSent` is what was dispatched, then the frames of the buffered
  and unread bytes.

A step that reorders, loses, duplicates or interleaves bytes changes
`UpSent` or `DownSent` in a way no `ChanNext` step allows. `UpSent`
counts the bytes of failed writes after those delivered, so a failed
write still shows as handed in but never delivered. The eventual
delivery of `UpIsFifo` and `DownIsFifo` is therefore asked only of
behaviours in which the process does not abort: spec.md §7 makes a
failure of the control connection fatal.
`ConnectionFailureIsFatal` (`broken ~> ~alive`) states that it is, in
either build. With `NDEBUG` only the read side ends the process, because
`onSent` ignores the error code. The node never keeps running with
notifications silently dropped.

### `Membership.tla`: `aggregator.cpp`, `controller/controller_proxy.cpp`, `node_manager.cpp`, `networking/tcp_connection_manager.cpp`, `networking/tcp_connection.cpp`

A cluster of nodes, each in a `phase`:

- `Register(n)`: `Aggregator::start` line 26. The handshake in
  `ControllerProxy`'s constructor makes the node known to the Controller.
- `Start(n)`: lines 30-61. The components are built, the acceptor
  listens (`connection_manager_->init`), and the reactor threads run.
- `Announce(a)`: the Controller (the environment) sends a NodeOnline
  list of every registered node not yet announced to `a`. It is handled
  in order, since `ControllerConnection` is a FIFO channel.
- `HandleNodeOnline(a)`: `NodeManager::newOnlineNodes`, then for every
  node with `ShouldInitiate(a, b)` a `TCPSender` whose constructor
  connects and sends the local id. `ConnectOutcome` is "connected" when
  the peer listens, "refused" when it does not (an uncaught
  `system_error` ends the node after the connects made before it), and
  "skipped" in a build without asserts, where
  `assert(resolveAndConnect(url))` is compiled out.
- `Accept(b)`: `onNewIncomingConnection` reads the id and creates the
  sender and receiver for it.
- `ReportOffline(a, n)`: the Controller sees a crashed node's control
  connection close. It sends `NodeOffline(n)` to each node it had
  announced `n` to, once. `offlined` records what it sent.
- `HandleNodeOffline(a)`: `NodeManager::nodeOffline` asserts that the
  node is online and erases it (`NodeOffline`). A failed assert ends the
  node. Then `TCPConnectionManager::remove` erases the sender and
  receiver (`Remove`). `gone[a]` records the nodes handled.
- `GetNodeStatus(a, n)` is `NodeManager::getNodeStatus`, an operator
  (it changes nothing). `Known(a)`, the nodes a has had a NodeOnline
  for, stands for the keys of `node_url_map_`.

`ShouldInitiate(L, P)` is the tie-break of
`TCPConnectionManager::shouldInitiateConnectionTo`. The uint32 sum is
reduced mod 2^32, which keeps its parity, so the model uses the plain sum.
Fairness is weak on `Start`, `HandleNodeOnline`, `HandleNodeOffline` and `Accept` of each
node: the start-up runs to its end and reactor threads run queued
handlers. The Controller is not fair: it announces when it likes.

### `TcpSender.tla`: `networking/tcp_connection.cpp`, `networking/connection_interfaces.hpp`

The send half of one peer link. `mloc[m]` says where minion `m` is
(pool or upstream, outbox, handed to the socket wrapper).

- `Init`: the constructor's `startSending()` parks one request of the
  wrapper in the empty outbox; with `Accepted`, `onNewIncomingConnection`
  parks a second one (`asks = 2`).
- `Route(m)`: the crossbar routes a minion to the peer.
  `TCPSender::process` stamps the header and returns the outbox, whose
  `process` wakes a parked request (the wrapper's `process`,
  `WrapperProcess`, runs on this thread: `current_minion_ = m` and an
  `async_send`) or queues the minion.
- `OnDataSent(i)`: send `i` completes and its frame is on the wire. The
  handler posts `current_minion_` (whatever it is now) to the pool and
  `startSending()` takes the oldest queued minion or parks a request.
- `RemovePeer`: `TCPConnectionManager::remove` on a NodeOffline erases
  the sender, with its outbox and socket wrapper. Queued minions and the
  one in flight are freed with them (`"lost"`). The aborted send would
  complete into the freed wrapper, so the model ends it there. Nothing
  more is routed to the peer.
- `RoutesDone`: the crossbar has routed its `MaxRoutes` messages, or the
  sender is gone.

`Spec` has no NodeOffline; `RemovalSpec` adds `RemovePeer` at any point
and is used only by `TcpSenderRemove.cfg` (finding 8).

The outbox is its atomic rendezvous; the stopqueue run checks that the
counter and the two lock-free queues implement it. The extra-data
branch of `onDataSent` is left out: only UDP encoders fill that list.
Fairness: weak on the completions (the peer reads its socket); routing
is not fair.

### `TcpReceiver.tla` and `TcpLink.tla`: `networking/tcp_connection.cpp`, `base/minion_pool.cpp`, `networking/tcp_connection_manager.cpp`

`TcpReceiver` is the receive half of the link with the receiving node's
pool. Message objects are named (one per minion and the receiver's own
`pending_msg_`), because an outstanding `async_read` keeps writing into
the object it was issued on, whoever holds it when the bytes arrive.

| Variable | Models |
|---|---|
| `pending` | the object `pending_msg_` points to |
| `holds[m]` | the object minion `m` carries (`data_`) |
| `content[b]` | what object `b` holds: nothing, a size prefix, or a whole frame |
| `rd` | the outstanding read: size or data, and its target object |
| `rpc` | `"restart"` between the pool request and `startReceiving()` |
| `rloc`, `waiters` | the receiving pool: minions queued, requests parked |
| `delivered` | what the crossbar received, in order |

- `SizeRead`: the size prefix lands in its target, then
  `onMessageSizeReceived` asserts a positive size on the object
  `pending_msg_` points to now and reads the body into it.
- `DataRead`: the body lands; `onDataReceived` requests a minion. A
  pooled minion runs `process` at once (`swapData` and on to the
  crossbar); otherwise the request is parked.
- `StartReceiving`: recycle `pending_msg_` and issue the next size read.
- `Return(m)`: the minion comes back to `MinionPool::process`, recycles
  its object, and serves a parked request or joins the pool.

`TcpLink` composes `TcpSender` (a connecting link) with `TcpReceiver`
over the same `wire`. Fairness is weak on every handler of both halves:
each is a completion the reactor runs once its operation is done, and
minions always come back from the sink. `LinkDelivered` maps each
delivered object to the minion whose frame it holds (or to `NoMinion`
when it is not a whole frame), and `LinkIsFifo` checks that the link
implements `FifoChannel` with `routed` as the sent sequence.

### `PseudoApp.tla`: `apps/pseudo_app.cpp`, `controller/node_manager.cpp`

The source of one pseudo session with its token bucket, on a reactor of
`Threads` threads. The source is a chain of handlers: `onTokenAvailable`
takes a token and requests a minion; the minion runs
`PseudoAppSource::process` on the thread that hands it over, which posts
the next `onTokenAvailable`. An empty bucket ends the chain and sets
`should_send_ontoken_available_` (`flag`); the timer's
`generateOneToken` starts a new chain when it finds the flag set.

| Variable | Models |
|---|---|
| `level` | `bucket_level_`, in whole tokens |
| `flag` | `should_send_ontoken_available_` |
| `ota` | posted `onTokenAvailable` handlers |
| `waiters` | requests of the source parked in the pool |
| `pc`, `tseq`, `tmin` | a thread inside `process` (between reading and writing `seq_`), or between the two flag stores |
| `seq`, `stamped` | `seq_`, and the seq numbers stamped so far |

- `Init`: the constructors and the first `start()`.
- `Start(t)`: a re-announcement of the destination calls `start()`
  again: the bucket is refilled and the flag is tested.
- `GenerateOneToken(t)`: a timer tick adds one token (two for a late
  tick) up to the depth, then runs the compare-exchange.
- `OnTokenAvailable(t)`: `consumeOneToken`, then the pool request, which
  may begin `process` on this thread; with no token, the flag is set and
  `FlagStore(t)` sets it once more after the lock is released.
- `SeqWrite(t)`: the rest of `process`: `seq_` written back, the next
  `onTokenAvailable` posted, the minion sent on.
- `Return(t, m)`: the minion, sent on, comes back to the pool and may
  serve a parked request (beginning `process` on thread `t`).

`seq_++` on a plain `size_t` is split into its read and its write, so
two threads inside `process` can both read the same value. Fairness:
weak on the timer, the posted handlers, a thread inside `process`, and
the return of minions (the sink returns every minion). Re-announcements
are not fair. Time is abstracted: the model has no clock, so it states
no rate property.

### `Message.tla`: `base/message.cpp`, `base/owned_memory_chunk.hpp`

One message on two hops: a source A, a relay B (which forwards as it is,
or through the `DirectPass` encoder's Message E) and a sink C. Each
Message owns the chunks `buffer_` and `allocated_buffer_` of
`kMaxMessageSize` bytes. `mem[o][c]` gives the bytes of chunk c of Message o.
`hreg` and `preg` are the header and payload views of `read_buffer_`.
`st` is `read_buffer_state_` (kState00/01/10). A serialised header is
written as the header record into each of its cells, so a reader gets
it back only if no cell was overwritten. A write outside a chunk is lost.
A read outside a chunk returns any byte, which is the undefined
behaviour of the C++.

| Action | Models |
|---|---|
| `Fill` | `PseudoApp::process`: `allocateBuffer`, `resetPayload(buf, message_size_)` |
| `ToBufferAndSend` | `toBuffer` (header into `buffer_` or moved to `allocated_buffer_`) and the scatter send |
| `SendA`, `ForwardB`, `SendE` | the senders' `process` setting the header fields, then the send |
| `Receive`, `RecvB`, `RecvC` | `recycle`, `getReceivingBuffer`, the read, `fromBuffer` with its asserts |
| `EncodeB` | `DirectPassEncoder::encode`: copy into E, `buffer_copy` at most kMax bytes |

`RoundTrip` says each receiver's view holds the header and payload the
sender serialised (spec.md §8).

### `NotificationBus.tla`: `controller/notification_observers.hpp`, `controller/notification_center.hpp`

This module covers the publish/subscribe bus, run by `Threads` reactor threads.
An emitter (`INotification`) has a `boost::signals2` signal per message
type. `slots[i][ty]` counts the slots connected to it, and each slot is
the observer's `wrappedHandler`. An `IObserver` posts
`handleNotification` to the io_context (`ios`). An `ISerializedObserver`
(the `ControllerProxy`) posts it to its `strand`. Emitter 0 is the
crossbar, which `NotificationCenter::registerNotification` connects at
start-up (`Init`).

`NotificationGroup` keeps emitters in a map under a `shared_mutex`. Each
call holds the lock for the map operation only, so the model splits each
call at its unlock:

| Action | Models |
|---|---|
| `RegisterGroup` | `NotificationCenter::registerNotificationGroup` filling `handler_map_` |
| `GetInGroup` / `RegisterHandlers` | `getNotificationInGroup`: find or create under the lock; register the handlers after it |
| `CreateNewNotification`, `AddNewNotification` | the locked store; then `RegisterHandlers` |
| `FindLocked` / `FindDeref` | `findNotificationInGroup`: `find` under the shared lock; `itr->second` after it. A dangling iterator reads any emitter. |
| `DeleteNotificationInGroup` | reset and erase under the lock |
| `Notify` | `INotification::notify`: every connected slot posts (`WrappedHandler`) |
| `RunPosted`, `RunStranded`, `Finish` | a thread running a posted handler; a strand runs one at a time |

`ver[k]` counts create, add and delete calls on a key. `gen[k]` counts
its erasures, so an iterator is still valid when `gen` has not changed.
No fairness is assumed: every property of this module is a safety
property. The strand (`RunStranded` waits until no handler of its type
runs) is Boost's, not this repository's, so nothing about it is checked.
`NotificationGroup` is not
instantiated by the datapath. Its three races are findings with
reproduction configurations.

### `Dictionary.tla` and `KeyValueMap.tla`: `util/Message_Dictionary.{h,cpp}`

This is the chained hash table with `DictionaryStandardStringCallbacks`.
Keys are model values whose characters are `Text[k]`.
`StringHash` is the recursive `hash * 31 + c`, and
`Bucket` is that hash modulo the size. `items[b]` is the chain of
bucket b, head first, of items `[key, value]` holding pointers. `heap[p]` is
the content of block p (a string, a value, `Freed` or `Unused`), and
`next` is the next block `strdup` returns.

| Action | Models |
|---|---|
| `InsertNew` | `DictionaryInsert` of an absent key: copies, head insert, `count++`, and `DictionaryResize` to `2*size` when `count + 1 >= size` (`Rehash`, with `DictionarySwap`) |
| `InsertExisting` / `Replace` | `DictionaryInsert` of a present key: `vRelease` of the old value, then `vRetain` of the new one |
| `InsertAliased` | the same, with the value pointer `DictionaryGetValue` returned (only in `AliasingSpec`) |
| `DictionaryRemove` | unlink the first equal item, release key and value, `count--` |
| `DictionaryClear` | release every item, empty every bucket, `count = 0` |
| `KeyWithMaximumValue(junk)` | `GetKeyWithMaximumValue` (an operator: it changes nothing). Each value is read as `*(int *)` from its `strdup` copy (`StrdupIntRead`) |

The caller (`example-codec.c:118-124`) stores `int` counts, but
`vRetain` is `strdup`. The copy of a count ends at its first zero byte,
so the count 1 is copied as `01 00`. `GetKeyWithMaximumValue` then
reads four bytes, and the ones past the copy are whatever the heap block
held before. `StrdupIntRead(v, j)` builds the int from the copied bytes
and the bytes `j` past them. `MaxKeyAgrees` quantifies over every choice
of those bytes from `Junk`.

`KeyValueMap.tla` is what the header promises: a map from keys to
values, with `Put`, `Delete` and `Clear`. `Dictionary` instantiates it
with `dict <- Readable`, the strings reachable through
`DictionaryGetValue`. `ImplementsKeyValueMap` is that refinement. The
other properties are:

- `HeapMatchesItems`: exactly the blocks the items point to are live;
  nothing is leaked or freed twice.
- `MaxKeyAgrees` is not in the run. It is the majority vote of
  `example-codec.c`: `GetKeyWithMaximumValue` returns a key whose count
  is maximal, or no key when no count is positive, whatever lies past
  the copies. It fails (finding 9).

### `DemoPipeline.tla` and `BoundedQueue.tla`: `unit-testing/main.c`, `src/FIFOqueue/FIFO.c`, `demos/example-codeRS.c`

The C demo runs on one thread. `main` loops `number_of_messages` times.
When the FIFO is empty, an iteration reads `message_size` bytes of the
data file and calls the codec's `messageArrived`. Every iteration then
takes one message out (`receivedByDestination`, that is `fifoGet`) and
calls `decode`. The codec linked in is the parity demo
`example-codeRS.c`:
- The encoder upper-cases each message, sends it and records its
  parity at `block_size - counter`. After `block_size` messages it also
  sends the parity set, as a message of `block_size` bytes.
- The decoder counts. The first `block_size` messages of a block are
  data: it records each one's parity, then lower-cases it. The next
  message is taken to be the parity set and compared byte by byte.

| Variable | Code |
|---|---|
| `fifo` | `*fifo_queue_pointer`: `buffer_pool` (the copies), `read_offset`, `write_offset`, `stored_items_number` |
| `seq`, `outbox` | `block_message->seq_id`; the `sendMessage` calls `messageArrived` has still to make |
| `recv` | `*received_block_message` |
| `encLeft`, `encPar` | `encoder_unsolved_messages_counter`, `encoder_parity_set_ptr` (`Null` when freed) |
| `decCount`, `decPar` | `messages_counter_for_decoding`, `decoder_parity_set_ptr` |
| `verdict` | the message numbers the last parity check printed as "error" |
| `iter`, `pc` | `message_count`, and where the loop body is |

| Action | Models |
|---|---|
| `ReadAndEncode` | the FIFO is empty: `fread`, `payload_size = message_size`, `messageArrived` (`MessageArrived`: `toupper`, parity, and on the block's last message the parity message, `free` and the reset) |
| `KeepQueued` | the FIFO is not empty: nothing is read |
| `SendMessage` | `sendMessage`: `seq_id++`, `fifoAdd` (`fifoCopyTo`, then `stored++`), whose `false` is ignored |
| `ReceiveAndDecode` | `fifoGet` (`fifoCopyFrom`, then `stored--`), then `decode`: `DecodeData` or `DecodeParity` |
| `Finished` | the loop is done |

`getParity` is the recursive `GetParity`, which clears the lowest set
bit the way the C loop does. `toupper` and `tolower` are the "C"-locale
functions on byte values. A read of the decoder's parity set past its
`block_size` bytes is a heap read of any value. That read happens only
when a data message is taken for the parity set.

`BoundedQueue.tla` is what the FIFO API's comments promise (they are in
`util/Message_FIFO.h`): a queue of at most `Cap` items. `fifoAdd` appends
when there is room, `fifoGet` takes the front, and each does nothing
otherwise. `DemoPipeline` instantiates it with `q <- Contents(fifo)`,
the `stored` items from `read_offset` on, modulo the capacity.

The demo's second codec, `example-codec.c` (repetition with a majority
vote), is not modelled. It includes a `Dictionary.h` that is not in the
repository, and it stores an `int*` through string callbacks.

## 3. Runs

| Run | Config | Expect | What it shows |
|---|---|---|---|
| stopqueue | `MinionStopQueue.cfg` | pass | 3 minions and 3 requesters in every interleaving, queues of capacity 3 (full, never overflowing). See below. |
| crossbar_serial | `CrossbarSerial.cfg` | pass | One thread, two flat sessions, 4 minions (one with no payload), 3 installs, TTL expiry: no null dereference, an archived session has no entry, and a session with parked minions and no route has a query outstanding (`ArchivedSessionQueried`). |
| crossbar_concurrent | `CrossbarConcurrent.cfg` | pass | Two threads, a sub-session, 3 minions, 3 installs, push as a CAS loop racing both consumers' exchanges: no archived minion is sent on twice, and no node is linked in two lists or after it was sent (`NodeInOneList`, about 1.4 million states). |
| controller_connection | `ControllerConnection.cfg` | pass | 3 notifications up, 2 control messages down, every split of both byte streams: at most one `async_write` outstanding, exactly when `should_call_send_` is false (`OnlyOneWrite`), and both directions implement `FifoChannel` including eventual delivery unless the process aborts (`UpIsFifo`, `DownIsFifo`), and a reset at any point, in either build, ends the process (`ConnectionFailureIsFatal`). |
| membership | `Membership.cfg` | pass | Nodes 1, 2 and 4, asserts enabled: two nodes never open two connections to each other (`OneConnectionPerPair`), two nodes announced to each other end up linked unless one crashed (`EventuallyLinked`), and a NodeOffline always names an online node, so the assert in `nodeOffline` holds (`OfflineNodeWasOnline`). |
| tcp_link | `TcpLink.cfg` | pass | A connecting link, 3 sending minions routed 3 times, a receiving pool of 3: one `async_send` at a time (`OneSendInFlight`), a minion returns only after its frame was sent (`ReturnAfterSend`), frames leave in routing order (`WireInRouteOrder`), every routed minion is eventually sent (`EveryRoutedSent`), the receiver never asserts and hands the crossbar each frame whole and in order (`ReceiverIntact`), and the link implements `FifoChannel` with eventual delivery (`LinkIsFifo`). |
| forwarding_table | `ForwardingTable.cfg` | pass | One session, one worker, simple and splitter entries (weights 1 and 2), TTL 0 or 1, 3 installs, 3 hits, `rand()` in 0..3: every next hop is the reference weighted choice (`HitMatchesReference`), and an entry with a TTL that stays in the table leaves it once hits stop (`EventuallyExpires`). |
| udp_link | `UdpLink.cfg` | pass | A UDP link from A to B with the test coders, 2 sending minions, 3 messages of one session, a receiving pool of one minion, a network that loses and reorders datagrams, and up to two remove/create calls on A: B hands every datagram it read to the crossbar once and in order (`ReceiverIntact`), B always resumes receiving (`ReceiverResumes`), and A's minions come back unless their sender is destroyed or A dies (`EveryMinionReturns`). |
| pseudo_app | `PseudoApp.cfg` | pass | Two reactor threads, two minions, a bucket of depth 2, one re-announcement: whenever `should_send_ontoken_available_` is clear some `onTokenAvailable` chain is alive (`NoLostWakeup`), and the source eventually stamps all its messages (`SourceProgress`). |
| notification_bus | `NotificationBus.cfg` | pass | Two reactor threads, the crossbar's emitter and a group with one key and two message types: two `getNotificationInGroup` calls with no write of the key in between return the same emitter (`GetReturnsOneEmitter`). |
| demo_pipeline | `DemoPipeline.cfg` | pass | The C demo with the parity codec, `block_size` 3, 10 iterations, a 3-slot FIFO and 2-byte messages over 'a', 'A' and '1', every file content: the ring implements `BoundedQueue` through every wrap of its offsets (`ImplementsBoundedQueue`), every parity check prints no error (`NoFalseError`), and `getParity` agrees with a bit count on every byte queued (`ParityMatchesReference`). |
| dictionary | `Dictionary.cfg` | pass | Keys "a", "b" and "ab", values 0..2, a table created with size 1 that grows to 2 and then 4, and 7 copies: `ImplementsKeyValueMap`, `HeapMatchesItems`. |

The stopqueue run checks four properties:

- `CounterLedger`: the counter equals the queued minions plus the
  pending minion pushes, minus the queued requesters and the pending
  requester pushes, corrected by the threads spinning on an element
  they have claimed.
- `ImplementsRendezvous`: the stop queue implements the abstract
  `Rendezvous` (refinement through `INSTANCE ... WITH`). A minion is
  present at the stop from its `fetch_add` until it is popped; a request
  is asking from its `fetch_sub` until it is served. Every pop hands a
  present minion to an asking request, each once, and a minion never
  stays at the stop while a request waits.
- `SpinPopTerminates`: every spinning pop ends.
- `RequestServed`: every request is eventually served.

Each property of a passing run has a fault variant in the module
(`ProcessNonPositive`, `PopMinionPeek`, `InstallRemoveNoErase`,
`PopAllCopy`, …). Substituting the variant for the definition it mimics
makes TLC report the property violated. `PROJECT.json` lists the pairs.

Why the bounds are enough:

- Two packets of one session before an install are the least that
  exposes the head-only drain.
- A second worker is the least that exposes the reset and install
  windows.
- Three installs allow an answer, an unprompted re-install and an
  install after a TTL expiry.
- In the controller connection, three notifications make a second and
  a third queue up behind a write in flight. Two control messages with
  reads of any size give a read ending inside a frame, a read carrying
  two frames, and a tail that is completed by the next read.
- In membership, nodes 1, 2 and 4: node 2 initiates to both 1 and 4
  (2+1 is odd and 1 is lower; 2+4 is even and 4 is higher), so one
  handler makes two connects, the second of which can be refused after
  the first succeeded. A fourth node adds nothing the tie-break does not
  already show and makes the run too large.
- In the TCP link, as many sending minions as routings (3): the pool is
  never empty before the last routing, so a link that stops sending
  shows as a violation of `EveryRoutedSent`, not as a deadlock. Three
  frames let a second send queue behind a first and the receiver read a
  third size prefix while the second frame waits for a minion. A
  receiving pool of 3 never runs dry; a pool of 1 does on the second
  frame. Four of each took ten minutes and showed nothing new.
- The accepted link uses 5 minions and 5 routings; two routings already
  expose the double request.
- In the pseudo app, two threads are the least for two chains; a depth of
  2 lets a chain take two tokens and a tick refill one while another
  chain runs; two minions let a request be parked and served later;
  four messages let a chain end, restart and run on.
- In the forwarding table, one session is enough for replacement and
  stale expiry; weights 1 and 2 with `RAND_MAX = 3` give draws at 0, at
  an interior point, exactly at a boundary between hops (`r = 2`: `rd = 2`,
  the first hop's edge) and at the total. Three installs let an
  entry be replaced twice; one worker keeps the run to two minutes, and
  a second worker only adds holders of an entry.
- In the UDP link, a receiving pool of one minion makes the second
  datagram wait for a minion and the third arrive meanwhile. Three
  messages on two minions queue one behind a send in flight. Two
  remove/create calls allow a remove followed by a re-creation. One
  session is enough for the properties checked; the encoder maps are
  per session and independent.
- In the dictionary, "a" (97) and "ab" (3105) share bucket 1 of a table
  of size 2 and bucket 1 of size 4, while "b" (98) does not. So chains of two
  items, removal of a non-head item and a rehash that splits a chain
  all occur. Size 1 forces a resize on the first insert; `MaxSize = 4`
  allows two. Seven copies cover three keys with a replacement.
- In the notification bus, two threads are the least for a race. One
  key is enough for every window of the group. Two emitters let a
  create replace a get's emitter. One write per key allows one create, add or
  delete. Two notifies give a serialized handler a second one
  to overlap with. Three notifies and two writes per key reach 9.7
  million states without showing anything new.
- In the C demo, `block_size = 3` as in the code. Ten iterations, as in
  `main_Macro.h`, give two complete blocks with their parity checks and
  part of a third. A 3-slot FIFO holds at most 2 items in this loop and
  wraps both offsets after three messages; the demo's 100 slots never
  wrap in 10 iterations. With 2-byte messages over 'a' (parity 1, and
  'A' after `toupper`, parity 0), 'A' and '1', the bytes carry both
  parities, and lower-casing before taking the parity would change it.
- In the message reproduction, `kMaxMessageSize = 3` with header sizes 1 and 2
  is the least that makes a header move from `buffer_` to
  `allocated_buffer_` and a full payload exceed the chunk.
- In the stop queue, three requesters against three minions make the
  counter both positive and negative, with spinners on both sides.

## 4. Findings

1. **Head-only drain** (`crossbar.cpp:188`): `handleArchivedPacket`
   wakes `packet_node->data` and never follows `->next`. Every archived
   packet after the first is lost, even with one thread. This contradicts
   spec.md §8 and test scenario 3. `CrossbarHeadOnlyDrain.cfg` (two
   packets archived, one install, one thread) shows `NoMinionLost`
   violated in 7 steps.
2. **Double `startSending` on an accepted link**
   (`tcp_connection_manager.cpp:152`): the accepting constructor of
   `TCPSender` already requests from the outbox (`tcp_connection.cpp:86`)
   and `onNewIncomingConnection` requests again. Two minions routed to
   the peer are then sent at once; `current_minion_` holds only the
   second, so the first completion returns the second minion to the pool
   while its send still reads its buffer, and the first minion is never
   returned. spec.md §4.5 allows one outstanding write.
3. **Receiver with a dry pool** (`tcp_connection.cpp:192-193`):
   `onDataReceived` requests a minion and then calls `startReceiving()`
   on the same `pending_msg_`. When the pool is empty the request is
   parked, the object is recycled and the next size read is issued into
   it. The minion that later serves the request swaps in that object, so
   the crossbar gets an empty message (or the next frame's size prefix,
   if it has landed) instead of the frame, and `pending_msg_` is now the
   minion's recycled object: when the size read completes into the
   object the minion took, the assert at `tcp_connection.cpp:174` sees
   size zero. spec.md §4.6 says the frame is swapped into the minion
   before the receiver restarts.

4. **Default message size** (`base/message.cpp:51`, `apps/pseudo_app.cpp`):
   a pseudo session without `MessageSize` sends payloads of
   `kMaxMessageSize`. The frame is then `header + kMax + 2` bytes. Over
   TCP, `getReceivingBuffer(false)` reads `message_size_ - 2` bytes into
   the kMax-byte `buffer_`, which overflows the heap. Over UDP the
   datagram is truncated. Either way `fromBuffer` points the payload
   view past the chunk, and the relay forwards bytes it never received
   (`RoundTrip`, spec.md §8). `MessageDefaultSize.cfg` of `MC_Message`
   reproduces it in 4 steps.
5. **Dropped parity message in the C demo** (`unit-testing/main.c:45`):
   `sendMessage` ignores the `false` that `fifoAdd` returns on a full
   buffer. With `length_of_FIFO_buffer` set below 2, the parity message
   of the first block is dropped. The decoder finds the parity set only by
   counting, so it takes the next block's first data message as the
   parity set. It prints errors for messages nothing changed, and with
   `message_size > block_size` it reads past its parity set. The codec's
   header says it prints "No error" when no error occurs
   (`NoFalseError`, `DemoPipelineFifoTooSmall.cfg`, 13 steps).
6. **Full requester queue** (`base/minion_pool.hpp:49`):
   `ConcurrentQueue::push` ignores the `false` that the
   `capacity<SIPHON_MINION_POOL_SIZE>` lock-free queue returns when full.
   `MinionPool::create` asserts that the minions fit, but nothing bounds
   the stops that request a minion: every connection adds a receiver and
   a socket wrapper. `request()` has already moved the counter, so a
   dropped requester is never served, and the minion that later claims
   it by the counter spins in `spinPop` forever (`RequestServed`,
   `MinionStopQueueFull.cfg`: capacity 2, two minions, three
   requesters). The stopqueue run fills the queues exactly to their
   capacity of 3 and passes.
7. **Null archive element suppresses the query** (`crossbar.cpp:69`):
   with two reactor threads, a packet routed between `insertEntry` and
   `removeSessionFromArchive` resets the archive element to a null
   pointer. `removeSessionFromArchive` erases the element only when the
   pointer it loads is not null, so the element stays. A second packet
   whose miss was decided before the install then archives into a fresh
   queue behind the null element. `archiveMinion` returns false for it,
   so no query is emitted. When the entry's TTL expires, that packet is
   parked with nothing asked of the Controller. It waits until some
   unprompted RoutingInfo arrives. Nothing crashes on the way
   (`ArchivedSessionQueried`, `CrossbarNullElement.cfg`, 17 steps, four
   packets of one session).
8. **Minions freed by a TCP remove** (`tcp_connection_manager.cpp:129`):
   `remove` erases the sender while minions are queued in its outbox or
   in flight in `async_send`. They are destroyed with the outbox and the
   socket wrapper and never go back to the pool. The aborted send's
   completion then runs `onDataSent` on the freed wrapper. Every
   NodeOffline with traffic in flight shrinks the fixed pool for good.
   `EveryRoutedSent` fails under `RemovalSpec` (`TcpSenderRemove.cfg`).
   The UDP side loses its pipeline the same way; `UdpLink` excuses
   that loss explicitly in `EveryMinionReturns`.
9. **Majority vote on strdup'd ints** (`util/Message_Dictionary.cpp:296`):
   `example-codec.c` stores `int` counts in a dictionary made with
   `DictionaryStandardStringCallbacks`, whose `vRetain` is `strdup`. The
   count 1 is copied as the two bytes `01 00`. `GetKeyWithMaximumValue`
   reads each value as `*(int *)`, so two of its four bytes lie past the
   copy. With one of them set, key `ka` with count 1 reads as 65537 and
   beats key `kb` with count 2 (`MaxKeyAgrees`, `DictionaryMaxKey.cfg`,
   3 steps, counts 1 and 2). The codec's comment says it gets the
   message with the maximum occurrence number.

Checked while modelling but not kept as runs (the project keeps at most
twelve runs):

- `tcp_connection_manager.cpp:152` (double `startSending` on an accepted
  link, finding 2): `TcpSenderAccepted.cfg` reproduces it.
- `tcp_connection.cpp:192-193` (receiver with a dry pool, finding 3):
  `TcpLinkPoolDry.cfg` reproduces it with a receiving pool of one
  minion. The second frame parks its request, `startReceiving` reads
  the third size prefix into the object the parked request will hand
  over, and the crossbar gets a size-only frame (`ReceiverIntact`).
- `tcp_connection_manager.cpp:150` (sender for an offline peer): node 2
  connects to node 1, then crashes on a refused connect to node 4. The
  Controller reports 2 offline to 1, and 1 handles it before it accepts
  2's connection. `remove` finds nothing to erase. `onNewIncomingConnection`
  then creates a sender and a receiver for the dead node, and they stay.
  spec.md §4.8 says NodeOffline drops them (`NoSenderAfterOffline`,
  `MembershipLateAccept.cfg`, 12 steps).
- `notification_observers.hpp:236` (lost notification):
  `getNotificationInGroup` stores the new emitter and unlocks before it
  registers the handlers. A second thread's get returns the emitter in
  that window, and its `notify` logs "hasn't registered yet" and reaches
  no observer (`NotifyReachesObserver`,
  `NotificationBusLostNotify.cfg`, 4 steps).
- `notification_observers.hpp:306` (double slot): `addNewNotification`
  connects the handlers again to an emitter that already has them. Every
  notify is then handled twice, against spec.md §4.9's single
  registration (`NoDuplicateDelivery`, `NotificationBusDoubleSlot.cfg`).
- `notification_observers.hpp:331` (dangling iterator):
  `findNotificationInGroup` releases the shared lock and then uses the
  iterator. A delete on another thread in between leaves it dangling
  (`NoDanglingIterator`, `NotificationBusDanglingIterator.cfg`).
- `util/Message_Dictionary.cpp:117` (aliased replace): on a key already
  present, `DictionaryInsert` frees the old value before it `strdup`s the
  new one. A caller that passes the pointer `DictionaryGetValue`
  returned makes `strdup` read freed memory.
  `DictionaryAliasedValue.cfg` (`AliasingSpec`) violates
  `ImplementsKeyValueMap` in 2 steps. The dictionary is unused by the
  datapath today.

- `node_manager.cpp:63` (inverted status): `getNodeStatus` returns
  `online_i == online_node_set_.end()` as the first element, which
  `node_manager.hpp` documents as the online status. An online node is
  reported offline and an offlined one online (`NodeStatusIsOnline` of
  `Membership`, `MembershipNodeStatus.cfg`, 5 steps). It has no caller
  today.

- `crossbar.cpp:123-129` (install window): drain, insert and remove are
  separate critical sections. With two workers, a packet routed between
  `insertEntry` and `removeSessionFromArchive` resets the element, pops
  the drained queue and dereferences an empty list (`NoCrash`). The
  comment at `crossbar.cpp:121` and spec.md §4.4 claim a single drainer.
  It shows with two workers and three packets of one flat session.
- `pseudo_app.cpp:106` (second source chain): when `consumeOneToken`
  finds the bucket empty it sets `should_send_ontoken_available_` under
  its lock, and `onTokenAvailable` sets it again after the lock is
  released. With two reactor threads, a timer tick in between clears the
  flag and starts a new chain; the late store sets it again and the next
  tick starts a second chain. Two threads then run
  `PseudoAppSource::process` at once and race on `seq_++`: two messages
  carry the same `seq`, against spec.md §4.10 (`SeqUnique`, 15 steps,
  the pseudo_app configuration with `MaxStarts = 1`).

- `forwarding_table.cpp:197` (stale expiry erases the new entry): the
  expiry handler is bound to the session ID. When an entry's timer has
  fired and its handler is queued, a replacement installed first
  survives the old entry's `cancel()`, which cannot abort a handler
  already due, and the handler's `deleteOneEntry` erases the replacement.
  The same holds for a hit: `timer_.cancel()` at
  `forwarding_table_entry.cpp:47` does not stop an expiry already due.
  spec.md §4.3 says an entry is removed only by its own TTL or by
  replacement (`RemovedOnlyByOwnTimer` of `ForwardingTable`, 5 steps:
  install with TTL, fire, install again, expiry handler).
- `udp_connection.cpp:230` and `:127` (late ack kills the node): an ack
  that reaches A after NodeOffline removed the peer fails the assert
  that the peer's sender exists (with `NDEBUG`, `end()` is
  dereferenced). After a NodeOnline re-creates the sender, a late ack
  finds an empty `encoders_` map and `onAck` calls `setParameters` on the
  null pointer `operator[]` inserted. `NoAckCrash` of `UdpLink` fails in
  6 steps with the udp_link constants: route, send, B decodes and acks,
  remove, ack read. A late ack is ordinary UDP behaviour, and spec.md §7
  isolates peer failures.
- `udp_connection.cpp:127` (reordered acks): acks are applied in arrival
  order. With a lossless network that reorders, an older ack applied
  after a newer one resets the encoder to a `T, B, N` the decoder has
  already moved past. When everything has been delivered, the encoder
  and the decoder disagree (20 steps). This is against the expectation
  of the disabled test `gtest_udp_connection.cpp:55-62`.
- `coder/udp_coder_interfaces.cpp:12` (counter after an ack):
  `setParameters` resets the counter to 0, as spec.md §4.7 says. spec.md
  §6 ("after the encoder receives an ack ... a subsequent encode carries
  a greater counter") then fails as soon as two packets were encoded
  before the ack. The two parts of the spec disagree; the code follows
  §4.7.
- `crossbar.cpp:169` (sub-session crash): a sub-session packet archived
  before its parent's entry was installed is drained when a later packet
  of the sub-session is routed through the parent entry; the drain uses
  `getEntry(sessionID)`, which is null, and dereferences it (`NoCrash`
  of `Crossbar`, one thread).
- `tcp_connection.cpp:102` (refused connect kills the peer): the
  Controller knows a node from its handshake but the node listens only
  later (`aggregator.cpp:54`). A peer told about it in between gets a
  refused connect; the `system_error` thrown is not the `error_code&`
  caught, so the peer process dies, against spec.md §7 (`NoNodeCrash` of
  `Membership`).
- `forwarding_table_entry.cpp:195` (generic entry draw): `rd =
  std::rand() * subtotal` lacks the division by `RAND_MAX`, so for any
  `rand() > 0` the draw exceeds the weights: with weights 1 and 2,
  `rand() = 1` picks the lighter hop and `rand() = 2` runs the loop to
  `end()` and dereferences it (`HitMatchesReference` with generic
  entries, 3 steps).
- `crossbar.cpp:147-158`: with two reactor threads the miss seen by
  `getNextHop` is stale when `archiveMinion` runs, so an archive element
  can coexist with an installed entry and a second query is sent,
  against spec.md invariant 3. `ArchiveExcludesEntry` holds with one
  thread (crossbar_serial).
- `minion_pool.cpp:7,18`: spec.md's "at all times queued minions -
  queued requesters = counter" fails right after the first `fetch_sub`;
  `CounterLedger` is the invariant that holds.
- `tcp_connection.cpp:73`: `assert(resolveAndConnect(url))` compiles
  the connect out under `NDEBUG`. With `AssertsEnabled = FALSE`
  `EventuallyLinked` fails in one step.
- `tcp_connection.cpp:37`: `async_send` may send part of a frame and
  `onDataSent` ignores `bytes_transferred`. A truncated frame desyncs the
  peer's size-prefixed reads; `async_write` would loop until done.

## 5. Plan

Modules in order of importance; each extends the work above. Done
since the list was drawn up: the notification bus (`NotificationBus`),
NodeOffline in `Membership`, the dictionary, the `Message` round trip
and the C demo (`DemoPipeline`).

1. **Crossbar, continued.**
   - Liveness: an archived packet is eventually sent on when the
     controller answers. The head-only drain (finding 1) already breaks
     it with one thread. The missing query of finding 7 is checked as
     the safety property `ArchivedSessionQueried`.
   - An order property relative to archival.
   - `getSender` returning null: `Crossbar::handleArchivedPacket` and
     `process` pass it to `wakeup` for a peer with no sender (before
     the acceptor's `onNewIncomingConnection`, or after a NodeOffline).
     This needs the crossbar composed with `Membership`.
8. **The C demo, continued**: the repetition codec of `example-codec.c`
   once its dictionary header is part of the repository, and a lossy
   channel between `fifoAdd` and `fifoGet` for the parity check to
   detect.
2. **SenderPipeline / TCPReceiver** (done in `TcpSender`, `TcpReceiver`
   and `TcpLink`). Left: the receiver's error branches and short sends.
3. **ControllerConnection** (done): continue with the dispatch of
   received messages to `NodeManager` and the connection managers.
4. **ForwardingTableEntry timers** (done in `ForwardingTable`). Left:
   the table in `Crossbar` and `ForwardingTable` could be composed, so
   that the crossbar's lookups see the timers.
5. **CodingParameters** (done in `UdpLink`): the word is kept byte-wise
   with wraparound; `FakeEncoder`, `FakeDecoder` and `setParameters`
   are modelled. The spec's monotonic-counter claim is in the checked
   list. Left: the `DirectPass` coders. A session's counter wrapping
   past 255 is not planned: the `fetch_add` wrap stays inside the top
   byte, and no code compares two counter words.
6. **ConnectionManager.** The tie-break and link set-up are done in
   `Membership`. The UDP `remove` with a non-empty outbox and late acks
   are done in `UdpLink`. The TCP `remove` is `RemovePeer` in `TcpSender` (finding 8).
7. **TokenBucket / PseudoApp** (done in `PseudoApp`). Left: a rate
   property over a clock, for the refill on re-announcement.

## 6. Not modelled

- Logging, configuration and the file utilities: I/O, or unused by the
  datapath. In the C demo: printing, `fifoRelease`, and the frees at
  the end of `main`. Those free `received_block_message` before
  `received_block_message->payload_ptr` (`main.c:110-111`), a use after
  free that needs no model to see. `DictionaryPrint` is
  I/O. `DictionaryRelease` ends the object. Failure of `malloc` is not
  modelled: a failed item `calloc` (`Message_Dictionary.cpp:132-137`)
  and the resize's failed `DictionaryCreate`, after which
  `DictionaryResize` returns silently (`:337-340`) and `count` stays at
  `size` or above. Lookups still work on the longer chains, and neither is reuse of freed blocks (a freed block stays
  `Freed`).
- Next-hop identities in the crossbar. The properties only ask whether
  and in what order a minion is sent on.
- The TCP receiver's error branches (`tcp_connection.cpp:168,185`). An
  error on the size read (168) logs and returns, and the link goes
  silent. An error on the payload read (185) only logs. The branch falls
  through to `fromBuffer` on the partly filled `pending_msg_`, then
  `pool_->request` and `startReceiving`, so half a frame is forwarded as
  a message. `ReceiverIntact` and `LinkIsFifo` would reject it, but the
  model has no connection reset: every file the checker allows is used
  (hazard list, `tcp_connection.cpp:185`).
- Short sends: `async_send` is a `write_some` (see the list above).
- The extra-data branch of `onDataSent` and `TCPSender::onAck`: only the
  UDP encoders use them.
- Duplicated UDP datagrams. The network in `UdpLink` loses and
  reorders datagrams; it does not duplicate them.
- The loopback branch of `UDPReceiver::process`, which sends no ack, and
  the `DirectPass` coders.
- Rejection of malformed RoutingInfo messages by `newEntry`. It returns
  before any state changes.
