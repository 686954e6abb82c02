# udp_tunnel in TLA+

udp_tunnel carries UDP datagrams over WebSocket connections. A *client* process
listens for datagrams of local sources and gives each source address a *pair*; pairs
are multiplexed onto WebSocket *tunnels*, `--carrying-capacity` of them to a tunnel,
told apart by a one-byte pair id in front of every message. A *server* process accepts
the tunnels and gives each pair (tunnel, pair id) an UDP socket of its own towards the
endpoint. Both close pairs that have been silent for `writeTimeout` or
`receiveTimeout`, and the client destroys tunnels that carry nothing.

This directory holds TLA+ modules of that program, TLC configurations that check them
on small instances, and TLAPS proofs for every value of the constants.
`PROJECT.json` maps each definition to the lines it stands for.

Contents: 1 the system, 2 the modules, 3 the runs, 4 fairness, 5 the proofs,
6 where code and comments disagree, 7 what is not modelled, 8 the plan.

## 1. The system

Paths are relative to `src/module/` unless they start with `src/`. Every component
runs on libhv event loops. The client has one loop. The server has two threads: **L**,
the loop of `Server`, and **W**, the loop of the WebSocket server that libhv starts.

| Component | State | Operations | Works with |
|---|---|---|---|
| `PairCounter` | pairs counted per tunnel, list of tunnels with room | addTunnel, getAvailableTunnelID, pairCounterOperate, removeTunnel | called by `ClientPairManager` |
| `ClientTunnelContext` | pool of pair ids ("seats"), weak references to the pairs on them | takeSeatNumber, putSeatNumber, bindPair, getPair, foreachPairs | its close handler runs inside `Pair::close` |
| `ClientPairManager` | `_tunnels` | prepareTunnels, createPair, onReceive, onTunnelDestroy/Error, cleanUpUselessTunnels | makes tunnels through `TunnelFactory`, counts through `PairCounter` |
| `ClientForwarder` | source address to pair | onSend, pair close handler | owner of the pairs |
| `Client` | GC timer, UDP server | run, garbageCollection, shutdown | closes silent pairs |
| `LibhvWsClientTunnel` | state (previous, current), callbacks | constructor, onopen, onclose, destroy, send | over `WebSocketClient` |
| `WebSocketClient` | handshake state, unanswered pings | open, redirects, heartbeat, close | over libhv's TCP client |
| `TunnelIDPool` | queue of ids, next fresh id | fillPool, getTunnelID, putTunnelID | `TunnelFactory` (client), `LibhvWsListener` (server) |
| `Pair` | closed flag, close callbacks | send, close | both processes |
| `CallBackManager` | callbacks in order | add, remove, trigger (last added first) | the order in which a close undoes things |
| `ServerPairManager` | `_tunnels` under `_tunnelsMutex` | onTunnelOpen, onSend, createPair, pair handlers, destroy handler | runs on W and on L |
| `ServerTunnelContext` | id to pair under `_locker` | addPair, removePair, getPair, foreachPairs | shared by W and L |
| `Server` | GC timer | run, garbageCollection, shutdown | L |
| `LibhvWsListener`, `LibhvWsServerTunnel` | tunnel of each channel, its state | onopen, onmessage, onclose, destroy | W |
| `UDPClientFactory` | none | createLibhvUDPClient, which may fail | called on W, the socket lives on L |
| `IdleHandler` | callbacks | trigger | drives cleanUpUselessTunnels |
| `src/main.cpp`, `Client::run`, `Server::run` | mode, running flag, loop | main, init, start, run, shutdown, the SIGINT handler | everything above; shutdown runs on top of whatever the loop was doing |
| `utils/socket.hpp`, `LibhvWsListenConfig` | none | SplitIPAddress, parse, fromFile | decide what run starts |
| `Logger` | a sink with a mutex | log | called everywhere, also from the signal handler |

What is hard in it:

* **Redundant bookkeeping.** The room on a client tunnel is kept three times: the seats,
  the count, and the list of available tunnels, updated by close handlers that run in
  the reverse of the order in which they were registered. They must never disagree, or
  a tunnel is overfilled or forgotten.
* **Two views of a pair.** `_sourceAddressMap` owns the pair, the context finds it by id.
  A reply to the wrong source is what goes wrong when they part.
* **Two closers and a sender on the server.** W closes the pairs of a tunnel that goes
  away, L those that are silent, and W sends on them meanwhile, with four kinds of
  mutexes. `removePair` erases by id, so a late second close could hit a successor.
* **Two-phase collection.** Both collectors fill a vector under locks and close without.
* **Time.** Deadlines are unsigned differences to a clock that is read first.
* **Ids that come back.** Pair ids and tunnel ids are pooled and reused.
  A pair id is given out again without a word to the server, which may still have a socket,
  and an endpoint that replies late, under it.
* **Sockets that cannot be created**, and redirects that drop the channel silently.
* **Two state machines for one connection**, the tunnel's and the WebSocket client's, which
  change in different handlers; `close()` may run `onclose` before it returns, or later.
* **A heartbeat** that counts pings while pongs come late or in groups.
* **A signal handler that does everything**: it locks, joins a thread and logs, and may
  have interrupted a holder of what it needs, or the start of the program.

What makes each component correct:

* `PairCounter`, `ClientTunnelContext`: no id lost or out twice, counts equal to pairs,
  list equal to the tunnels with room.
* `ClientForwarder`: its map and the tables are inverse; a source keeps its pair.
* `ClientPairManager`, `Client`: only full tunnels cause a new one; only empty ones are
  destroyed; silent pairs and spare tunnels go in the end; connecting ends.
* `TunnelIDPool`: unique ids, none lost, and a bound on how many are ever used.
* `LibhvWsClientTunnel` over `WebSocketClient`: the two agree; users hear "ready" at most
  once and exactly one end; a dead peer is noticed; an attempt to connect is resolved.
* Client and server together: a source gets replies to its own datagrams.
* main, run, shutdown: what says it runs listens, what ended has left nothing behind, and a
  SIGINT ends the process.
* `ServerPairManager` and its context: a registered pair is alive, every socket can be
  found by somebody who will stop it, one receiver per id, a tunnel that is gone leaves
  nothing, and no thread waits for ever.

## 2. The modules

### Client

`PairCounter` <- `ClientTunnelContext` <- `ClientPairManager` extend each other, bottom
up, each with the variables of one class; `ClientPairManager` composes them with
`ClientForwarder`, `Client`'s collector, `Pair::close` and the tunnel's states. The three
modules are one state machine because in the code they are one: one thread, and every
handler calls through all of them.

One event-loop handler, with every callback it triggers synchronously, is one action.

| Action | Handler |
|---|---|
| `Init` | `Client::run` with the queued prepareTunnels: one tunnel, connecting |
| `OnOpen`, `TunnelError`, `TunnelDestroyed`, `RedirectFails` | onopen, onclose while connecting, onclose later, a redirect whose socket cannot be created |
| `SendOnPair`, `SendOnNewPair`, `SendWithoutSeat` | `ClientForwarder::onSend` with a known source, a new one, and a new one for which createPair fails |
| `OnReceive` | a message for a pair that is there |
| `SendTimeout`, `ReceiveTimeout` | a pair's last time falls a whole timeout behind the clock, at any moment |
| `GcCollect`, `GcClosePair` | garbageCollection: fill the vector, then close one pair of it |
| `CleanUpUselessTunnels`, `DestroyNow`, `DestroyLater` | cleanUpUselessTunnels: fill the vector, then destroy() one of it, with onclose run inside close() or put off |

Abstractions. A source is the hash of its address. Time is two sets of pairs that are overdue. A
count of a tunnel that is not counted is 0, the context of a tunnel that does not exist is the
one the constructor would build, and its state is the initial one. An operation that creates a
tunnel takes any tunnel value that is not in `_tunnels`; which ids those are is `TunnelIDPool`'s
business. When the model's tunnels are used up, a new source waits; the code has no such limit
(`--max-tunnel` is never read). Iteration order of the unordered containers, which decides the
seat that is taken, the tunnel that is kept and the order in which the vectors are worked off,
is nondeterministic. `ERR` and `DESTROYED` are passed through inside one action and never seen
between two handlers; `RECONNECTING` is never assigned in the code.

`PairAllocation` is the abstract specification: slots (tunnel, id) with an owner, an
allocation that respects capacity and takes only free slots for sources without one, a
release of a slot or of a tunnel. `ClientPairManager` implements it with
`owner <- pairs` (`ImplementsAllocation`).

### Tunnel ids

`TunnelIDPool` is the pool with its two users, which do the same: refill when low, take
the front, give back at the end. `fillPool` adds `poolSize + 1` ids (its loop condition
is `<=`) and always a whole lot of them, and that is what is modelled. `putTunnelID` would take
an id twice; that it gets each once is the business of `WsClientTunnel`, whose
`ImplementsTunnelLife` says that exactly one of the error and destroy handlers runs.

### Server

`ServerPairManager` models both threads. A step is what a thread does between two
accesses to state the other one may touch. `pc`, `cur`, `at`, `todo` are each
thread's program counter, the pair and tunnel it works on, and its `pendingToDelete`.
Locks that are held across steps are variables: `tunnelsMutex` and `locker` (the
collector holds both while it looks at pairs) and `closeMutex` (held by whoever closes).

| Action | Thread | Code |
|---|---|---|
| `Open` | W | listener's onopen, onTunnelOpen |
| `OnClose` .. `EraseTunnel` | W | onclose, destroy, the destroy handler |
| `FindPair`, `CreatePair`, `CreatePairFails`, `AddPair`, `Send` | W | onSend, createPair, `Pair::send` |
| `SkipClosed`, `BeginClose`, `Unlink`, `StopSocket`, `MarkClosed`, `EndClosing` | both | the loop over the vector, `Pair::close`, the close handler |
| `StartRecv`, `OnReceive` | L | startRecv queued by createPair, a datagram |
| `GcBegin`, `GcVisitTunnel`, `GcReadClock`, `GcJudge`, `GcLeaveTunnel`, `GcEnd` | L | garbageCollection |

Objects are `<<tunnel, id, n>>`; a closed object that nobody refers to may be made again,
which stands for a new allocation. `createPair` without a socket leaves a null pair that
`onSend` then closes: the state `crashed`, after which nothing happens.

`PairLife` is the abstract specification: a pair is made, registered under its id where it is
alone, unlinked, stopped and gone, with nothing said of threads, locks and vectors.
`ServerPairManager` implements it with `phase[p] <- PhaseOf(p)` (`ImplementsPairLife`).

What is assumed of libhv: the WebSocket server runs its callbacks on one thread; a
`startRecv` that is delivered after `stop()` is harmless; `stop()` may be called from
either thread. `Pair::send` reads `_isClosed` without `_closeMutex`; a send on a socket
that was stopped a moment ago is taken to be an error return.

### One client tunnel

`WsClientTunnel` models `LibhvWsClientTunnel` over `WebSocketClient` over a channel of libhv,
from the constructor to the last callback. `state` is the tunnel's `_state` with its previous
state, `ws` the client's, `channel` libhv's, `told` the callbacks that were triggered. All of it
runs on one loop: a handler with the callbacks it triggers is one action.

| Action | Code |
|---|---|
| `Construct` | the constructor: open(), its result ignored, then CONNECTING |
| `OnConnection`, `OnChannelClosed` | onConnection with a channel that is up, or gone (with the tunnel's onclose) |
| `Redirect`, `UpgradeRefused`, `Upgraded` | onMessage while WS_UPGRADING |
| `OnCloseFrame`, `OnPong` | onMessage while WS_OPENED |
| `Heartbeat` | the lambda given to setHeartbeat |
| `Destroy` | destroy(), called in any state but the last |
| `PeerAnswers`, `PeerFallsSilent` | the network and the peer |

`TunnelLife` is the abstract specification: the life a tunnel's users may rely on, which is
the diagram of `Tunnel.h` with the edge that `destroy()` adds and without RECONNECTING.
`WsClientTunnel` implements it with `phase <- state.current` (`ImplementsTunnelLife`).

Assumed of libhv: a close runs `onclose` before it returns or, if data is unwritten, later, and
reading and the heartbeat go on until then; a connect without an answer fails.
`ClientPairManager` uses a coarser view of the same tunnel, in which a connecting channel opens
or fails in one step.

### Client and server together

`UdpTunnel` is one connected tunnel end to end: the client's ids (`owner`), the two directions
of the tunnel, the server's sockets (`socketOf`, `idOf`) and an endpoint that remembers who
asked by which socket (`askedBy`) and may reply to any of them at any time. Each side collects
its own silent pairs and tells the other nothing. `SendOver` is `Tunnel::send`: while
`MaxUnwritten` messages are unwritten a message is refused, and lost. Ghost variables say whose
replies a source got (`got`) and which ids were taken when nothing was left of their last use
(`clean`). Handlers of either side are single actions here; the steps inside one are
`ServerPairManager`'s and `ClientPairManager`'s business.

### The process

`Lifecycle` is main with the options' result, the description of the address to listen on,
`Client::init/run`, `LibhvWsListener::start`, `Server::run`, both `shutdown`s and the handler of
SIGINT. M is the main thread, W the thread libhv starts for the WebSocket server. A thread may
hold one of two locks when a signal comes: "tables" stands for the mutexes of tunnels and pairs,
"console" for the one in the logger's sink. `handler` is how far M got in shutdown;
`SayOnConsole` are its two log lines, for which it needs the console.

A description is a record of what decides the outcome of parsing: scheme, kind of address, port,
https and its files. `SplitIPAddress` and `fromFile` give the outcome in the order of the code's
checks, with "throws" for a number above `IntMax`; `OnWire` is the cut to 16 bits in libhv. The
client takes an address without a scheme, the server a `ws://` or `file://` URI.

Assumed: a SIGINT goes to M, or, while M is blocked in the handler, to W; stopping libhv's
WebSocket server stops W's loop and joins the thread; a loop that is stopped before it runs does
not run; a socket that cannot be bound is reported to `Client::init`, and to nobody by
`run(false)`; a certificate may be refused.

### Others

`MC*` modules are the instances for TLC. `TunnelIDPool_proof`, `ClientPairManager_proof`,
`ServerPairManager_proof`, `WsClientTunnel_proof`, `UdpTunnel_proof` and `Lifecycle_proof` hold
the theorems. Operators whose
comment says "mutant" are the module's plausible bugs; nothing uses them, they are there to be
put in the place of the definition below them and to show that a property notices.

## 3. The runs

| Run | Instance | What it shows |
|---|---|---|
| `ClientPairs` | 3 tunnels, 4 sources, capacity 2, ids 0..2 | all safety of the client and the refinement; 78 958 states |
| `ClientLiveness` | 2 tunnels, 2 sources, capacity 1, no symmetry, sockets may fail and peers may never answer | silent pairs are closed, useless tunnels with a channel destroyed, and no source keeps a pair for ever on a tunnel that is not connected (`PairTunnelIsResolved`); 4 933 states |
| `ClientFullPairId` | capacity = number of PairID values = 2 | with `INVALID_PAIR_ID` in the pool, at most one seat per tunnel leaks; 60 594 states |
| `TunnelIDPool` | pool 2, 3 alive | uniqueness, conservation, bound; 1 935 states |
| `ServerPairs` | 2 tunnels, 1 id, 2 objects, sockets may fail | server safety, and `PairLife` is implemented; 59 007 states |
| `ServerLiveness` | 1 tunnel, 1 id, 2 objects, deadlock checked | server liveness; 1 804 states |
| `WsClientTunnel` | sockets may fail, 2 redirects, 6 pings | tunnel and client agree, the heartbeat counts right, `TunnelLife` is implemented, a silent peer is cut, the handshake ends; 6 031 states |
| `UdpTunnel` | 3 sources, 1 id, 2 sockets, channels of 2 | whose replies a source gets; orphaned sockets go; 192 495 states |
| `Lifecycle` | ports 0, 80, 65536, 70001, 2 SIGINTs | every configuration, and SIGINTs anywhere; 35 772 states |
| `ClientStuckConnecting`, `ClientGcOneWay`, `ServerGcUnderflow` | as small as shows it | the three disagreements of section 6 |

Named bounds and why they are enough.

* `Tunnel` (client): 3, with 4 sources and capacity 2, so that two tunnels are full at
  once, one empties while another fills, and one is kept while another is destroyed.
* `PairIdCount`: stands for 256. 3 leaves one id that is neither invalid nor used with
  capacity 2; 2 is the case in which the pool wraps around to `INVALID_PAIR_ID`.
* `Object`: 2 per id, a pair being closed and its successor. Neither closer gives up a
  pair before it has finished with it and W is the only creator, so a third would need a
  second creator.
* `PairID` (server): 1. Ids of a tunnel interact only through the vectors and the
  context's lock; two tunnels exercise both.
* `MaxLive`, `PoolSize`: 3 and 2: the third tunnel refills the pool, and
  `BoundedIds` is reached exactly.
* `MaxRedirects`: 2, so that a redirect is redirected again; the code has no limit.
  `MaxPings`: 6, more than the 4 heartbeats that close, so pings of two countings are under way
  together; counts above it are as good as it.
* `UdpTunnel`: with 3 sources an id is taken a third time while replies to the first two holders
  are about; 2 sockets let the server's socket of an id change. `MaxUnwritten` 2 makes both a
  full channel and two messages of different holders in it happen. With 2 ids (436 thousand
  states) the properties hold as well; it is not kept because it takes too long, and the safety
  property is proved for any number.
* `Port`: 0, a legal one, one that is cut to 0 on the wire, one above `IntMax`; `IntMax`, 70000,
  stands for 2^31 - 1. `MaxSignals` 2: one that ends the process and one that arrives in the
  middle of that.

`CHECK_DEADLOCK FALSE` is said where the instance may stop: `ServerPairs` crashes, a client
instance may run out of model tunnels with nothing to collect, a tunnel and a process end, and
in `UdpTunnel` fairness says what must go on.

## 4. Fairness

Liveness is checked under `FairSpec`. The event loops run every callback, timer and idle
handler in its turn, and the two-phase handlers run to their end, so:

* client: weak fairness for the rest of a started handler (`GcClosePair`, `DestroyNow` or
  `DestroyLater`); strong fairness for the collector's timer and the idle handler, which
  other handlers may run in front of again and again, and for the end of a close that was put
  off; weak fairness for the clock where nothing can hold it up (`Unanswered`): the receive time
  of a pair on a tunnel that is not connected is never renewed, so it becomes too old.
  **No** fairness for a connecting channel to open or to fail: no timer guards the upgrade, so
  a peer may leave it unanswered for ever. Nothing makes a source send, a peer answer, a
  redirect fail, or a pair on a connected tunnel fall silent.
* server: strong fairness for each thread's next step, since a mutex that is free again and
  again is obtained in the end, and for the collector's timer. Nothing makes clients open,
  close or send.

* `WsClientTunnel`: weak fairness for what the loop runs (constructor, heartbeat, a pong that is
  there), for the end of a connect and of a close that was put off, and for the answer to the
  upgrade of a peer that has not fallen silent. Nothing makes a peer answer pings, fall silent
  or close, or anybody call destroy().
* `UdpTunnel`: weak fairness for the delivery to the server and for time (a send time that
  nobody renews becomes old), strong fairness for the collector's timer. Nothing makes sources
  or the endpoint send.
* `Lifecycle`: weak fairness for each thread's next step when nobody can take it away, strong
  fairness where a lock is needed: a mutex that is free again and again is obtained in the end.
  Nobody has to send a SIGINT.

In `ClientLiveness` a tunnel may so be stuck in CONNECTING, with a silent channel or with none,
and the properties say what the rest of the client does about it: `PairTunnelIsResolved`, that
the collector takes every pair off it, and `IdleClientKeepsOneTunnel`, that it is destroyed when
it is spare. A tunnel whose socket could not be created is never destroyed, since no callback
will come, and is not counted by the latter. `ClientStuckConnecting` is checked under
`AnsweredSpec`, which adds that every channel there is opens or fails, to show that a tunnel is
stuck even then (section 6). Its trace is a tunnel without a channel.

## 5. The proofs

All proofs are for arbitrary values of the constants (any tunnels, sources, ids, sockets, ports,
any bounds) and need no more than the named assumptions of the modules.

`TunnelIDPool_proof`. The inductive invariant (`Accounted` and `BoundedIds`) joins types,
uniqueness and conservation with a count: queue and tunnels together are `lastTunnelID - 1`
many. At a refill at most `LowWater` ids are in the queue and at most `MaxLive - 1` are out, and
the count gives the bound. `Accounted` is stated of any queue, counter and set, because one
action applies a refill and a get one after the other. Theorems: `UniqueTunnelIds`,
`ConservedTunnelIds`, `BoundedTunnelIds`, `TunnelIDPoolTypes`.

`ClientPairManager_proof`. None of the safety invariants is inductive alone. `IInv` is the
conjunction of

* `TypeOK`;
* `Accounts`: seats, counts, list and map agree, **and** a tunnel that does not exist carries
  no pair and has all its seats (`AbsentTunnelsAreEmpty`, without which a new tunnel could start
  with the pairs of an old one);
* `VectorsAreFresh`: what is in `pendingToDelete` is an open pair, what is in
  `uselessTunnels` is an existing tunnel without pairs, and only one of the vectors is in use
  (without which `GcClosePair` would return a seat twice, or a tunnel would be destroyed
  under a pair that waits to be closed).

`SeatsPartition` and `CounterMatchesPairs`, as the runs check them, are false when the pool
contains `INVALID_PAIR_ID`, which createPair takes from it and loses. `Accounts` states them as
far as they are true of every capacity up to the number of ids: a seat is free or used and never
both, and only `INVALID_PAIR_ID` can be neither (`PoolBalance`); the counter and the free seats
make up the capacity (`CountBalance`), so the counter counts the lost seat, too. It is the
counter, not the number of pairs, that the list of available tunnels follows.

`InitAccounts`, `NextTypes`, `NextAccounts` and `NextVectors` prove `IInv` inductive, one step
for each action. What follows from it, for every `Capacity \in 0 .. PairIdCount`: `ClientTypes`,
`ClientMap`, `ClientUseless`, `ClientKeepsPairs`, `ClientOpensOnlyWhenFull`, `ClientLeak` (a
tunnel loses one seat at most, the bound that run `ClientFullPairId` checks) and the refinement
`ClientImplementsAllocation`, for which `PoolBalance` and `CountBalance` give the abstract
capacity guard and `MapAgreesWithPairs` the guard that the source holds no slot. `ClientAvailable`
needs `Capacity > 0`: a tunnel of capacity 0 is listed as available and can carry nothing.
`ClientSeats` and `ClientCounter` assume `ProperCapacity`, `Capacity \in 1 .. PairIdCount - 1`,
which leaves `INVALID_PAIR_ID` out of the pool.

`AllocationHoldsSlots` is a theorem about `PairAllocation` alone: a source holds one slot at
most, nobody holds `INVALID_PAIR_ID`, and no tunnel carries more pairs than its capacity. By the
refinement it holds of the client (`ClientHoldsSlots`).

`ServerPairManager_proof`. Two threads close pairs, and what one of them knows must survive every
step of the other. The safety invariants of the run speak of tables, sockets and mutexes; to be
inductive they need the program counters. `IInv` is `TypeOK` with

* `OneCloser`: who has a pair's `_closeMutex` is inside `Pair::close` for that pair, and
  conversely (so the two threads never close the same pair at once);
* `Undone`: how far a close has come: the pair is not closed before the end, is in the table
  until it is unlinked and not afterwards, and has no socket at the end. After W's own unlink
  the place stays empty, since only W adds; after L's it may hold a successor already;
* `OpenPairs`: an open pair is in the table, or in W's hands before `addPair`, or being closed;
* `RegisteredPairIsLive`;
* `NewPair`: what createPair made is known to nobody else and its place is still empty;
* `Tunnels`: W works on connected tunnels, or closes the pairs of one that no longer is, and
  whatever that one's table still holds is in W's vector;
* `Judged`: the collector judges an existing pair.

There is a lemma for each action that keeps the invariant; the steps of the collector and of time
that leave the tables alone share `AsideIInv`. From `IInv`: `ServerTypes`, `ServerTablesAreLive`,
`ServerSocketsAreReachable`, `ServerUnlinksItself`, `ServerHasOneReceiver`,
`ServerErasedLeavesNothing`, and the refinement `ServerImplementsPairLife`: `CreatePair`,
`AddPair`, `Unlink`, `StopSocket` and `MarkClosed` are the five steps of a life, for which
`NewPair`, `Undone` and `RegisteredPairIsLive` give the abstract guards, and every other step
leaves all phases alone (`QuietStep`). None of them needs `_tunnelsMutex` or a context's lock; those are
there for two other facts. `ServerWalkIsSafe`: what the collector has yet to visit exists and
what it has yet to look at is in the table, although W adds and removes between any two of its
steps, so its iterators are never invalid. `ServerNobodyWaitsInACircle`: with `WaitsFor` the
relation between a thread at a mutex and its holder, no thread waits for itself and never both
for each other, because the collector closes after it has let go of both locks
(`LockersAreTheCollectors`), and under a pair's mutex only the context's lock is taken, which
nobody holds while waiting. This is the safety part of what run `ServerLiveness` checks. It is
about the two threads at work; the signal handler, which can hang, is `Lifecycle`'s.

`WsClientTunnel_proof`. `IInv` is `TypeOK`, `Layers` (`LayersAgree`, and what the channel's
state says about the client's: without it a channel that comes up could belong to a tunnel that
was destroyed), `Quiet` (nothing was told or counted before the tunnel is connected) and
`Counts` (the count of a channel that was not closed is at most 3 and covers only unanswered
pings). Every action ends in one of a few operators (`OnClose`, `CloseChannel`), whose lemmas
say what they may do. Theorems: `TunnelTypes`, `TunnelLayersAgree`, `HeartbeatIsRight` and the
refinement `TunnelImplementsLife`. `LifeTellsStory` is a theorem about `TunnelLife` alone, and
`TunnelTellsOneStory` what the refinement makes of it for the tunnel: its users hear of "ready" at
most once, of exactly one end, and of nothing afterwards.

`UdpTunnel_proof`. `CleanPairGetsOwnReplies` speaks of what arrived; the invariant follows the
id back: for a clean id everything under way in both directions and everything its socket
remembers is its holder's (`AllOwn`), and both tables are one to one, and a socket without a
pair remembers nothing (`Tables`), without which a new pair could start with another's past.
Theorems: `UdpTunnelTypes`, `CleanPairsAreOwn`, for any number of ids although the run has one.

`Lifecycle_proof`. `IInv` is `TypeOK` with how far run has come and what exists by then
(`Started`), how far shutdown has come and what is gone by then (`Stopped`), and that the
listener is what it was started as while nothing was stopped (`Listens`). Theorems:
`LifecycleTypes`, `EndedIsClean`, `RunningIsListening`.

Every invariant and every action property of the passing runs is a theorem, and so are the
three refinements. Only model-checked are the liveness properties, since fairness and ENABLED are beyond
the prover: `SilentPairsAreReleased`, `IdleClientKeepsOneTunnel`, `PairTunnelIsResolved`,
`SilentPairIsClosed`, `ClosedTunnelIsErased`, `CollectorEnds`, `SilentPeerIsCut`, `HandshakeEnds`,
`OrphanIsCollected` and `QuietInterruptEnds`.

## 6. Where code and comments disagree

* `tunnel/Tunnel.h:29-35` draws CONNECTING leading to ERROR or to CONNECTED. If the socket
  cannot be created, `WebSocketClient::open` returns an error that the tunnel's constructor
  ignores (`tunnel/LibhvWsTunnel/Client.cpp:62`), the state is set to CONNECTING, and no
  callback will ever come: the tunnel stays CONNECTING, and as it has room it stays in the list
  from which new sources get their tunnel (run `ClientStuckConnecting`). A redirect whose new
  socket fails ends the same way.
* `client/Client.h:49` says the collector cleans pairs that "have not been used for a long
  time". `client/Client.cpp:50` joins the two timeouts with `||`: a source that sends all the
  time and gets no answer loses its pair every `receiveTimeout` (run `ClientGcOneWay`, whose
  trace is: a source sends, the receive time runs out within the writeTimeout, the pair is taken).
* `server/Server.h:27` says the same. On the server the collector reads the clock first and the
  pair's send time afterwards, while W renews that time: a time one millisecond ahead
  makes the unsigned difference huge and the pair, just used, is closed (run
  `ServerGcUnderflow`).

Seen while reading, and without a run: `PairCounter.h` calls the counted value the number of
free places, the code counts used ones; `Pair.h:67` says the returned length leaves the header
out, it includes it; `Payload.h:41` says a capacity of begin + length, the code has one more;
`--max-tunnel` is parsed and stored and never read; `Tunnel.h` draws RECONNECTING, which is
never assigned; `utils/socket.hpp:67` promises a legal address, but the IPv6 pattern takes any
run of hexadecimal digits and colons.

What the code does where nothing says otherwise, so that the properties of `Lifecycle` and
`WsClientTunnel` name it as an exception:

* `Server::run` says that it is running although the address could not be bound
  (`listener/libhvWsListener/LibhvWsListener.cpp:106` ignores the result), and accepts port 0; a
  port above 65535 in a file is cut to 16 bits.
* `std::stoi` and `asInt` throw for numbers above an int, which nobody catches; main ignores
  that run returns -1. A server endpoint that is no address is only noticed at the first pair,
  where the process ends.
* A SIGINT that interrupts the loop's thread in a mutex that W or the shutdown needs hangs the
  process, as does a second one that reaches W while the first waits for W; one before the
  running flag is set is lost.
* No timer guards the upgrade and redirects are unlimited: a peer that says nothing, or
  redirects for ever, leaves the tunnel CONNECTING.
* A source that takes an id before the server has forgotten its last use gets that source's late
  replies.

## 7. What is not modelled

* libhv: TLS, its reconnect policy (`tunnel/LibhvWsTunnel/Client.cpp:54-59`), which it looks at
  after `onclose` and which `destroy()` clears, and what it does after a
  callback that destroyed the object it was called for. When the peer closes, the last reference
  to a client tunnel goes inside the `onclose` of its own `WebSocketClient`; the models take the
  tunnel to be gone with the action.
* Collisions of the 64-bit hash of an address: a source is its hash.
* The clock stepping backwards, which would make every pair due at once: time is the sets of
  pairs that are overdue.
* `Payload`, `PayloadWrapper` (a buffer with a capacity check, whose state does not outlive a
  call), `utils/http.hpp`, `utils/time.hpp`, `ListenerFactory`, `ContextManager`, the setters of
  `TunnelFactory` and of the server's tunnel, and how CLI11 parses the options: pure data, I/O
  or wiring.
* `CallBackManager` as a component: callbacks are registered before use and never removed, so
  the order in which `trigger` runs them is built into the actions.
* `src/header/tinyfsm.hpp` (vendored, unused) and `src/test.cpp` (a scratch program).

## 8. The plan

Order of work; what is done is marked.

1. (done) `PairCounter`, `ClientTunnelContext`, `ClientPairManager`, `PairAllocation`; runs
   `ClientPairs`, `ClientLiveness`, `ClientFullPairId` and two disagreements; the proofs of all
   safety properties and of the refinement.
2. (done) `TunnelIDPool` with its proofs.
3. (done) `ServerPairManager` with safety and liveness runs and one disagreement.
4. (done) `UdpTunnel`, client and server together; its safety proved.
5. (done) `WsClientTunnel` and `TunnelLife`; safety and refinement proved.
6. (done) `Lifecycle`; safety proved.
7. (done) `ServerPairManager_proof`: the invariant behind the server's safety, the refinement of
   `PairLife`, and the absence of a circle of waiting threads.
8. (done) The client's accounts for every capacity, with `LeakIsAtMostOne`.
9. `Payload` arithmetic as lemmas, if a property of it proves to matter.
