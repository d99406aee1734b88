# A verification project for bus

`bus` is the backend of a messaging service: a handful of single-threaded
server processes on several machines ("clusters"), tied together by packet
queues in shared memory and by one router process per cluster. This directory
holds TLA+ models of its core, the TLC configurations that check them on small
instances, and TLAPS proofs. `PROJECT.json` lists components, runs, mutants,
hazards and theorems, and maps every definition to the lines it models.

## Inventory

| Part | State | Operations | Talks to |
|---|---|---|---|
| `mmlib/shm_queue` | byte ring, `uiHead`, `uiTail`, two semaphores | `InQueue`, `OutQueue`, `MsgPeek`, `ReleaseMsg`, `GetAllQueueData`, `Init` | every process; one queue per server, one per bus |
| `mmlib/sem_lock` | SysV semaphores, `SEM_UNDO` | create, lock, unlock | shm_queue, user cache |
| `bus` connections | `m_PosConnMap`, `m_mapClusterInfo`, `m_ClusterPosCnt` | hello, `ConnectCluster`, `AcceptConn`, `ReleaseConn` | other buses by UDP and TCP |
| `bus` routing | `m_ClusterQueue`, server and group tables | `ForwardMsg`, `Send2Cluster`, `ProcessPkg`, heartbeat | servers' queues, other buses |
| `CConnInfo` (bus, conn) | receive and send buffers | `Recv`, `Send`, `AddRecvData`, `AddSendData`, `SendRemainData` | sockets, epoll |
| `conn` | `m_PosConnMap`, GNS registry in shared memory | accept, login, `LoginNotice`, `Disconnect`, `LoginSync`, `CheckValid`, `CheckConn` | clients, auth, user, other conn servers |
| `auth` | MySQL tables | login, register | conn |
| `user`, `loader_user`, `writer_user` | user cache in shared memory, MySQL | register, query, friends; load, write back | conn, each other by shm_queue |
| `mmlib/hash_list` | index nodes, node chains, free list in shared memory | `Insert`, `Get`, `Remove`, `ProcessAll`, `Clear`, `Verify` | GNS registry and user table (`hash_list_nolock.h`), log configuration (`hash_list.h`) |
| user table (`CUserShmApi`) | a hash list of users and record locks on a file | `Init`, `InsertUserInfo`, `GetUserInfo`, `AddFriendReq`, `CheckUserIsValid`, `RemoveUserInfoWhenInValid` | user, loader_user, writer_user |
| `mmlib/safe_tcp_client` | one socket per server, server states in shared memory | `Send`, `Recv`, `SendAndRecv`, retry, reconnect | TCP services |
| `mmlib/log`, `logsvr` | log queue, open log files, rotated files | log, take from the queue, write, check the size, rotate | all servers |
| `mmlib/mem_pool` | blocks, free ring, chains of blocks | `NewMap`, `InitWithHandle`, `InsertNode`, `GetNode`, `GetAllNode`, `ReleaseMap` | timer_pool |
| `mmlib/timer_pool` | a wheel of several levels, node pool | `AddTimer`, `DelTimer`, `GetTimer` | nobody: dead code, it names a namespace `jmlib` that is not declared and no file includes it |
| `mmlib/mmap_queue`, `shm_uniq_queue` | a second ring; a map in front of a ring | put, get | library only |

How they interact: a server puts a packet into the queue of its bus; the bus
takes it out, resolves a group address, and puts one copy into the queue of each
local receiver or on the TCP connection to the receiver's cluster, whose bus
puts it into the receiver's queue. Conn servers broadcast logins and logouts to
each other this way; nobody is told when a queue was full or a connection broke.

What is hard: the two halves of a ring run concurrently and die anywhere;
two connection tables have to agree through lost hellos, broken sockets, wrapped
position counters and restarts; a single-threaded bus may block on a write; the
registries of the conn servers are ordered by whole seconds and updated by
messages that cross, get lost and overtake each other; a restarted server rebuilds its registry from the others;
three processes change one linked structure in shared memory and may die
between any two stores to it; a request that finds its user missing is parked
with a loader and started again from the beginning; packets are cut at any byte;
several processes rotate the same files under a lock that moves with them.
`PROJECT.json` lists these hazards at their lines.

Properties that make each part correct: the ring is a first-in first-out
queue of whole packets; the connection tables agree and links recover; a
packet goes exactly once to each receiver it is meant for or is dropped at a
known place, in order; a user has one connection, and registries describe the
connections, as far as the messages about them arrive; the hash list loses and doubles no user and survives deaths;
a request to the user service is in one place until it ends and takes effect
once, copies of a user carry his own data and a registered user is not
forgotten; a stream is cut into the packets that were sent, an idle connection
is found, an answer belongs to its request, a rotation takes only the oldest file,
the maps in a pool do not mix, a timer is neither early nor late.

## Modules

* **PacketQueue**: what a queue promises, a bounded queue of whole packets
  with atomic `Put` and `Get`. The abstract specification of `ShmQueue`.
* **ShmQueue**: `mmlib/shm_queue`, byte by byte. `mem`, `uiHead` and `uiTail`
  are the segment; `semIn` and `semOut` are semaphores 0 and 1; `pc` says where
  a process is in its call. `InQueue`, `InLock`, `InReject`/`InAccept`, `InCopy`
  (one byte), `InAddTail`, `InUnlock` are the steps of a put; `OutLock` to
  `OutUnlock` those of a get; `MsgPeek`, `PeekRead`, `ReleaseMsg` the lock-free
  get; `AllLockIn` to `AllUnlock` are `GetAllQueueData`; `Crash` is a death with
  `SEM_UNDO`; `InLockErr` and `AllLockErr` a `semop` cut short by a signal. The
  operators `CopyDataInQueue`, `CopyDataOutQueue`, `PeekAddr` and `AllQueueData`
  are the address computations of the four functions, with their case
  distinctions. `enq` and `out` are histories. Memory is sequentially
  consistent and stores reach memory in program order, as on x86, for which the
  code is built.
* **ShmQueueProofs**: the theorems about `ShmQueue`.
* **BusLink**: connection management of the buses. `conns` is the part of
  `m_PosConnMap` that `ConnectCluster` fills, `info` the `ConnPos` of
  `m_mapClusterInfo`, `posCnt` is `m_ClusterPosCnt`. Actions are the hello
  handlers, the epoll error branch, a failing `Send2Cluster`, and the
  environment: lost hellos, broken connections, deaths and restarts.
* **BusLinkProofs**: the theorems about `BusLink`.
* **BusRoute**: routing. `job[c]` is the packet inside `ForwardMsg` with the
  copies still to send, so that the bus can block, be cut short or see a
  connection break between two copies. `wire` holds the packets of every
  connection ever opened, `lost` is a history of what was dropped. How
  connections come and go is abstracted from `BusLink`.
* **BusRouteProofs**: the theorems about `BusRoute`.
* **ConnGns**: client connections and the login registry of the conn servers.
  A handler is a function from the connections and the registry of a server to
  new ones and the messages it sends; `Become` applies it. `net` is the way over
  the buses, which loses and reorders: `Send2Server` drops what a full send queue
  refuses, and its callers go on; `Lose` is a copy that a bus drops; `Overtake` a
  copy on a new connection that arrives before those on the old one. `MaxFaults`
  bounds all three together. Losing a login request to auth or its answer needs
  no action, as an answer need never come. `lost` and `early` are histories of
  these messages, `stamps`, `tied` and `forgot` of events within one second and of
  dropped entries; they say when the promise of the registry is limited. The
  registry is taken to be large enough.
* **ConnGnsProofs**: the theorems about `ConnGns`.
* **UserMap**: what the user table promises, a map that changes one user at a
  time, with lookups that return the record of the moment. The abstract
  specification of `HashList`.
* **HashList**: `hash_list_nolock.h` under the locks of `user_shm_api.cpp`. One
  action is one store to the shared memory. `list`, `num` and `hashVal` are the
  index nodes, `next`, `key` and `data` the data nodes, `free` and `used` the
  head; `headLock` and `userLock` are the record locks on the lock file by
  their holder; `pc`, `call`, `ip`, `last`, `ret` and `seen` are a process
  inside a call. `StartFirst` to `VerifyFails` are `Init` with `Clear` and
  `Verify`; the node loop of `Clear` is one step, as no other process uses a table
  that is being set up. `InsertUserInfo` to `CheckUserIsValid` begin a call,
  `SearchNext` walks, `GetFreeNode` to `CountNode` are the stores of an insert,
  `Unlink` to `PushFree` those of a remove, `UpdateFirst` and `UpdateRest` an
  update in place. `Die` is a death anywhere: the kernel drops the locks, the
  stores remain. A child that has died after `Init` is forked again by
  `process_manager` and runs `Entity` only (`AddEntity`), without `Verify`. The user server, and a child that is
  started together with its parent, go through `Init` again (`StartAgain`). `chain` and `freeq` are histories, the lists as sequences.
  Stores reach memory in program order, as on x86.
* **HashListProofs**: the theorems about `HashList`, its refinement of `UserMap`
  in the last part.
* **UserService**: registration and friend requests from the client to the
  database. `net` is what is on the bus, a set, as nothing orders packets of
  different senders; `cache` are the user tables, each used as the map that
  `UserMap` specifies and `HashList` implements; `loadQ`, `loadedQ` and `writeQ` are the
  queues between a user server and its children, used as `PacketQueue` specifies;
  `passwd` and `db` are the two databases. `ConnRegistered` and
  `ConnAnswers` are the conn server, `AuthRegister` and `AuthLogin` the auth
  server, `UserRecv` and `UserLoaded` run `DealPkg`, `CheckValid` evicts, `LoaderTake` to
  `LoaderAnswer` and `WriterTake` to `WriterReplace` are the children. `Lose`, a query
  that fails and deaths are the faults. A user server dies in a
  handler before its stores to the table, before it asks for the write, or before its
  answer (a death between two packets would only delay the next; `UserDies`, `UserDiesLoaded`, both through `DieInDealPkg`, and
  `UserDiesChecking`); a loader between its
  query, the insert and the answer; a writer likewise. `UserInit` is the start of a
  user server; a death inside the table may have left one that `Verify` refuses,
  which the operator then has to remove, so that the server starts with an empty one.
  `answer`, `dropped`, `unsaved` and `effects` are histories.
* **UserServiceProofs**: the theorems about `UserService`.
* **ByteStream**: `CConnInfo` and the epoll loop that drives it, byte by byte: the
  non-blocking send of a conn server with `m_RemainSendData` and `EPOLLOUT`, and
  the receiving loop with `m_RemainRecvData`.
* **ConnTable**: `m_PosConnMap` of a conn server (the table of the bus is `BusLink`'s), the position counter that wraps,
  and the iterator of `CheckConn`, which lives across accepts and releases.
* **SafeTcp**: `CSafeTcpClient`. A call is a walk of `scPc` through the choice of a
  server, the retries, `Send` and `Recv`; servers go down, answer late or in
  pieces, and other clients change the shared states.
* **UnitProofs**: the theorems about `SafeTcp`, `ByteStream`, `LogFiles`, `MemPool` and
  `TimerPool`.
* **NumberLemmas**: induction over numbers, as the proofs about walks use it.
* **LogFiles**: writing and rotation of the files of one module, level and hour by
  the log server and by processes that find the queue full; one step is one
  system call on the directory. Files have inodes, and the lock is on an inode.
* **FixedsizeMemPool, MemPool**: the pool of blocks, as operators on a record, and
  the maps made of chained blocks. `mpMaps` is a history, what each map should hold.
* **TimerPool**: the timer wheel with any number of levels (`TBNum`), a clock finer
  than a tick, and a caller that comes late.
* **MCShmQueue, MCBusLink, MCBusRoute, MCConnGns, MCHashList, MCUserService**:
  instances for TLC. In `MCShmQueue` the initial state chooses whether the
  consumer copies (`OutQueue`) or peeks (`MsgPeek`).
* **MCUnits**: seven small machines that do not interact (`BusLink`, `ByteStream`,
  `ConnTable`, `LogFiles`, `SafeTcp`, `MemPool`, `TimerPool`) in one run; the initial
  state chooses one and the others stand still.

Operators named `...NoWrap`, `...Early`, `...OffByOne` and the like, each just before
the definition it varies, are plausible mistakes: with the definition
replaced by its variant, TLC finds the property violated that `PROJECT.json`
pairs it with.

## Runs

| Run | Instance | Shows |
|---|---|---|
| ShmQueue | 2 producers, 1 consumer that copies or peeks, 1 inspector, ring of 11 bytes, 4 packets of 1 or 2 bytes, consumer's buffer of 1 byte, 1 death | packets come out whole and in order (`FifoDelivery`), no pending byte is touched (`PendingIntact`), the offsets delimit the pending nodes (`NodesContiguous`), `GetAllQueueData` is exact (`SnapshotExact`), every accepted packet comes out (`EventuallyOut`), every call returns (`CallsReturn`), the ring implements `PacketQueue` (`RingIsPacketQueue`) |
| BusLinkSafety | 3 clusters, 2 positions, 3 faults | no orphaned socket, unique positions, the search loop ends, `ClusterInfo` names existing sockets but for the last position |
| BusLinkLastPos | 2 clusters, 2 positions | **violated**: the last position is never reset |
| BusRouteSafety | 2 clusters, 3 servers, 3 packets, queues and connections of one packet, 1 break | every copy accounted for exactly once, right destination, order per connection |
| BusRouteBlocked | 2 clusters, 4 packets | **violated**: two buses wait for each other's socket for ever |
| ConnGnsSafety | 2 servers, 1 user, 2 connections each, 2 logins, 3 seconds, 1 restart, 1 message lost or out of order | registry and connections agree whatever is lost (`RegistryMatchesConns`); a user has one connection, or a kick is under way, unless the very notice of the later login was lost (`SingleSession`, `KickUnderWay`); a login a server believes in is real unless this server missed a message about the user or got one out of order (`NoGhost`) |
| ConnGnsDisorder | 2 users, logins repeated on a connection, restarts during a login | **violated**: registry and connections disagree |
| HashListSafety | the user server and a child that loads and looks up and is forked again, 2 users on one of 2 indexes, 2 nodes, 2 deaths | the lists are proper at every store (`Linked`), memory that `Verify` accepts is exact (`VerifySound`), a death costs one node at most (`DeathCostsOneNode`), a sweep misses nobody (`SweepComplete`), the table implements `UserMap` (`TableIsMap`) |
| HashListInit | the same without deaths | **violated**: a process that starts while another one is inside a call is refused, as `Init` takes its lock before the lock file is open |
| UserService | 2 requests of any kind, 4 known users and 2 seconds, 2 user servers with tables of 2 users, 3 loaders, 2 writers, queues of one packet, 1 fault, a death inside a handler included | a request is in one place (`OnePlace`), takes effect once (`FriendOnce`) and ends (`RequestEnds`); every copy of a user is his own (`CopiesFaithful`); a registration that was confirmed is in the database, on its way to it, or known to be given up (`RegisteredKept`) |
| Units | see `Units.cfg` | a stream yields the packets sent and delivers them all (`StreamWhole`, `StreamDelivers`), an idle connection is released (`IdleReleased`), links recover (`LinksComeBack`), an answer is the answer to its request (`AnswersMatch`), a rotation takes the oldest file only (`OnlyOldestLost`), maps stay apart (`MapsApart`), timers are on time (`TimersPunctual`) |
| LogFilesRotation | the log server and one application, log queue of one line | **violated**: two processes rotate at once and a file is overwritten |

Bounds. On a ring of 11 bytes with nodes of 5 and 6 bytes both the length field
and the data of a node get split at the end; two short nodes leave one byte free
and a short and a long one do not fit, so the ring fills up; four packets go round
it, the last possibly with its length field just before the end. The consumer's buffer is too short for the longer packet, which `OutQueue` then
skips; a consumer that peeks gets the shorter ones only. The places of the split that
this ring does not reach are covered by the proofs, which are about every size
and every packet. Two positions for two peers make the counter wrap and the search meet used positions. Queues and connections of one packet
are full as soon as one packet waits, which is the case the code treats
specially; one break is enough to have an old and a new connection at once. Two
servers, two logins and three seconds give every order and every tie of two logins, their
logouts, a restart and the messages about them; one fault is enough to lose the notice of a
login, the leave, or the request of a restarted server, or to have any of them
overtake another. Larger instances differ in numbers only, and the
theorems below are about every number. Three users on three servers
would only combine such pairs: entries of different users do not interact
unless a client logs in as two users, which `ConnGnsDisorder` covers.
Two users on one index have a chain with a first and a last node to remove, and
fill the table of two nodes; the second index stays empty and shows what the locks
of different indexes allow. One process plays loader and writer, which has all
their interleavings with the user server. Two deaths are enough for two
errors of the counts to meet, which `VerifySound` is about.
In `UserService` the ids and seconds are chosen so that a user is registered on
one server and looked up on the other (86900), or on the same (400), and a
day passes between the two, so that users expire; the friendships have three users
meet at a table of two; two requests are enough for
two loads of one user, two registrations in one second, and an eviction between
a change and its write. In `Units`, packets are a header only, of middle and of maximal
length, and the socket holds fewer bytes than a packet; the position counter of
`ConnTable` wraps; any number of rotated files may be there at first, so that all names
are taken soon; the server
states have room for one of two servers; two of four blocks can be used at a
time; the wheel has four levels of two buckets, and an interval that is put on
level 3 or 4 depending on the pointers, so that timers pass every level and lose ticks
on their way, with a caller that is a tick late. Larger instances of the last
two passed as well: five blocks; four levels with 13 intervals, levels of different
sizes, a lag of three ticks, and five levels with ten intervals.
In `Units` only the log server writes log files, as when the queue never fills up, and a
rotation takes less time than lies between two size checks (`CheckDue`);
`LogFilesRotation` lets an application write too.
In `ConnGnsSafety`, `Orderly` restricts clients to one login per connection and
servers to restarts without a login under way; without it the property fails.
Deadlock is checked except where the bounded system may stop: all packets sent
and delivered, the clock and the logins used up.

Fairness. `ShmQueue`: a running process keeps running (weak fairness on its
steps), and `semop` wakes its waiters in turn (strong fairness on taking a
semaphore); consumers poll for ever, as the `Run` loops do. `BusLink`: the `Run`
loop sends hellos on its timer, reads datagrams, handles epoll events (weak
fairness), and a dead bus is started again; lost hellos and other faults are
bounded in number. `BusRoute`: `Run` loops, servers keep reading, hellos keep
coming. `UserService`: every server and loader polls its queues for ever, dead ones
are started again by `CProcessManager` or the operator; writers need no
fairness. `ByteStream`: an end that has an event handles it. For the sending end
this assumes that its peer pauses at times: the `continue` after `EPOLLIN`
skips the `EPOLLOUT` of the same event. `ConnTable`: `Run` keeps turning; it
looks at one connection per turn. Nothing is assumed about producers calling, or
about faults occurring.

## Proofs

### The ring

`ShmQueueProofs` proves, for every ring size, every set of packets, any number
of producers, consumers, inspectors and deaths:

* `RingTypes`, `FifoAlways`, `PendingAlwaysIntact`, `ContiguousAlways`,
  `SnapshotAlwaysExact`: the invariants of the run;
* `RingImplementsQueue`: every behaviour of the ring is one of `PacketQueue`.

Assumed: the ring has a byte, packets are sequences of bytes whose length with
the length field fits an `int` (`QueueAssumption`), a process has one role
(`ProcAssumption`), and the lock-free interface has a single consumer, as
`shm_queue.h` says (`PeekAssumption`).

The argument. `FifoDelivery` is not inductive: what a consumer reads depends on
every byte between `uiHead` and `uiTail`. The invariant `IInv` adds `ProcInv`
(whoever is inside a call holds its semaphore), `RingInv` (the pending nodes lie
one behind the other from `uiHead` to `uiTail`, and leave a byte free),
`PendingIntact`, `CopyInv` (a half-made copy stands behind `uiTail` and fits
the free space) and `ReadInv` (a half-done read is a prefix of the oldest
packet). Offsets are compared by their distance from `uiHead`, which turns the
wrap-around into plain arithmetic (`UsedAdd`, `UsedMove`); `InAddress` and
`OutAddress` show that the layouts of the copy functions all come down to
"offset plus index, wrapped", `LenRoundTrip` that a length field reads back what
was written. One lemma per action follows. The refinement maps the abstract
queue to the packets accepted and not yet given out: `InAddTail` is `Put`,
`OutAddHead` and `ReleaseMsg` are `Get`, every other step stutters.

`SnapshotExact` needs no further invariant: in every state with `RingInv` and
`PendingIntact` the loop of `GetAllQueueData` comes from the start of one pending
node to that of the next (`NodeReads`, `WalkGoesOn`), so that after n turns it has the first n
packets; there are fewer pending nodes than bytes (`FewPending`), which is why the
walk of the model, a turn for every byte at most, ends with all of them.

Induction. The provers cannot use an induction rule that has a predicate as its parameter.
`NumberLemmas` states induction for a set of numbers instead (`UpTo`), from the
well-foundedness of `<` (`LeastNat`). With it, what a loop or a recursive function
has computed after n turns is shown for each n: here, for the walks and sums of the
user table, and in `UnitProofs` for the concatenation of packets, the chains, keys and
released blocks of a pool, and the loops of the timer wheel. That a recursive function
has a value at all is a lemma of its own each time (`FreedExists`, `JoinExists`, `Recursion`).

### The user table

`HashListProofs` proves, for every number of indexes, nodes, users, records,
processes and deaths:

* `TableTypes` and `ListsAlwaysProper`: the invariants `TypeOK` and `Linked`;
* `VerifyAlwaysSound`, `SweepAlwaysComplete` and `DeathCostsAlways`: `VerifySound`,
  `SweepComplete` and `DeathCostsOneNode`;
* `TableImplementsMap`: every behaviour of the table is one of `UserMap`.

Assumed: there is an index and a node besides node 0, and user ids are positive
(`SizeAssumption`); the marks for no record, a torn record and no answer are
different from records and processes (`ValueAssumption`).

The argument. `Linked` is not inductive: what a store does to the lists depends
on where the pointers of its process stand. `IInv` adds `LockInv` (who is where
holds which lock), `BootInv` (one process sets the table up while the others
wait; a set-up cut short is never accepted), `WalkInv` (a search stands on a node
of the chain it has locked and has passed other users only; the node of an
insert or remove half way is on no list) and `LinkInv`, which is `Linked` by
positions. Lists are treated apart from the table: `ListPush`, `ListTail`,
`ListUnlink` and `ListFrame` say what one store does to any list, `LeftOver` and
`InjectivePush` which nodes are then on it. Each storing action has a lemma
(`TakeStep`, `FillStep`, `LinkStep`, `UnlinkStep`, `RelinkStep`, `PushStep`); all
others leave the lists alone, `AddEntity` included: a child that was forked again goes on where
`Init` brought its parent. That nobody disturbs the walk of another process
is `WalkFrame`: changes are made with the head lock and the lock of one chain.

What `Verify` finds by walking the lists and adding up is the number of nodes on
them (`LengthIs`, `SumIs`). As the lists are proper and disjoint even after deaths, numbers
that add up leave no node outside them: `VerifySound` follows from `IInv`. A sweep stops after as many
nodes as the index counts. `CountInv` says that this count is not below the length of the chain, but
for an insert between its link and its count, and a death there is what the history
`short` records; `SweepInv` says that a sweep has reported the users before the node it
stands on. `LossInv` is a balance for `DeathCostsOneNode`: the nodes on no list, and those counted but on
no chain, are at most one for each death and one for the process that is moving one. A
death inside `Clear` leaves all nodes but one off the free list (`HalfClear`); `Verify` lets nobody
use such a table, and `DeathCostsOneNode` speaks of the tables in use.

The refinement adds `RecInv` (a chained node has a record, an update writes the
node of its user). `LinkNode` is the abstract `Insert`, `Unlink` is `Remove`,
`UpdateFirst` and `UpdateRest` are `Tear` and `Write`, the end of a search is
`Get`; every other step stutters, a death included unless it takes an answer away.

### Connections between the buses

`BusLinkProofs` proves, for any number of clusters, positions and faults,
`TypeCorrect`, `NoOrphanAlways`, `PosUniqueAlways`, `InfoBackedAlways` and
`SearchEndsAlways`: the invariants of `BusLinkSafety`.

Assumed: positions start above 1 (`PosAssumption`; 100000 in the code), and there are
as many as there are other clusters (`RoomAssumption`; 99999 in the code).

The argument. The invariants together are inductive, with the remark that no bus
connects to itself. A new position is looked for among all in use, which gives
`PosUnique`; each socket is the one of its peer's `ClusterInfo` (`NoOrphan`), so a bus
that asks for a connection has fewer sockets than peers, and a pigeonhole argument
gives `SearchEnds`. `NoOrphan` holds because a connection is only opened for a peer that
has none, and `ReleaseConn` resets the `ClusterInfo` of the socket it closes; that it
does not do so for the last position is why `InfoBacked` stops below it (`BusLinkLastPos`).

### Routing

`BusRouteProofs` proves, for any clusters, servers and groups, every traffic, any
number of broken connections, and queues and connections of any size, `TypeCorrect`,
`RightDestinationAlways`, `FifoAlways` and `AccountedAlways`.

Assumed (`RouteAssumption`): every server has a cluster, a group names a server once,
and servers do not send heartbeats.

The argument. All places a packet passes are described as one (`Routed`): the list in
`ForwardMsg` names only servers the packet is meant for, each once (`JobOK`); a bus is done with
every copy that has left it (`Past`), that is, the copy is of an earlier packet than those in the
cluster queue and than the one in hand, or of that one and for a server no longer
on the list; the copies on a connection for one server are in order (`WireOK`), and of
later packets than those the server has from it (`BehindBox`). Four lemmas
say how the places may change: buses go on (`BusStep`), a copy is written (`WireAdd`), read or
lost with its connection (`WireLess`), handed to a server (`BoxAdd`); every action is one or two
of them. Heartbeats overtake the cluster queue, so the order is one of the other packets.

`AccountedAlways` rests on a second invariant, `CInv`, about where copies are: a copy is in
one place at most, the list of `ForwardMsg`, a connection, its server, or lost (`Apart`), and
there once (`JobOnce`, `WireOnce`, `BoxOnce`); a packet nobody has taken yet has no copy
(`WaitInv`), and one that was taken has one for each server it is for (`ServedInv`). A
step moves copies (`Moves`), makes a packet (`SendCounts`, `BeatCounts`) or takes one
(`TakeCounts`). A connection that breaks loses what is on it, which is what `lost` records.

### The login registry

`ConnGnsProofs` proves, for any number of servers, users, connections, restarts and
seconds, and any number of messages lost and out of order, `TypeCorrect`, `RegistryMatchesAlways`, `KickUnderWayAlways`,
`SingleSessionAlways` and `NoGhostAlways`.

Assumed: the marks of a connection without a user are no users (`GnsAssumption`), the mark
for no entry is no entry (`NoneAssumption`), and, as a hypothesis of the theorems, `Orderly`:
clients log in once on a connection and servers are not restarted while auth is
checking a login. Without it the first property is false (`ConnGnsDisorder`). Built into the
model are that the clocks of the servers agree, that the registry has room for every
user, and that no message arrives twice. Nothing is assumed about delivery: what the
properties promise with a message missing is in their statements.

The argument. A handler is a function from a server's state to a new one, so what it does
to a server is shown first (`DisconnectIs`, `LoginIs`), user by user for messages with many
logins (`PerUser`), and the queues after that (`BecomeNet`). `RegistryMatchesConns` needs that auth's answer is
for a connection without a user (`AskedInv`). `KickUnderWay` is not inductive, as the notice of an older
login is ignored: `LaterNoticed` says that of two connections of a user the notice of the
later one is under way to the other's server or is among those it never gets (`Sent`, `LaterTold`),
and `TimeInv` that nothing is of the future. A full send queue keeps this because what
it refuses is lost (`TakenIs`, `SendNet`), a dropped or overtaking copy because it removes at most one message
from the queue and records it (`QueueKeeps`, `LoseKeeps`, `OvertakeKeeps`).
With nothing under way only the lost notice remains, which is `SingleSession`.

`NoGhost` speaks of histories without a tie (a user who logs in or leaves twice within one second)
and without a server that has dropped entries, by a restart or because they were old. In these a second of a
user belongs to one server (`OneOwner`, `Stamped`), and what one server has yet to hear of it the
others have heard or will hear (`AllReached`). A login some server believes in is then there, or that server
has a later notice coming, or the leave is under way to it (`EntryReal`); so is a login of which
a notice is under way (`NoticeReal`). A leave changes nothing at a server without an
entry, so it has to be shown that there is one (`LoginHeard`, `LeaveHeard`). Each of these
excepts the servers that missed a message about this user or got one early (`Deaf`), and only those: a server
that got everything about a user in order is not misled by what others missed. A queue
that lost a message, or has one in front of others, has the messages about every other user as
before (`Embedded`, `Rearranged`), so nothing changes for him. With nothing
under way only a login that is there is left.

### Registration and friend requests

`UserServiceProofs` proves, for every set of users, requests, servers, loaders and writers,
every table and queue size and any number of faults, `SvcTypeCorrect`,
`OnePlaceAlways`, `FriendOnceAlways`, `CopiesFaithfulAlways` and `RegisteredKeptAlways`.

Assumed: `ServiceAssumption`, the types of the parameters.

The argument. `IInv` adds to the properties the private state of the processes (`TypeInv`), the
bounds of the tables (`RoomInv`), that a request is in exactly one of the bus, a queue, a
process's hand or among the ended ones (`PlaceInv`), what a packet on the bus says of a user (`PktInv`),
and what the children carry (`CopyInv`). `FriendOnce` rests on `PlaceInv`: a second
copy of a request would run its handler again. `CopiesFaithful` rests on the database,
which accepts one row for a number, and on packets of a registration being about
the user it created. `RegisteredKept` needs that a confirmation is only sent after the
write was asked for. What a handler does to the table is shown apart from what it sends
(`InsertNewTable`, `AddToListTable`, `TableInv`, `EffectPkts`), since a death may come between the two (`DieKeeps`).
An eviction and a start with an empty table only take users away (`Forgets`, `ForgetKeeps`). A loader
has its request in hand until it has answered (`InHand`), so a death
after the insert drops the request and leaves the user in the table.

### The TCP client

`UnitProofs` proves, for any number of servers and requests and answers of any length,
`TypeCorrect` and `AnswersMatchAlways`. Assumed: `SafeAssumption`, there is a server and an
answer has a byte.

The argument. A call that ends early leaves bytes of its answer behind, on the wire or still to
be written by the server. `Clean` says that no connection has any when a call begins: a
failed send or receive closes its socket (`ConnSet`). `Underway` says that while
a call waits, what it has read, what is on the wire and what the server still has to answer make up
one answer to its request.

### Byte streams

`UnitProofs` proves `StreamAlwaysWhole`, for packets, buffers and sockets of any size and any
split of the bytes by `read` and `write`. Assumed (`StreamAssumption`): a header has a byte, and
packets are not shorter than a header and not longer than the buffer.

The argument. `StreamWhole` alone does not say where a packet begins. `StreamInv` adds that packets are
handled whole and in order (`HandledInv`) and that the unread bytes, from the receiver's hand over its
buffer and the kernel to the sender's buffer, are the next ones of the stream, up to
the place where a broken connection cut it (`RestInv`). So the bytes in hand begin
with a header, whose length is that of the next packet (`HandBegins`), and what `AddRecvData` keeps is
shorter than that packet: the buffer is never full when `Recv` reads into it, and a
read of 0 bytes is the peer's end (`ZeroKeeps`).

### Log rotation

`UnitProofs` proves, for any number of processes, files, lines and deaths of the log server,
`OneWriterLosesOldestOnly` and `RoomyQueueLosesOldestOnly`: no rotation overwrites a file, and
only the oldest one is removed. Assumed: `LogAssumption`, the types of the parameters, with two file names at
least. The first theorem has the hypothesis that the log queue has always taken the lines of the other processes
(`QueueSuffices`), the second that it has room for all lines, from which `QueueSuffices`
follows. Without it two processes rotate at once and the property is false (`LogFilesRotation`).

The argument. A rotation renames from the oldest file down, one system call at a time, and a death may
cut it short, so that the next one finds a gap. `DirInv` says that the names are in the
order of the files' ages whatever gaps there are, and that the last name is free; `RotateInv` that the name
to which the next file moves is free: the step before has freed it, or the count has
stopped below it. What is unlinked is then the oldest file.

### Maps in a pool

`UnitProofs` proves `MapsApartAlways`, for pools and blocks of every size, any keys and every order of
operations. Assumed: `MemPoolAssumption`, there is a block and a block holds a key.

The argument. The pool is treated first, for its two users: `PoolOk` says that the free blocks
are those of the ring from its head to its tail, that one block is always kept back, and that bits and
count agree; allocating and releasing keep it (`PoolAllocates`, `PoolReleases`). `MapInv` says that there is
a path of blocks for every map (`Path`), that the keys of its blocks one behind the other are what
was inserted, and that the paths share no block and have all blocks in use (`MapsBy`). A new map, an
insert into the last block, an insert that takes a new block and a release each have a lemma. A
path has no more blocks than the pool (`PathShort`), so the walk of the model, which is
bounded by that number, ends (`ChainIsPath`).

### The timer wheel

`UnitProofs` proves `TimersAlwaysPunctual`, for three or more levels of any sizes, any tick, interval and
lag, and every order of adding, deleting and scanning. Assumed (`TimerAssumption`): an interval is positive and
is shorter than a round of the highest level, as each `unsigned int` of milliseconds is.

The argument. The pointers are the digits of a counter of ticks (`Elapsed`), and a turn adds one to it. `ToGo`
counts the ticks until a bucket is emptied. The tick in which that happens stays the same while the wheel
turns (`ToGoNext`) although the pointers of the levels are reset one after the other, so it can be
compared with the time of the timers in the bucket: their difference stays between two bounds of
the level (`Lo`, `Hi`, `Fits`). That AddTimer keeps them, wherever the
pointers stand, is `AddFits`; that Migrate does, which computes the bucket from the clock and not from the
pointers, is `MigrateFits`, with cases for a timer with less than a bucket left,
one in the middle and one past the last bucket (`MoveBounds`). `Lo` falls with each level
on the way down by the wait in a bucket of that level, which is the lateness described
below. `Stage` says what holds when a turn has come to level k: the
lower levels fit the new tick, the upper ones the old one. `InLoop` carries that through the ticks
of a scan, `TimerInv` from one call to the next. As the wheel is made of numbers multiplied with numbers, products are
named before the solver sees them.

### Only model-checked

* All liveness properties (`EventuallyOut`, `CallsReturn`, `RequestEnds`, `LinksComeBack`,
  `StreamDelivers`, `IdleReleased`, and `ForwardEnds` of the violated run): fairness is out of the prover's reach.
* The properties of the violated runs.

Every invariant, action property and refinement of the passing runs is a theorem.

## Seen while modelling

Behaviour of the code that a reader of the models will meet, besides the
findings of the violated runs:

* `AddFriendReq` never sets `IsValid`, so the first entry of the list is
  overwritten each time; a registration is answered with success even if the
  table had no room; the loader does not restore the birthday.
* The batch of logins that a conn server sends (conn.cpp:727) is not emptied after a
  send; with a full registry (conn.cpp:1669) a login goes on without an entry.
* `RecvInternal` of the TCP client loops if the peer closes while `errno` is still
  `EINTR` (no liveness is claimed for it); with `uiExpectLen` 0 it returns what the
  first read gives, so `AnswersMatch` is about callers that pass the length.
  `DelConnStatusInternal` copies the node one past the last.
* A pool of N blocks lends out N - 2, one less than its header comment says.
* With a caller up to `MaxLag` ticks late, a timer fires less than `MaxLag` + 2 ticks early. It may
  also be as much late, and one of a high level more: `Migrate` has a timer with less than a bucket left wait for
  the first bucket of the new level, so a timer put on level 4 (2.9 hours and more) may be a
  round of level 1 late (2.56 s), one on level 5 a round of level 2 as well (166 s).
* `OutQueue` of `mmap_queue` returns `E_MMAP_QUEUE_ERROR` with the semaphore held.
* If `fork` fails, `process_manager` goes on with one child fewer.

## Not modelled

* The creation of queue segment and semaphores (`Init` of `shm_queue`, `creat` of
  `sem_lock`): the models start with a ring that exists and semaphores of value 1.
  A process that attaches before the creator has reset the offsets, and a creator that
  dies between `semget` and `SETVAL`, are listed as hazards without a property.
* `Clean`, `GetNum` and `GetHeadTail` of `shm_queue`, `InsertWithRet` and `Process` of the hash
  list, `UpdateUserInfo` and `RemoveUserInfo`: no caller, or read-only statistics.
* `hash_list.h` and `hash_list_mmap.h`, the variants with built-in locks, used for the log
  configuration only; log levels, configuration, the log server's sockets, and local
  logs, which go to files of their own.
* `mmap_queue` and `shm_uniq_queue`: used by no server. The rebuild of the latter
  rests on `GetAllQueueData`, which `SnapshotExact` is about.
* `DelTimer` of a timer that has fired (the random number does not tell such a
  node from a pending one until it is reused), a clock that is set back, the
  reset of the wheel after a gap of months.
* In `BusLink`, the sockets a bus accepts (`AcceptConn`): they are read from and have no
  `ClusterInfo`. What arrives on them is `BusRoute`'s.
* A full login registry: `ConnGns` assumes room for every user.
* `InitWithHandle` of the pool with a number that is no map's handle; the code takes any
  number in range.
* The periodic state messages of the servers, which only report.

Left out for good: `amf` and `quicklz` (third party), `md5`, `base64`, `gzip`,
`ini_file`, `util`, socket and MySQL wrappers (conversions and system calls without
protocol state), protocol buffers, logging, and the test client.
