# Verification of agnocast

agnocast is zero-copy publish/subscribe for ROS 2: publishers allocate messages
in a shared memory pool of their own, subscribers read them in place, and a
kernel module keeps track of who may still read what. These TLA+ modules model
the parts of it where the order of events decides correctness. TLC checks them
on small instances; TLAPS proves the results about the kernel topic, the
processes with their pools and daemons, and the executors for all instances.

`PROJECT.json` lists the components, the runs, the source lines behind every
definition, the hazards, the disagreements found and the theorems. Paths below
are relative to the repository.

## 1. Inventory

| Component | State | Operations | Hard part |
|---|---|---|---|
| Kernel topic (`agnocast_kmod/agnocast_ioctl.c`, `agnocast_internal.c`) | `topic_struct`: publishers, subscribers, the rbtree of entries with one reference bit per subscriber; one `topic_wrapper` per domain | add and remove endpoint, publish, receive, take, release, process exit | entries outlive their publisher; publish signals after it has dropped the topic lock; five places maintain `entries_num` |
| Process registry and exit worker (`agnocast_ioctl.c`, `agnocast_internal.c`, `agnocast_init.c`) | `proc_info_htable`, `discovery_agent_htable`, exit ring buffer, worker thread | ADD_PROCESS, exit tracepoint, cleanup, GET_EXIT_PROCESS, exit gates of the daemons | exits race with registrations; an exit is known to the kernel only some time after it happened |
| Module load and removal (`agnocast_main.c`, `agnocast_init.c`, `agnocast_exit.c`) | device, worker thread, tracepoint probe, pool table | insmod with failures, rmmod | the device can be opened before the module is ready; exits while it is removed |
| Memory pool allocator (`agnocast_memory_allocator.c`) | pools with the pids that map them | assign, reference, free | an address range must mean the same memory everywhere |
| Domain bridge rules (`agnocast_ioctl.c`, `register_domain_bridge.py`) | rule tables, cells that share a `topic_struct` | add exact or prefix rule, create topics under it | a rule after the topics it would group, nesting prefixes, rules declared twice |
| Queries and bridge registry (`agnocast_ioctl.c`, `node_graph.cpp`) | processes, endpoints, `bridge_htable` | node names, topics of a node, counts, ADD/REMOVE_BRIDGE | buffers at their limit, reused pids, owners that died |
| Library start-up, daemons (`src/agnocastlib/src/agnocast.cpp`) | address spaces, shm files, forked daemons | initialize, fork, map, poll for unlink | two applications fork at once; a daemon dies between two calls |
| Mapping of pools (`agnocast.cpp`, receive ioctl) | which pools a reader maps, `mmap_mtx` | receive, map, exit | the kernel names a pool once; two subscriptions race; a publisher exits before `shm_open` |
| Smart pointer, take subscription, loans (`agnocast_smart_pointer.hpp`, `agnocast_subscription.hpp`, `agnocast_publisher.*`) | control blocks with a count, cached last pointer, loans per thread | take, copy, destroy, borrow, publish, cancel | ioctl and pointer construction are separate steps; one kernel bit for all copies; thread-local counts |
| Heap hook (`agnocast_heaphook`) | blocks of the pool, borrow state, fork state | malloc, free, realloc, aligned allocation | free on the other side of a fork or borrow, alignment at reallocation |
| Callback subscription, executors (`agnocast_callback_info.cpp`, `agnocast_executor.cpp`, ...) | callback table, eventfds, epoll sets, ready queues, callback groups | register, prepare, wait, handle, run, unregister | registration and destruction from other threads, group exclusion |
| Callback isolated executor, isolating container | child executors and threads per group | scan, spawn, stop, cancel, join | cancel against spawn, late groups, unload against the monitor |
| Timers (`agnocast_timer_info.cpp`, `node_time_source.cpp`) | timer table, timerfds, clock | create, cancel, reset, expire, jump | expiry against clock change and activation of simulated time |
| Bridge manager (`src/agnocastlib/src/bridge`) | requests, active bridges, leases, three threads | request, create, sweep, remove, shut down | two namespaces with gossip that is late; shutdown against everything |
| Services and clients | pending calls, response topics | call, respond, leave | names and ids handed out again |
| Service bridges (`src/agnocastlib/src/bridge`) | bounded deque of requests, pending calls of both sides, loaded plugins | receive, send, put back, respond, drop | a send that fails or is overtaken by a response; a deque at its limit |
| Message filters | per-topic queues, pivot, candidate | add message, emit | a search that is undone in the middle |
| Parameters | values, descriptors, overrides, callbacks | declare, set, undeclare | lists set one by one, with vetoes |
| Context and signal handler | handler state, eventfds of executors | install, deliver, uninstall, shut down | handler on any thread, descriptors closed and reused |
| Discovery agent (`agent.py`, type registry) | files per process, snapshots, gossip | register, tick, sweep, decide | kernel and files are read at different times |
| Thread configurator | table of expected threads, file in force, scanned kernel threads and IRQs | announce, reapply, scan, apply | reapply against announcements; changes between scan and call |

Interaction: the library talks to the kernel module by ioctl; every ioctl runs
under `global_htables_rwsem`, for write if it changes the tables of processes
and endpoints. The kernel wakes a subscriber through an eventfd in its
executor's epoll set. Exits reach the kernel by a tracepoint and a ring buffer;
a kernel thread cleans up, and the unlink daemon is handed the pid through
GET_EXIT_PROCESS and removes the file. Daemons are forked by applications and
decide by registering whether they are the one. Endpoints send the bridge
manager a datagram; discovery agents compare namespaces by gossip over ROS 2 and
lease bridges from their managers.

## 2. Modules

| Module | Models | State and actions |
|---|---|---|
| `Topic` | one `topic_struct` with its wrappers, endpoints and entries, and the library objects around it | below |
| `MessageLifetime` | what `Topic` promises its users: a message is reclaimed only while nobody has a claim to it | abstract specification |
| `Processes` | registry, pools, exit queue and worker, library start-up, unlink daemon, registration and exit of bridge manager and agent | below |
| `ModuleLoad` | insmod and rmmod while processes open the device, register and exit | every acquisition of `agnocast_init` and every release of `agnocast_exit` is a step |
| `ShmMapping` | one reader process, its subscriptions and the pools the kernel names to it | the ioctl, each mmap and the callback are steps under `mmap_mtx`; publishers exit and are unlinked at any time |
| `TakeSubscription` | the user-space half of a polling subscription | below |
| `LoanedMessage` | the publisher's half of a message: borrow, copy across threads, publish, drop | control blocks with count and valid flag, loans per thread, type-erased publishers |
| `Heaphook` | the preloaded `malloc` family and a block's layout in the pool | every call with its route; TLSF is external and may place a block anywhere or refuse |
| `Executor` | the epoll sets, ready vectors and callback groups of one process, for all three kinds of executor | prepare, wait, handle, pick, run and unregister are split where the code unlocks |
| `CallbackIsolated` | both callback isolated executors | spin loop, spawn, children, cancel, stop by the bridge manager |
| `Container` | the component container that isolates groups | load, unload, monitor, destructor |
| `Bridge` | the managers and agents of two IPC namespaces around one topic or service | requests, worker batch and sweep, leases, gossip, counts; rounds of one second |
| `ManagerLoop` | the three threads and the event loop of a bridge manager | epoll, enqueue, batch, `request_shutdown` step by step |
| `DomainRules` | rules, cells and topics that share a struct, and the tool that registers a file of rules | the ioctls, one step each |
| `Graph` | node and topic queries and the kernel's bridge registry | processes, endpoints and bridges change; queries are operators asked in every state |
| `TypeRegistry` | the type files and the agent's tick | every file and kernel read of a tick is a step |
| `Services` | clients and servers over topics | create, borrow, send, receive, respond, leave |
| `ServiceForwarding` | the two ends of a service bridge in the bridge manager, and the choice of a plugin | the deque, the sender, the ROS 2 client's table and the responses; the mutex of the table is a step |
| `Timers` | timers with wall and simulated clock | registration, expiry, jump handler, executor steps |
| `Parameters` | declared parameters with descriptors, overrides and callbacks | every call of `NodeParameters` that changes the store |
| `Signals` | signal handler, its thread, eventfds of executors | install, handler on any thread, drain, uninstall |
| `ApproximateTime`, `ExactTime` | the two policies of the message filters | each loop iteration of `add` is a step, resp. one step per message |
| `ThreadConfigurator` | entries whose threads announce themselves | announce over topic or socket, reapply, apply |
| `SystemConfig` | kernel threads and IRQs | prerun template, edit, scan, compare, apply |
| `TopicProofs`, `ProcessesProofs`, `ExecutorProofs` | proofs about `Topic`, `Processes` and `Executor` | section 5 |
| `MemoryProofs`, `BridgeProofs`, `ThreadsProofs`, `ToolsProofs`, `NodeProofs` | proofs about the parts that `MCMemory`, `MCBridge`, `MCThreads`, `MCTools` and `MCNode` put together | section 5 |
| `MC*` | instances for TLC | section 3 |

### Topic

`proc`, `wrappers`, `pubs`, `subs`, `entries`, `nextId`, `nextEntry` are the
kernel's tables; `signalling` is the set of publishes that have inserted their
entry, dropped the topic lock and not yet signalled (`agnocast_ioctl_publish_msg`
holds the global lock for read until then, so structural steps wait:
`GlobalWrite`); `eventfd` is the set of non-zero counters. `running`, `pubObj`,
`subObj`, `unprepared`, `ready`, `held` and `fatal` are user space: live
objects, subscriptions not yet in an epoll set, queued receives, message
handles, and processes the library ended because an ioctl failed.

An action is a whole handler: `Publish` inserts, walks the publisher's oldest
entries and releases them; `RemoveSubscriber`, `RemovePublisher` and
`agnocast_process_exit_cleanup` clear references, free abandoned publishers,
rebuild the notify lists and release wrappers. `Receive` is
`receive_and_execute_message`: the ioctl, the handles it creates and the further
receive it queues when the kernel says `ret_call_again`. `held` is a set, so two
control blocks for one entry coalesce there; `TakeSubscription` has them apart.

`delivered` and `skipped` are history, read by properties only: for each
subscriber the entries it was handed, and those it passed over (it was handed a newer
one, or they were published before it joined and it is not to get them). An entry
leaves both when it leaves the tree; ids are not used again.

Two constants describe the program rather than the library:
`HandlesOutlive` (a handle may be destroyed after its subscription) and
`DestroyWhileQueued` (a subscription may be destroyed while an executor has a
receive queued for it). With both FALSE the program is disciplined.

Left out of `Topic`: addresses and sizes, names, GIDs, and what has a module of
its own (mapping in `ShmMapping`, loans in `LoanedMessage`, the unlocked steps of
`handle()` in `Executor`, adding rules in `DomainRules`).

### Processes

Every process has a program counter `pc`. An application goes
`add -> unlink -> bridge -> agent -> map -> run`, forking the daemons that
ADD_PROCESS said are missing; the unlink daemon `ud_*`, the bridge manager
`bm_*` and the agent `ag_*` follow their own loops. `maps` are address spaces
as pairs of pool and the process whose memory is there, inherited by fork;
`mapped` is the kernel's record. `ReferenceMemory` is the ioctl that names
publishers to map, `MapReadOnly` the mmap that follows. The worker thread
waits, dequeues and cleans in separate steps. Pids are handed out once here and
reused in `Graph`.

### TakeSubscription

Threads of one process call `take()` and destroy copies. `TakeIoctl`,
`ConstructCached`/`Construct`, `DropOld`, `DestroyCopy` and
`release_subscriber_reference` are the steps between which other threads run.
The topic is reduced to one publisher whose entries are all deliverable.
`Programs` says which threads call `take()` and with which arguments; one of
them is chosen in the initial state.

### Composition

Components that share state are one module (`Topic`, `Processes`, `Bridge`), or
cite each other's result: `Topic`'s constants `Crosses` and `Domains` are what
`DomainRules` establishes (`ReachIsFixed`: a topic's group does not change
while it exists); what `ManagerLoop` hands over in order is what `Bridge`
dispatches; `CallbackIsolated` spawns the "dedicated" executor of `Executor`.
The MC modules of a run that covers several independent components choose one in
the initial state (`part`) and leave the others at rest, so the state spaces add
up instead of multiplying.

## 3. Runs

| Run | Components | What it shows |
|---|---|---|
| `topic` | `Topic` | two processes, polling subscriptions of depth 1, callback subscriptions of depth 2 that ignore local publications, publishers of depth 1, batches of one, crashes at any step: tables consistent, held messages alive, no ioctl fails, wake-ups and history kept, delivery once, in order and without loss; `Topic` implements `MessageLifetime` |
| `live` | `Topic` | two domains under a one-way rule, bridge endpoints: isolation, and what is due does not stay due |
| `processes` | `Processes`, `ModuleLoad` | three applications with too few pools and daemons killed: one address, one memory, no exit lost; two applications that fork bridge managers and agents: never without them, never two at work; module load and removal: an exit has a worker, nothing stays acquired |
| `reclaim` | `Processes` | exits and registrations around the unlink daemon: no file without a daemon that will hear of it; files and pools are reclaimed |
| `memory` | `TakeSubscription`, `ShmMapping`, `Heaphook`, `LoanedMessage` | taken pointers keep their message; what is read is mapped; blocks in the pool are intact; a borrowed message has one owner |
| `bridge` | `Bridge`, `ManagerLoop` | endpoints of two namespaces are connected once things are quiet, no bridge stays without a reason, counts settle; a shutdown reaches all threads, messages are dispatched once and in order |
| `executor` | `Executor` | groups exclude each other and no source that has something to do is forgotten |
| `threads` | `CallbackIsolated`, `Container` | one executor per group, all joined, stop returns, late groups are served |
| `node` | `Parameters`, `Timers`, `Signals`, `Services`, `ServiceForwarding`, `ApproximateTime`, `ExactTime` | section 4 |
| `tools` | `DomainRules`, `TypeRegistry`, `Graph`, `ThreadConfigurator`, `SystemConfig` | section 4 |
| `queued`, `take_race` | `Topic`, `TakeSubscription` | refute a comment of the code, section 6 |

### Bounds

* `Topic`: `MaxReceiveNum = MaxReleaseNum = 1` makes every batch that has more
  than one element a cut-off one; two entries already give a second round.
  Publisher depth 1 with up to three entries lets entries be kept by references
  beyond the depth, be released in the next publish, and be overtaken;
  `MaxEntryId` bounds the ids of one life of the struct. Two processes and three
  topic-local ids give two publishers with a common subscriber, two subscribers
  of a publisher, and a process with both roles. Two publishers fill a window of
  depth 2, which batches of one cut off; the polling subscriptions have depth 1, so
  that an entry is passed over for a newer one. `MaxTopicLocalId` is reached, so
  the error paths of registration are taken. `live` takes two ids, one for each
  end, and transient-local subscriptions, so that a first receive and a cut-off
  batch both happen.
* `Processes`: the part "pools" has one pool fewer than processes, so a pool has
  to be reused, and `QueueSize` is one more than the pools (the real ring has
  65536 slots for 4096 pools; this part forks no agents, which would need a slot
  per domain). `reclaim` has a pool for every process: when pools
  run out the unlink daemon cannot register and files wait for a later one. The
  part "daemons" has two applications and the two bridge managers and two agents
  they can fork, so no fork is cut off by a bound: two of a kind meet, and the
  second application replaces one that left; it sets `Subscribing = FALSE`
  because a bridge manager may end in `MapReadOnly` (section 6) and leave its
  domain uncovered until the next application starts. Two processes (`Procs`) and
  two insmods (`MaxLoads`) let a second load meet what a first one left.
* `memory`: two threads, up to five messages and blocks, three copies each. A pool
  of nine units with sizes 1 and 3 and alignments 1 and 4 makes every alignment
  padding happen and the pool run out. Publisher depth is not below subscription
  depth (section 6).
* `bridge`: two namespaces, one change of the environment after any initial
  population, leases and gossip of two rounds. `Settle = 5` rounds is tight: with
  four the properties do not hold yet. A retry of a sender equals a later send,
  so `MaxRetries = 0` loses nothing. Three senders, one of them malformed, and a
  socket for one datagram fill the queue.
* `executor`: two threads of one executor, a subscription in an exclusive group
  and a timer in a group added by hand, two sends. The subscription has a single
  life, so no descriptor is reused in the run; section 5 says what is proved, and
  section 6 what happens, when one is.
* `threads`: two groups, one of them added automatically; two nodes with three
  groups, six executors, so that a node can be loaded again.
* `node`: three input topics with queues of two give the approximate policy a
  second candidate and an overflow in the middle of a search; two installs of the
  signal handler and two deliveries let a late handler meet the next
  installation; three clients let an id be handed out again. Four calls
  (`MaxCalls`) against a deque of two (`kMaxPendingRequests`) overflow it while one
  is being sent and one waits for its response; calls in the other direction do
  not meet each other, one (`MaxR2aCalls`) is enough.
* `tools`: two processes of two lives each reuse a pid; a prefix, a longer prefix
  and exact names in three domains give every order of nesting; buffers for two
  nodes and one topic are exceeded; two reapplies with one failing call. Of the
  processes of the type registry one is in the agent's domain and has a message, a
  request and a response topic; the other is in another domain and writes the same
  line. A file that a tick removes wrongly is missed in the second tick.

Deadlock is not checked: programs stop when their processes have exited and the
bounds are used up. `Symmetry` permutes processes of `topic` and `queued`,
namespaces of `bridge` and threads of `executor`, which all check safety only and
in which the permuted values play the same role.

### Fairness

* `Topic!FairSpec`: a publish that has inserted its entry goes on to signal
  (straight-line kernel code), and the executor of a running process keeps
  spinning: it prepares new subscriptions, reads signalled eventfds and runs
  queued receives. Weak fairness is enough: each of these stays enabled until
  taken or until the subscription or process goes away. Publishing, joining,
  leaving and crashing have no fairness.
* `MCProcesses!ReclaimSpec`: the kernel thread runs (woken by `has_new_pid`), and
  the unlink daemon polls (`poll_for_unlink` is a loop with a sleep).
  Applications have no fairness.
* `MCThreads!ThreadsSpec`: the spin loop, a `cancel()` in progress, child threads,
  the monitor timer and a service callback in progress go on; nobody has to
  call cancel, load or unload.
* `Bridge` has no fairness: time passes in rounds in which every agent ticks and
  every manager sweeps (both are timers of one second), and its properties say
  what holds after `Settle` quiet rounds.

## 4. Properties

A property of an MC module joins the parts that one question has in each
component; the parts are defined and explained in the component's module.

* `Topic`: `KernelConsistent` (tables agree), `HeldIsReferenced`, `NoFatalExit`,
  `NoLostWakeup`, `KeepsHistory`, `DeliveredOnceWithoutLoss`,
  `OnlyFromAllowedPublishers`, `EventuallyReceived`, `ImplementsLifetime`.
* `Processes`, `ModuleLoad`: `OneAddressOneMemory`, `QueueNeverOverflows`,
  `NoneUnattended` (daemons for every running application and no second one at
  work; a worker for every exit while the module loads or leaves),
  `UnlinkingCovered`, `Reclaimed`.
* Memory: `TakenStaysValid`, `ReadsMapped`, `HeapIntact`, `LoansSafe`.
* Bridge: `BridgesConnect`, `NoLeftOvers`, `CountsSettle`,
  `ShutdownReachesAll`, `EnqueuedInOrder`.
* Threads: `GroupsExclusive`, `NoLostCallback`, `NothingLeftBehind`,
  `OneExecutorPerGroup`, `StopReturns`, `LateGroupsServed`.
* Node: `ParametersLegal` (a stored value fits its descriptor and passed every
  veto), `TimersFire`, `ShutdownDelivered`, `CallsAnswered` (in `Services`, and a
  service bridge passes calls on in order and loses none unnoticed), `SetsOptimal` (the
  policy's own assertions, and every set compared with the best one of all
  arrived messages that contain its pivot).
* Tools: `RulesHold`, `ReachIsFixed`, `SettledIsReported`, `GraphExact`,
  `AnnouncementsKept`, `PassHonest`.

Each has a mutant of a definition that it catches (operators whose comment starts
with "Mutant:"). Several modules hold further mutants, one for each part a
property joins.

Where the code has a race that makes the plain statement false, the property
excludes exactly that case by a ghost variable: `raced` in `Timers` and
`Container`, `cancelLost` in `ManagerLoop`, `late` in `ShmMapping`, `lost` in
`Services`, `unlucky` in `TypeRegistry`. Section 6 describes what happens then.

## 5. Proofs

The theorems hold for every value of the constants that satisfies the assumptions
named with each. 15 of them are about `Topic`, 10 about `Processes` and `ModuleLoad`, 2 about
`Executor`; 16 about parts that a run exercises side by side (`MCMemory`,
`MCBridge`, `MCThreads`, `MCTools`, `MCNode`). Such parts share no variable, so each
has an invariant of its own and the others' steps leave it alone.

### Topic

`ConstantsAssumption` asks for finitely many processes, batches of at least one and
natural bounds; the number of processes, domains, rules, endpoints, depths and
entries is arbitrary. Every property of the runs `topic` and `live` except
`EventuallyReceived` is proved, all in `TopicProofs`.

* The kernel's tables, with no assumption on the program. The accounting of entries
  is not inductive by itself: releasing a wrapper is only harmless if every
  endpoint's domain has one, a removal by object is only right if the object's id
  is still its own, and the cleanup of a process must not meet objects that
  still run. `KernelInv` therefore joins `TypeOK`, `EntriesAccounted`,
  `RefsBelowWatermark`, `EndpointsReachable` and `OwnersRun`. There is one
  lemma for each action that changes the tables; `ReleaseWrapperKeeps` and
  `LeaveTopicKeeps` are shared by the three ways to leave a topic. From it:
  `TypeCorrect`, `Accounting`, `Watermark` and `Reachability`.
* Delivery. `DeliveredOnceWithoutLoss` is stated over what each subscriber was handed
  and passed over in the past, not over the watermark that the code compares with.
  The two meet in `WatermarkExact`, part of `KernelConsistent`: an entry is at or
  below a subscriber's watermark exactly if it was handed out or passed over
  (`WatermarkHistory`). A watermark that stays behind would hand an entry out again; one
  that is moved past a cut-off batch would leave entries behind it that were neither
  handed out nor passed over (`latest_received_past_cut`). `DeliveryWithoutLoss` then
  looks at each receive and take: what is passed over has `qos_depth` newer pending
  entries, and a receive that does not ask to be called again leaves nothing pending.
* History. The release walk erases only entries of low rank. At most `k`
  members of a set have fewer than `k` smaller ones (`FewOfLowRank`), so above an
  erased entry at least `qos_depth` others stay (`ManyAbove`); the other steps
  erase entries of dead or leaving publishers only: `History`.
* Programs that use the library as documented. `Discipline == ~HandlesOutlive /\
  ~DestroyWhileQueued` and the conjuncts `HeldIsReferenced` and `UsesBacked` (a
  handle's subscription still exists, so nobody else clears its bit) give
  `MemorySafety`; with `KeepsOneMessage` (positive publisher depths) `NeverFatal`;
  and `Refinement`, that `Topic` implements `MessageLifetime`. The run `queued`
  and the first two observations of section 6 show that none of these assumptions
  can be dropped.
* Who is told, and who may read. A notify list is a cache of the subscriber table.
  Every way to change that table rebuilds the lists of all publishers, and no other
  step changes what a rebuild would give: `NotifyExact`, and with `KernelInv`
  `Consistency`. `Isolation` shows that a new reference is only set on an entry
  that `is_entry_deliverable`, and that afterwards neither the reference's
  subscriber nor the entry's publisher changes under it.
* Wake-ups. `NoLostWakeup` speaks of the window of a receive, which a publish
  can move. `WakeInv` states the same without it (`Waits`: some deliverable entry
  is beyond the watermark) and adds `PublishersKnown`, without which a new
  subscriber's deliverable entries could come from a process the kernel has
  forgotten; `WaitsIsWants` relates the two. Each action then either makes
  nobody wait, or wakes everyone it makes wait, by `NotifyExact`: `WakeUps`, for
  `KeepsOneMessage`.

### Processes

`ProcessesAssumption` bounds nothing but the types of the constants;
`QueueAssumption` says that the ring buffer has a slot for every pool and for an
agent in every domain, which `agnocast_internal.h:308` relies on for the default
`mempool_num` (the module parameter itself is not limited). The number of
applications, daemons, pools and domains is arbitrary, and so is who is killed
when.

An action of `Processes` often ends in the exit of its process. `NextIsEffect`
takes the exits out: every step of a process is an exit (`Ending`) or changes the
tables without one, so each invariant has one lemma about exits and none of its
other lemmas meets the ring buffer. The invariant has five parts, each proved from the
ones before it.

* `Lifecycle`: types; pids are born in order; who is in the registry follows from
  the program counter, who has mapped memory too; queued pids are dead. From it
  `TypeCorrect`.
* `PoolsInv`: the statement itself is not inductive, because a process that was
  told to map a pool has not done so yet. `HoldersListed` says that whoever has or
  is about to have memory at an address is on the pool's list, `HoldersAgree` that
  all of them mean the memory of one process, `PoolsOwned` and `OwnersHeld` that
  this is the pool's owner as long as that lives; `assign_memory` takes only pools
  with an empty list (`AssignMemoryFree`), and a fork happens before anything is
  mapped (`SpawnMaps`). From it `OneAddress`.
* `Roles`: the registry's flags follow the program counter, and two daemons that
  work are the same. From it `SingleDaemons`.
* `QueueInv`: the filled slots are the ones between tail and head, hold different
  pids, and these are in the registry with a pool each, or are agents with a domain
  each. More entries than slots would be an injection into a smaller set
  (`QueueHasRoom`). From it `ExitsFit`.
* `FilesInv`, for `~DaemonsKilled`: an unlink daemon that is said to exist is at
  work, and a dead owner of a file is in the registry or in the daemon's hands.
  From it `FilesAreOwed`, and `DaemonIsThere`: an application that is told not to
  fork an unlink daemon has one beside it.

Three theorems say that nobody is left without a daemon. They are proved along one
pattern: a process is `Served` once the kernel has answered its registration with
"there is one" or it has forked one, and for whoever is served there is a daemon of
that kind that has not decided to leave, or one that is about to register.
`ServedStep` and `WorkStep` say, for all kinds of daemons, how a step can make
somebody served and how a daemon can go; each theorem then has to show that the
gate by which a daemon leaves is closed while somebody is served.

* `AgentsCover` (`AgentCovers`) adds `AgentsAlive`, that the kernel's table of agents
  lists living ones.
* `FilesCovered` (`UnlinkingCovered` of the run `reclaim`, with `FilesInv`) and
  `ManagersCover` (`BridgeManagerCovers`) also need that a daemon gets a pool: a
  process that gets none exits at once. `PoolsCounted` counts: no more pools are
  taken than processes were born, so `MaxPid <= MempoolNum` is enough.

These theorems assume `~DaemonsKilled`: section 6 has the killed daemon that leaves a
file. `FilesCovered` assumes that there are no bridge managers, because one that
registers when no unlink daemon is left does not fork one (section 6). `ManagersCover`
assumes `~Subscribing`: a manager that subscribes may end when it fails to map
(`NothingToMap`, `ManagersWork`). So `reclaim`, which has subscriptions, checks the
first of the two, and `processes` both kinds of gate with all daemons.

`Attended` puts `TypeCorrect`, `SingleDaemons`, `AgentsCover` and `ManagersCover`
together with `ModuleLoad` to the invariant `NoneUnattended` of the run `processes`; it
leaves out the states of the run's second instance of `Processes`, whose constants differ
(`part = "pools"`) and for which the first two hold as they are. In `LoadInv`,
`HeldInOrder` says what is held at each step of a load, a failed load and a removal
(`ExitPlans`, `UndoPlans`), and that nobody has the device open once the module is
going; `WorkerStays` that the worker is only told to stop when no probe runs;
`TablesEmptied` that what a failed load leaves in the tables registered early;
`ExitsQueued` that a registered process that died is in the queue or in the worker's
hands.

### Executors

`ExecutorAssumption` asks for finitely many sources and for descriptors that are
told apart from timers and from "closed". Threads, groups, executors and their
kinds are arbitrary.

* `GroupsExclude`: `OneRunner` states the exclusion without counting; only `Pick`
  and `Release` change who runs, and `Pick` takes a group only if it is takeable,
  in the same step (one mutex in the code).
* `CallbacksKept`: no message and no expiry is stranded. `NoLostCallback` is about
  registered sources of an executor's groups; what makes it inductive is `Pending`
  (also for sources on their way into the table, which a transient local
  subscription enters with messages and no event), `Polled` (in the epoll set, or
  `need_epoll_update` is set), `Told` (then the update flag is set, or a thread is
  on its way into `prepare_epoll`), `Eventfds` (no two open subscriptions share a
  descriptor) and `DrainsLive` (what is read is the eventfd of the source in
  hand). `EntriesDropAt`, `EntriesConcat` and `OrdersComplete` say that the vector
  of ready executables loses only what is picked and gets all that
  `prepare_epoll` found.

  Its two hypotheses are real limits of the code. `OneExecutor`: with two,
  TLC finds an `AgnocastExecutor` that puts a source of the other executor into its
  own epoll set and clears `need_epoll_update`, and a group that is moved between
  executors after its sources were polled. `OwnEventfds`: with two subscriptions
  that may be destroyed under a running executor (`Orderly = FALSE`), a thread that
  copied the descriptor of one reads the eventfd of the other, which got its
  number. The run `executor` has one subscription and destroys it at any time;
  the theorem covers that and any number of subscriptions with `Orderly`.

### Shared memory

* `MappedBeforeRead` (`ShmMapping`; `MappingAssumption`: a natural bound of
  publishers). That a callback's pool is mapped follows from who is on the kernel's
  list: `ListedIsMapped` says that a listed pool is mapped or in the hands of the thread
  that was told of it, `MapLocks` that this thread holds `mmap_mtx` until it has mapped
  all of them, so whoever takes the mutex later finds everything that is listed
  mapped, and `NothingUnlisted` that a subscriber that does not ask has
  nothing to ask for. `FewPublishers` counts, because the kernel refuses the
  publisher that would not fit.
* `TakenSafe` (`TakeSubscription`; `TakeAssumption`). A control block stands for one
  reference in the kernel and an entry has one live block: `TakeOwned` gives each
  reference bit its owner, a block or the thread that has yet to build or release one;
  `TakePointers` says what the cache and the old pointer add to a count, so that a copy
  of the program's is never the last while one of them is left; `LatestCached` and
  `RecentKept` bound the lag of `take(true)`. Its two hypotheses are limits of the
  code: `SeparateUse` (new messages only on any threads, or the same message again
  on one thread), without which `take_race` and section 6 show two blocks for
  one entry; and `SubDepth <= PubDepth`, without which the cached pointer pins its
  own entry (section 6).
* `LoansReturned` (`LoanedMessage`; `LoanAssumption`: finitely many loans, and the kinds
  of programs the module tells apart). `LoanCounts` numbers the pointers of each thread
  and says that a control block counts them, so the one that sees the count fall to zero
  is the last. `LoanSteps` says that a thread in `publish()` or `cancel_message()` still
  has its pointer, which no other thread publishes and which is valid until that thread
  invalidates it: no drop that comes in between frees the message. `LoanOwners` follows
  the memory from there: on loan until the ioctl or the deleter, in the kernel's
  entries, or among the released ones of one thread. `LoanReturns`, for programs that
  return a loan where they borrowed it, says that the thread in hand is the borrower,
  so its count is never zero when it is decremented. The restrictions are in the
  property itself: `careful` programs obey what the library checks for anyway, and
  section 6 has what happens to one that is not `confined`.
  `WithoutKeeps` is the lemma that removing entries loses and repeats none of the rest.

### Bridge manager

* `ShutdownReaches`. A thread sleeps over the flag if the flag is stored between its
  test and its wait. `WorkerHolds` says that the worker holds `pending_msgs_mtx_` from
  the test to the wait and that nobody stores the flag meanwhile; `StillToCome`, that
  whoever rests through the store has its notification still ahead of it in
  `request_shutdown`; `DtorAsks`, how far the destructor's own request has got before
  each join.
* `MessagesInOrder`. `OnTheirWay` is one equation between everything that
  arrived and what the worker was given, its batch, the vector under the mutex, the
  datagram in hand and the socket, each filtered by well-formedness. It holds until the
  flag is set. Lemmas about `WellFormed` (it distributes over concatenation) are proved
  by the least prefix for which they could fail.

### Isolated executors and component container

* `GroupsAssumption` says that the groups added automatically are groups,
  `ContainerAssumption` that a container knows finitely many.
* `ThreadsJoined`: `Tracked` names who has to join each thread of an isolated
  executor, the spin loop or the worker that takes a group down; for the container
  `AllListed` (each running thread is in the list), `Joined` and `Clean`, with the ghost
  `raced` for the monitor that comes between the two removals of an unload.
* `ExecutorsExclusive`: `TargetFree` keeps the group that is being taken down from the
  loop that looks for groups without an executor; `ExecsByGroup` is the same for the
  container, where the group's own flag is the guard, and `Numbered` tells a new
  thread from the ones that a group had before.

### Domain rules, discovery agent, thread configurator

`DomainRulesAssumption` gives the types of names, domains and declared topics; names
are sequences of any strings.

* `DomainRulesHold`: the check that two rules claim no common cell must be right for
  all names, not for those in use; `Apart` says so, from `PrefixesNest` (two prefixes of
  one name nest). A rule is added or replaces the one of its pair (`Adds`,
  `Replaced`); `AcceptedKept` says that it still does what every accepted declaration
  asked for, so the tool can declare them again. Grouping is `StructsApart`,
  `GroupedByRule` and `EndsJoined`.
* `ReachSettled`: `Follows` says that two wrappers that stay share a struct after a
  step exactly if they did before it, and under the same rule, for joins,
  leaves and declarations alike.
* `SettledReported` (`RegistryAssumption`: an endpoint publishes or subscribes). The
  claim is about endpoints of the agent's own domain (`read_local_topics` skips the
  others) on topics that GET_TOPIC_LIST names (it leaves out the responses of
  services): these are reported. That they have a type is claimed for messages only,
  since an endpoint of a service has no type name and is added without a line.
  `LineFirst` says that the line of an endpoint of messages is in its process's file
  before the kernel hears of the endpoint, and that only files of dead processes are on
  their way out; `TickCovers` follows what was settled when the tick began from the
  files still to be read into the table, and from the queries still to come into the
  report.
* `PassesHonest` (`SystemAssumption`: threads and IRQs have numbers, and a thread's
  priority or nice value is in the range of its policy, as the kernel guarantees).
  `InHand` says that what a pass has yet to visit is still as it was scanned or gone;
  `EnsuredSoFar` is the promise for what is reported so far. `StillDumped` says that a
  pass over the template starts from the scan the template was made of, so that only
  a thread that shares its name with a different one (`Ambiguous`) is not in sync;
  `TemplateValid` and `OwnLine` are the round trip of a thread through the file.
* `AnnouncementsHandled` (`ConfigAssumption`: groups and other threads are told apart,
  a valid file has finitely many entries). Thread ids pass through queues, indexes and
  reapplies without the name of their thread; `ConfigInv(owner)` holds for some map
  `owner` of ids to who started them, which each start extends. By it two entries share
  no thread (`OneRecord`), so that the calls for one leave the others' alone (`CallsObeyed`).
  `Recorded` keeps the last announcement on record, `Counted` says what the counter means
  at each stage of a reapply, and `Obeyed` grows with the entries the reapply has
  visited. `Announced` and `Taken` are the entries after an announcement: the group's own entry
  has the thread and the wildcard of its node has lost it.

### Node

`NodeAssumption`: clocks, periods and depths count from zero, the deque of a service
bridge has room for a request, parameter requests are lists of names with values.
`ParametersAssumption`: "not set" is no value.

* `SignalsDelivered`: `SignalOnItsWay` follows a received signal from the handler's
  flag to its write to the eventfd and the thread that looks at it; a handler that was
  dispatched before an uninstall may write late, and `InstallStages` says which
  descriptor it can still have. `WakeupOnItsWay` follows it from the thread to the
  executors that wait.
* `TimersWoken`: `BornInTime` and `CallAhead` say that a registration and a callback's
  next call are not behind the clock, unless a clock change fell between their steps
  (`raced`, section 6).
* `StoreIsLegal`: a request sets several parameters one after the other,
  and the last entry for a name counts (`LastIs`); `Vetoed` is proved for the values a
  whole request leaves, so no callback is passed over by naming a parameter twice.
* `EveryCallAnswered`: `Paired` says that an id that was handed out again is
  remembered by no request, so the response topic named by a request is that of
  the client that sent it; `Followed` follows each call to its response, or to the
  queue or exit that lost it. For the service bridge `SentFirst` gives the order, and
  `EachOnce`, `WithService` and `OldestDropped` account for each call.

### Only model-checked

* Liveness under fairness (`EventuallyReceived`, `Reclaimed`, `StopReturns`,
  `LateGroupsServed`): out of the prover's reach, as are `ENABLED`, induction over
  data and RECURSIVE operators.
* `BridgesConnect`, `NoLeftOvers` and `CountsSettle`: they say what holds a number of
  rounds after the last change; a proof would follow every manager through all
  those rounds.
* `HeapIntact`: a block is intact if each of its bytes is, behind padding that depends
  on remainders of addresses; arithmetic that the SMT solver does not finish and TLC
  covers for a pool of nine units.
* `GraphExact`: the copies made by the queries are folds over sequences.
* `SetsOptimal`: it compares the filter's search with the best set of all arrived
  messages, a minimum over tuples of sequences.

## 6. Where code and documentation disagree

| Run | What happens |
|---|---|
| `queued` | A receive that was queued before its subscription was destroyed fails and ends the process. |
| `take_race` | Two threads in `take(true)`: a control block is built for an entry whose reference was just released. |

Further observations, seen with TLC by changing constants or by the ghost
variables of section 4, or while reading the code for the model.

Topic and memory

* A publisher of depth 0 ends its process at the first publish: the release walk
  reaches the entry just inserted and reports `-ENODATA`; nobody is signalled.
  The warning at construction (`agnocast_utils.hpp:62`) speaks only of messages
  not being delivered.
* `remove_subscriber` clears the bits of handles that are still alive, so a
  message can be deleted under its reader (`topic` with `HandlesOutlive`).
* In a group of domains a removal in one domain can free the last publisher of
  the other and leave that domain's wrapper without endpoints
  (`agnocast_ioctl.c:2295`, comment at `agnocast_internal.c:372`).
* `take(false)` followed by `take(true)` gives one entry two control blocks and
  one kernel reference (`agnocast_subscription.hpp:459`, against 290-291). With
  publisher depth below subscription depth the cached pointer pins its own entry
  and `take(true)` never advances (comment at line 377).
* A publisher that exits between the receive ioctl and `shm_open` ends the
  reader; with a reused pid in that window the wrong pool would be mapped.
* `borrowed_publisher_num` is thread-local, so publishing or dropping the last copy
  of an unpublished message on another thread than the borrower's ends the process
  or miscounts, although `agnocast_smart_pointer.hpp:89-92` says threads can
  safely hold and destroy different copies. Two concurrent `publish()` of copies
  of one message publish it twice.
* `realloc` of a shared block while nothing is borrowed returns NULL.

Processes and bridges

* An unlink daemon killed between GET_EXIT_PROCESS and `shm_unlink` leaves a file
  that no replacement hears of (`agnocast.cpp:233`), and a process that registers
  before the daemon's exit was cleaned up spawns no replacement (`README.md:193`
  says the next process to start does). A bridge manager that registers when no
  unlink daemon is left does not fork one.
* `agno_service_exists` reads two subscribers as no service; ROS 2 counts are
  stale after a bridge is erased (`docs/agnocast_node_interface_comparison.md:189`);
  a successor's socket bind fails while its predecessor holds the name.
* `cancel()` before the manager's executor spins is lost, and the join may hang; a
  failed `epoll_wait` goes down without NOTIFY_BRIDGE_SHUTDOWN.
* `ret_a2r_bridge_exist` and its counterpart, the ROS 2 counts and the bridge
  registry are not kept per domain; ADD_BRIDGE has no userland caller.
* A dead publisher held by readers looks alive once its pid is reused
  (`owner_is_alive`).

Executors, containers, node

* An early `cancel()` of a mixed child is lost and its join hangs; a group scanned
  before its first agnocast entity keeps a plain executor. The public
  `add_callback_group` inherited by `AgnocastOnlyCallbackIsolatedExecutor` makes
  spawning abort.
* The container's monitor between `remove_node_from_executor` and the erase from
  `node_wrappers_` restarts executors of a node being unloaded; its destructor
  returns early when no node is loaded and leaves joinable threads;
  `node_wrappers_` is changed without the mutex under which the monitor reads it
  (the scan is atomic in the model).
* Timers: a registration that races with a clock change misses it; a backward jump
  can be overwritten; `next_call == now` waits for the next `/clock`; leaving
  simulated time leaves timers without a timerfd (a TODO of the code).
* Parameters: undeclaring one parameter twice in a list hits the assertion at
  `node_parameters.cpp:629`; setting it after undeclaring it reports success.
* Signals: the header says uninstall clears `eventfds_`, only install does; `init()`
  during an uninstall leaves no handler; executors built before a second `init()`
  are no longer registered.
* Services: unanswered calls are never pruned; a second server's response is
  reported as a bad entry id; the server keeps a response publisher for ever.

Tools

* A publisher seen by a tick may have no type yet (comment at
  `agnocast_publisher.cpp:59-61`), but has one a tick later. Requests of services are
  reported without type and pid, responses not at all. The key of the type table
  (`type_registry.py:137`) has no domain, so endpoints of one name in two domains are
  reported with the same pid. A torn line of a type
  file swallows the next one; a forked child's `atexit` unlinks its parent's file.
* The configurator's unedited template changes kernel threads that share a name
  with a differently configured one (`thread_configurator_node.cpp:52`);
  `applied` stays set when a later call fails; thread ids may be reused.

## 7. Not modelled

* Of module load: the files a failed load leaves in the device tree. The window
  between `device_create` and `init_memory_allocator`, in which ADD_PROCESS reads a
  pool table that is not there, is in the model (`fault`, `FaultsOnlyEarly`), as
  is the registry entry that an early process leaves behind a failed load.
* Of service bridges: exceptions of `send_response`, which end the manager.
* Forwarding code: `agnocast_node.*`, topic, service, clock and logging interfaces,
  the synchronizer, subscriber and cache of the message filters, single- and
  multi-threaded containers.
* Command line tools, tf2 and diagnostics ports, samples, tests: printing, and
  code on top of the modelled interfaces.
* What libraries do inside: TLSF free lists, rclcpp executors, DDS, YAML and
  argument syntax; they are external and as nondeterministic as their interface.
* Failures of allocation and of `copy_to_user` inside an ioctl, after which the
  library ends the process; start-up checks of the configurator; service event
  introspection.

Proofs that would come next: the bounds on rounds of `Bridge`.
