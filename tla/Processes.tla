----------------------------- MODULE Processes -----------------------------
(***************************************************************************)
(* The processes of one IPC namespace: how they register with the kernel   *)
(* module, which daemons they spawn, and what is reclaimed when they exit. *)
(*                                                                         *)
(* A starting application registers, forks the daemons it was told do not  *)
(* run yet (the shm unlink daemon, the bridge manager and the discovery    *)
(* agent of its domain) and only then maps its own memory pool.  A daemon  *)
(* decides by registering whether it is the one.  An exit is reported by a *)
(* tracepoint into a ring buffer, cleaned up by a kernel thread, and the   *)
(* shared memory file is removed by the unlink daemon.                     *)
(*                                                                         *)
(* Every ioctl is one step: it holds global_htables_rwsem.  Pids are       *)
(* handed out in order and never reused.                                   *)
(***************************************************************************)
EXTENDS Integers, FiniteSets

CONSTANTS
  Domains,       \* ROS domains
  MaxApps,       \* bound: applications started
  MaxPid,        \* bound: processes started
  MempoolNum,    \* mempool_num
  QueueSize,     \* EXIT_QUEUE_SIZE
  Daemons,       \* daemons this installation spawns: "unlink" and, if the
                 \* environment does not turn them off, "bridge" and "agent"
  Subscribing,   \* processes subscribe to each other's topics
  DaemonsKilled  \* daemons may be killed or told to stop by a signal

Pids == 1 .. MaxPid
Pools == 1 .. MempoolNum
Slots == 0 .. (QueueSize - 1)
None == 0

ASSUME ProcessesAssumption ==
  /\ Domains # {}
  /\ MaxApps \in Nat
  /\ MaxPid \in Nat
  /\ MempoolNum \in Nat \ {0}
  /\ QueueSize \in Nat \ {0, 1}
  /\ Daemons \subseteq {"unlink", "bridge", "agent"}
  /\ Subscribing \in BOOLEAN
  /\ DaemonsKilled \in BOOLEAN

\* The exit queue has a slot for every process that has a pool and for an agent
\* in every domain (agnocast_internal.h: 65536 slots, 4096 pools by default).
ASSUME QueueAssumption ==
  IsFiniteSet(Domains) /\ MempoolNum + Cardinality(Domains) < QueueSize

VARIABLES
  \* Kernel state.
  info,      \* proc_info_htable: pid -> process_info
  agents,    \* discovery_agent_htable
  mapped,    \* mempool_entries: pool -> the pids on its mapped_pid_head
  queue,     \* exit_pid_queue
  head,      \* queue_head
  tail,      \* queue_tail
  newPid,    \* has_new_pid
  worker,    \* exit_worker_thread: "wait", "drain" or "clean"
  cleaning,  \* the pid it has taken from the queue
  dropped,   \* pids that did not fit into the queue
  \* User-space state.
  pc,        \* where each process is
  dom,       \* its ROS_DOMAIN_ID
  hint,      \* which daemons ADD_PROCESS told an application exist
  got,       \* the pid an unlink daemon has been handed
  mapping,   \* what a process was told to map and has not mapped yet
  maps,      \* address spaces: pid -> <<pool, pid whose memory is there>>
  shm,       \* pids that have a file /agnocast@pid
  nextPid,
  apps       \* applications started so far

kernelVars == <<info, agents, mapped, queue, head, tail, newPid, worker,
                cleaning, dropped>>
queueVars == <<queue, head, tail, newPid, worker, cleaning, dropped>>
userVars == <<pc, dom, hint, got, mapping, maps, shm, nextPid, apps>>
vars == <<info, agents, mapped, queue, head, tail, newPid, worker, cleaning,
          dropped, pc, dom, hint, got, mapping, maps, shm, nextPid, apps>>

Info == [exited : BOOLEAN, pool : Pools,
         role : {"application", "bridge_manager", "unlink_daemon"}]

AppStates == {"add", "unlink", "bridge", "agent", "map", "run"}
UnlinkStates == {"ud_add", "ud_poll", "ud_commit", "ud_unlink", "ud_exit"}
ManagerStates == {"bm_add", "bm_map", "bm_run", "bm_exit"}
AgentStates == {"ag_claim", "ag_run", "ag_commit", "ag_exit"}
DaemonStates == UnlinkStates \cup ManagerStates \cup AgentStates

\* Where a forked daemon starts.
Entry(kind) == CASE kind = "unlink" -> "ud_add"
                 [] kind = "bridge" -> "bm_add"
                 [] kind = "agent"  -> "ag_claim"

Init ==
  /\ info = [p \in {} |-> 0]
  /\ agents = {}
  /\ mapped = [k \in Pools |-> {}]
  /\ queue = [i \in Slots |-> None]
  /\ head = 0
  /\ tail = 0
  /\ newPid = FALSE
  /\ worker = "wait"
  /\ cleaning = None
  /\ dropped = {}
  /\ pc = [p \in Pids |-> "unborn"]
  /\ dom = [p \in Pids |-> CHOOSE d \in Domains : TRUE]
  /\ hint = [p \in Pids |-> {}]
  /\ got = [p \in Pids |-> None]
  /\ mapping = [p \in Pids |-> {}]
  /\ maps = [p \in Pids |-> {}]
  /\ shm = {}
  /\ nextPid = 1
  /\ apps = 0

-----------------------------------------------------------------------------
(* Registration.                                                           *)

Registered(role) == {p \in DOMAIN info : info[p].role = role}

\* Mutant: a daemon that registers does not look for another one.
has_alive_unlink_daemon_never == FALSE

has_alive_unlink_daemon == Registered("unlink_daemon") # {}

has_alive_bridge_manager(d) ==
  \E p \in Registered("bridge_manager") : dom[p] = d /\ ~info[p].exited

agnocast_find_discovery_agent(d) == {a \in agents : dom[a] = d}

\* get_process_num_in_domain_except_unlink_daemon, and the variant that leaves
\* out processes whose exit has been cleaned up.
process_num_in_domain(d) ==
  Cardinality({p \in DOMAIN info : /\ info[p].role # "unlink_daemon"
                                   /\ dom[p] = d})

alive_process_num_in_domain(d) ==
  Cardinality({p \in DOMAIN info : /\ info[p].role # "unlink_daemon"
                                   /\ dom[p] = d
                                   /\ ~info[p].exited})

FreePools == {k \in Pools : mapped[k] = {}}

\* assign_memory takes the first pool that nobody has mapped.
assign_memory == CHOOSE k \in FreePools : \A j \in FreePools : k <= j

\* Mutant: only the pool assigned to the process is given back.
free_memory_assigned_only(p) ==
  mapped' = [k \in Pools |-> IF k = info[p].pool THEN mapped[k] \ {p}
                             ELSE mapped[k]]

free_memory(p) == mapped' = [k \in Pools |-> mapped[k] \ {p}]

\* A process is listed once per pool.
reference_memory(q, P) ==
  mapped' = [k \in Pools |-> IF \E p \in P : info[p].pool = k
                             THEN mapped[k] \cup {q} ELSE mapped[k]]

agnocast_ioctl_add_process(p, r) ==
  LET k == assign_memory
  IN  /\ info' = [q \in DOMAIN info \cup {p} |->
                    IF q = p THEN [exited |-> FALSE, role |-> r, pool |-> k]
                    ELSE info[q]]
      /\ mapped' = [mapped EXCEPT ![k] = {p}]

\* Mutant: every process that exits is reported.
is_agnocast_pid_any(p) == TRUE

\* The tracepoint runs when the last thread of the process has exited, its
\* address space already gone.
is_agnocast_pid(p) == p \in DOMAIN info \/ p \in agents

\* Mutant: the ring buffer does not wrap.
agnocast_enqueue_exit_pid_no_wrap(p) ==
  /\ queue' = [queue EXCEPT ![tail] = p]
  /\ tail' = tail + 1
  /\ newPid' = TRUE
  /\ UNCHANGED dropped

agnocast_enqueue_exit_pid(p) ==
  LET next == (tail + 1) % QueueSize
  IN  IF next # head
      THEN /\ queue' = [queue EXCEPT ![tail] = p]
           /\ tail' = next
           /\ newPid' = TRUE
           /\ UNCHANGED dropped
      ELSE /\ dropped' = dropped \cup {p}
           /\ UNCHANGED <<queue, tail, newPid>>

Exits(p) ==
  /\ pc' = [pc EXCEPT ![p] = "dead"]
  /\ maps' = [maps EXCEPT ![p] = {}]
  /\ mapping' = [mapping EXCEPT ![p] = {}]
  /\ got' = [got EXCEPT ![p] = None]
  /\ hint' = [hint EXCEPT ![p] = {}]
  /\ IF is_agnocast_pid(p) THEN agnocast_enqueue_exit_pid(p)
     ELSE UNCHANGED <<queue, tail, newPid, dropped>>
  /\ UNCHANGED <<info, agents, mapped, head, worker, cleaning, dom, shm,
                 nextPid, apps>>

Goto(p, s) == pc' = [pc EXCEPT ![p] = s]

-----------------------------------------------------------------------------
(* An application starts: initialize_agnocast.                             *)

StartApplication(d) ==
  /\ apps < MaxApps
  /\ nextPid <= MaxPid
  /\ apps' = apps + 1
  /\ nextPid' = nextPid + 1
  /\ Goto(nextPid, "add")
  /\ dom' = [dom EXCEPT ![nextPid] = d]
  /\ UNCHANGED <<kernelVars, hint, got, mapping, maps, shm>>

AddApplication(p) ==
  /\ pc[p] = "add"
  /\ IF FreePools = {} THEN Exits(p)
     ELSE /\ hint' = [hint EXCEPT ![p] =
               {kind \in {"unlink", "bridge", "agent"} :
                  \/ kind = "unlink" /\ has_alive_unlink_daemon
                  \/ kind = "bridge" /\ has_alive_bridge_manager(dom[p])
                  \/ /\ kind = "agent"
                     /\ agnocast_find_discovery_agent(dom[p]) # {}}]
          /\ agnocast_ioctl_add_process(p, "application")
          /\ Goto(p, "unlink")
          /\ UNCHANGED <<agents, queueVars, dom, got, mapping, maps, shm,
                         nextPid, apps>>

\* What initialize_agnocast does after it has dealt with one daemon.
AfterSpawn(kind) == CASE kind = "unlink" -> "bridge"
                      [] kind = "bridge" -> "agent"
                      [] kind = "agent"  -> "map"

\* Mutant: the pool is mapped before the daemons are forked.
Inherited_after_map(p) == maps[p] \cup {<<info[p].pool, p>>}

\* fork copies the address space.
Inherited(p) == maps[p]

\* spawn_daemon_process; ROS_DOMAIN_ID is inherited with the environment.
Spawn(p, kind) ==
  /\ pc[p] = kind
  /\ IF kind \in Daemons /\ kind \notin hint[p]
     THEN /\ nextPid <= MaxPid
          /\ pc' = [pc EXCEPT ![p] = AfterSpawn(kind), ![nextPid] = Entry(kind)]
          /\ dom' = [dom EXCEPT ![nextPid] = dom[p]]
          /\ maps' = [maps EXCEPT ![nextPid] = Inherited(p)]
          /\ nextPid' = nextPid + 1
     ELSE Goto(p, AfterSpawn(kind)) /\ UNCHANGED <<dom, maps, nextPid>>
  /\ hint' = [hint EXCEPT ![p] = @ \ {kind}]
  /\ UNCHANGED <<kernelVars, got, mapping, shm, apps>>

\* map_area with MAP_FIXED_NOREPLACE fails where something is mapped already.
Occupied(p, k) == \E m \in maps[p] : m[1] = k

map_writable_area(p, next) ==
  IF Occupied(p, info[p].pool) THEN Exits(p)
  ELSE /\ shm' = shm \cup {p}
       /\ maps' = [maps EXCEPT ![p] = @ \cup {<<info[p].pool, p>>}]
       /\ Goto(p, next)
       /\ UNCHANGED <<kernelVars, dom, hint, got, mapping, nextPid, apps>>

MapOwnPool(p) ==
  \/ pc[p] = "map" /\ map_writable_area(p, "run")
  \/ pc[p] = "bm_map" /\ map_writable_area(p, "bm_run")

-----------------------------------------------------------------------------
(* A subscriber maps the pool of a publisher it hears of.                  *)

\* set_publisher_shm_info: P are the publishers of the topic q receives from
\* whose memory q has not referenced yet.
ReferenceMemory(q, P) ==
  /\ Subscribing
  /\ pc[q] \in {"run", "bm_run"}
  /\ mapping[q] = {}
  /\ P # {}
  /\ \A p \in P : /\ p # q
                 /\ p \in shm /\ p \in DOMAIN info
                 /\ ~info[p].exited
                 /\ q \notin mapped[info[p].pool]
  /\ reference_memory(q, P)
  /\ mapping' = [mapping EXCEPT ![q] = {<<info[p].pool, p>> : p \in P}]
  /\ UNCHANGED <<info, agents, queueVars, pc, dom, hint, got, maps, shm,
                 nextPid, apps>>

\* The rest of the receive, still under mmap_mtx: open /agnocast@pid, map it.
MapReadOnly(q) ==
  /\ mapping[q] # {}
  /\ IF \E m \in mapping[q] : m[2] \notin shm \/ Occupied(q, m[1])
     THEN Exits(q)
     ELSE /\ maps' = [maps EXCEPT ![q] = @ \cup mapping[q]]
          /\ mapping' = [mapping EXCEPT ![q] = {}]
          /\ UNCHANGED <<kernelVars, pc, dom, hint, got, shm, nextPid, apps>>

-----------------------------------------------------------------------------
(* The unlink daemon: poll_for_unlink.                                     *)

AddUnlinkDaemon(u) ==
  /\ pc[u] = "ud_add"
  /\ IF has_alive_unlink_daemon \/ FreePools = {} THEN Exits(u)
     ELSE /\ agnocast_ioctl_add_process(u, "unlink_daemon")
          /\ Goto(u, "ud_poll")
          /\ UNCHANGED <<agents, queueVars, dom, hint, got, mapping, maps, shm,
                         nextPid, apps>>

\* Phase 1 of the ioctl: some exited process, if there is one.
agnocast_ioctl_get_exit_process(u) ==
  /\ pc[u] = "ud_poll"
  /\ LET exited == {p \in DOMAIN info : info[p].exited}
     IN  \E p \in IF exited = {} THEN {None} ELSE exited :
           got' = [got EXCEPT ![u] = p]
  /\ Goto(u, "ud_commit")
  /\ UNCHANGED <<kernelVars, dom, hint, mapping, maps, shm, nextPid, apps>>

\* Mutant: the daemon stays registered until it is dead.
LeavesRegistry_on_death(u, left) == FALSE

\* The idle poll of a daemon that nobody needs any more takes it off the
\* registry; left are the processes still in it.
LeavesRegistry(u, left) ==
  /\ got[u] = None
  /\ \A p \in left : info[p].role = "unlink_daemon"

\* Phase 2: the process is forgotten; the flag is only looked at after a poll
\* that found nobody.
agnocast_commit_exit(u) ==
  /\ pc[u] = "ud_commit"
  /\ LET left == DOMAIN info \ {got[u]}
         done == got[u] = None /\ \A p \in left : info[p].role = "unlink_daemon"
         keep == IF LeavesRegistry(u, left) THEN left \ {u} ELSE left
     IN  /\ info' = [p \in keep |-> info[p]]
         /\ IF u \in keep THEN UNCHANGED mapped ELSE free_memory(u)
         /\ Goto(u, IF got[u] # None THEN "ud_unlink"
                    ELSE IF done THEN "ud_exit" ELSE "ud_poll")
  /\ UNCHANGED <<agents, queueVars, dom, hint, got, mapping, maps, shm,
                 nextPid, apps>>

ShmUnlink(u) ==
  /\ pc[u] = "ud_unlink"
  /\ shm' = shm \ {got[u]}
  /\ got' = [got EXCEPT ![u] = None]
  /\ Goto(u, "ud_poll")
  /\ UNCHANGED <<kernelVars, dom, hint, mapping, maps, nextPid, apps>>

-----------------------------------------------------------------------------
(* The bridge manager.                                                     *)

AddBridgeManager(b) ==
  /\ pc[b] = "bm_add"
  /\ IF has_alive_bridge_manager(dom[b]) \/ FreePools = {} THEN Exits(b)
     ELSE /\ agnocast_ioctl_add_process(b, "bridge_manager")
          /\ Goto(b, "bm_map")
          /\ UNCHANGED <<agents, queueVars, dom, hint, got, mapping, maps, shm,
                         nextPid, apps>>

\* Mutant: the manager stops although one more process is there.
DomainEmpty_off_by_one(d) == process_num_in_domain(d) <= 2

DomainEmpty(d) == process_num_in_domain(d) <= 1

\* The manager becomes an ordinary process, so that the next application
\* spawns another one.
agnocast_ioctl_notify_bridge_shutdown(b) ==
  info' = [info EXCEPT ![b].role = "application"]

ResignsAsManager(b) ==
  /\ pc[b] = "bm_run"
  /\ agnocast_ioctl_notify_bridge_shutdown(b)
  /\ Goto(b, "bm_exit")
  /\ UNCHANGED <<agents, mapped, queueVars, dom, hint, got, mapping, maps, shm,
                 nextPid, apps>>

CheckAndRequestBridgeShutdown(b) == DomainEmpty(dom[b]) /\ ResignsAsManager(b)

\* on_signal
NotifyBridgeShutdown(b) == DaemonsKilled /\ ResignsAsManager(b)

-----------------------------------------------------------------------------
(* The discovery agent.                                                    *)

\* The claim: at most one agent per domain is entered.
agnocast_ioctl_add_discovery_agent(a) ==
  /\ agnocast_find_discovery_agent(dom[a]) = {}
  /\ agents' = agents \cup {a}

agnocast_remove_discovery_agent_by_pid(p) == agents \ {p}

AddDiscoveryAgent(a) ==
  /\ pc[a] = "ag_claim"
  /\ IF agnocast_find_discovery_agent(dom[a]) # {} THEN Exits(a)
     ELSE /\ agnocast_ioctl_add_discovery_agent(a)
          /\ Goto(a, "ag_run")
          /\ UNCHANGED <<info, mapped, queueVars, dom, hint, got, mapping, maps,
                         shm, nextPid, apps>>

\* The idle poll: commit is FALSE.
DiscoveryAgentShouldExit(a) ==
  /\ pc[a] = "ag_run"
  /\ alive_process_num_in_domain(dom[a]) = 0
  /\ Goto(a, "ag_commit")
  /\ UNCHANGED <<kernelVars, dom, hint, got, mapping, maps, shm, nextPid, apps>>

\* Mutant: the second call trusts the answer of the first.
ExitVetoed_never(a) == FALSE

ExitVetoed(a) == alive_process_num_in_domain(dom[a]) # 0

\* The exit gate: commit is TRUE.
DiscoveryAgentCommitExit(a) ==
  /\ pc[a] = "ag_commit"
  /\ agents' = IF ExitVetoed(a) THEN agents
               ELSE agnocast_remove_discovery_agent_by_pid(a)
  /\ Goto(a, IF ExitVetoed(a) THEN "ag_run" ELSE "ag_exit")
  /\ UNCHANGED <<info, mapped, queueVars, dom, hint, got, mapping, maps, shm,
                 nextPid, apps>>

-----------------------------------------------------------------------------
(* Exits.                                                                  *)

ProcessEnds(p) ==
  /\ \/ pc[p] \in AppStates
     \/ pc[p] \in {"ud_exit", "bm_exit", "ag_exit"}
     \/ DaemonsKilled /\ pc[p] \in DaemonStates
  /\ Exits(p)

WorkerWakes ==
  /\ worker = "wait"
  /\ newPid
  /\ worker' = "drain"
  /\ UNCHANGED <<info, agents, mapped, queue, head, tail, newPid, cleaning,
                 dropped, userVars>>

\* A slot that has been read is blanked; nothing reads it again.
WorkerDequeues ==
  /\ worker = "drain"
  /\ IF head # tail
     THEN /\ cleaning' = queue[head]
          /\ queue' = [queue EXCEPT ![head] = None]
          /\ head' = (head + 1) % QueueSize
          /\ worker' = "clean"
     ELSE worker' = "wait" /\ UNCHANGED <<cleaning, queue, head>>
  /\ newPid' = (newPid /\ head' # tail)
  /\ UNCHANGED <<info, agents, mapped, tail, dropped, userVars>>

\* Mutant: every process is forgotten as soon as it is cleaned up.
AfterCleanup_forgets(p) == [q \in DOMAIN info \ {p} |-> info[q]]

\* Mutant: the process is not marked for the unlink daemon.
AfterCleanup_unmarked(p) == info

\* A process stays in the registry, exited, until the unlink daemon has been
\* handed its pid; the daemon itself has nobody to collect it.
AfterCleanup(p) ==
  IF info[p].role = "unlink_daemon"
  THEN [q \in DOMAIN info \ {p} |-> info[q]]
  ELSE [info EXCEPT ![p].exited = TRUE]

agnocast_process_exit_cleanup ==
  /\ worker = "clean"
  /\ agents' = agnocast_remove_discovery_agent_by_pid(cleaning)
  /\ IF cleaning \in DOMAIN info
     THEN /\ info' = AfterCleanup(cleaning)
          /\ free_memory(cleaning)
     ELSE UNCHANGED <<info, mapped>>
  /\ worker' = "drain"
  /\ cleaning' = None
  /\ UNCHANGED <<queue, head, tail, newPid, dropped, userVars>>

-----------------------------------------------------------------------------
UnlinkDaemonStep(p) ==
  \/ AddUnlinkDaemon(p)
  \/ agnocast_ioctl_get_exit_process(p)
  \/ agnocast_commit_exit(p)
  \/ ShmUnlink(p)

WorkerStep == WorkerWakes \/ WorkerDequeues \/ agnocast_process_exit_cleanup

Next ==
  \/ \E d \in Domains : StartApplication(d)
  \/ \E p \in Pids :
       \/ AddApplication(p)
       \/ \E kind \in {"unlink", "bridge", "agent"} : Spawn(p, kind)
       \/ MapOwnPool(p)
       \/ \E P \in SUBSET shm : ReferenceMemory(p, P)
       \/ MapReadOnly(p)
       \/ UnlinkDaemonStep(p)
       \/ AddBridgeManager(p)
       \/ CheckAndRequestBridgeShutdown(p)
       \/ NotifyBridgeShutdown(p)
       \/ AddDiscoveryAgent(p)
       \/ DiscoveryAgentShouldExit(p)
       \/ DiscoveryAgentCommitExit(p)
       \/ ProcessEnds(p)
  \/ WorkerStep

Spec == Init /\ [][Next]_vars

\* The kernel thread runs and the unlink daemon keeps polling.
FairSpec ==
  /\ Spec
  /\ WF_vars(WorkerStep)
  /\ \A p \in Pids : WF_vars(UnlinkDaemonStep(p))

-----------------------------------------------------------------------------
(* Correctness.                                                            *)

\* The registry, the pools and the ring buffer hold what they declare.
TypeOK ==
  /\ DOMAIN info \subseteq Pids /\ info \in [DOMAIN info -> Info]
  /\ agents \subseteq Pids
  /\ mapped \in [Pools -> SUBSET Pids]
  /\ queue \in [Slots -> Pids \cup {None}]
  /\ head \in Slots /\ tail \in Slots
  /\ newPid \in BOOLEAN
  /\ worker \in {"wait", "drain", "clean"}
  /\ cleaning \in Pids \cup {None}
  /\ dropped \subseteq Pids
  /\ pc \in [Pids -> AppStates \cup DaemonStates \cup {"unborn", "dead"}]
  /\ dom \in [Pids -> Domains]
  /\ hint \in [Pids -> SUBSET {"unlink", "bridge", "agent"}]
  /\ got \in [Pids -> Pids \cup {None}]
  /\ mapping \in [Pids -> SUBSET (Pools \X Pids)]
  /\ maps \in [Pids -> SUBSET (Pools \X Pids)]
  /\ shm \subseteq Pids
  /\ nextPid \in 1 .. (MaxPid + 1)
  /\ apps \in 0 .. MaxApps

\* One address, one memory: wherever two processes have a pool's address range
\* mapped, it is the memory of the same process, so a message address means
\* the same message everywhere.  assign_memory must not hand out a pool that
\* anybody still maps.
OneAddressOneMemory ==
  \A p, q \in DOMAIN maps : \A m \in maps[p] : \A n \in maps[q] :
    m[1] = n[1] => m[2] = n[2]

\* As long as no daemon is killed, a shared memory file has an unlink daemon
\* that will see its owner exit: one is registered and has not decided to
\* leave, or one is about to register.
UnlinkDaemonCovers ==
  shm # {} =>
    \E u \in Pids : pc[u] \in UnlinkStates \ {"ud_exit"}

\* Likewise every running application has a bridge manager in its domain.
BridgeManagerCovers ==
  \A p \in Pids : pc[p] = "run" =>
    \E b \in Pids : dom[b] = dom[p] /\ pc[b] \in ManagerStates \ {"bm_exit"}

\* Neither ordering of a registration and the agent's exit gate leaves a
\* running application without a discovery agent.
AgentCovers ==
  \A p \in Pids : pc[p] = "run" =>
    \E a \in Pids : dom[a] = dom[p] /\ pc[a] \in AgentStates \ {"ag_exit"}

\* The singletons: however many applications start at once, at most one
\* registered daemon of each kind is at work.
Singletons ==
  \A p, q \in Pids : p # q =>
    /\ ~(\A x \in {p, q} : pc[x] \in {"ud_poll", "ud_commit", "ud_unlink"})
    /\ dom[p] = dom[q] =>
         /\ ~(\A x \in {p, q} : pc[x] \in {"bm_map", "bm_run"})
         /\ ~(\A x \in {p, q} : pc[x] \in {"ag_run", "ag_commit"})

\* A ring buffer with more slots than there are pools and agents never
\* overflows: no exit goes unnoticed.
QueueNeverOverflows == dropped = {}

\* The shared memory file of a dead process is still owed by the registry or
\* by a daemon that lives: nothing is forgotten half-way.
LeftBehindIsKnown ==
  \A p \in shm : pc[p] = "dead" =>
    \/ p \in DOMAIN info
    \/ \E u \in Pids : got[u] = p

\* A process that registers when no unlink daemon is left spawns one.
ReplacementSpawned ==
  [][\A p \in Pids :
       (pc[p] = "add" /\ pc'[p] = "unlink" /\ "unlink" \in hint'[p]) =>
         \E u \in Pids : pc[u] \in UnlinkStates]_vars

\* The file of a process that exits is unlinked in the end.
ShmReclaimed ==
  \A p \in Pids : (pc[p] = "dead" /\ p \in shm) ~> p \notin shm

\* The pools a process had mapped are given back in the end.
PoolsReclaimed ==
  \A p \in Pids : pc[p] = "dead" ~> \A k \in Pools : p \notin mapped[k]
=============================================================================
