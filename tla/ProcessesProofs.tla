-------------------------- MODULE ProcessesProofs --------------------------
(***************************************************************************)
(* What Processes promises for any number of processes, pools and domains, *)
(* and ModuleLoad for any processes that open, use and leave the device    *)
(* while the module is loaded and removed any number of times.             *)
(***************************************************************************)
EXTENDS MCProcesses, Sequences, TLAPS, FiniteSetTheorems,
        FunctionTheorems, WellFoundedInduction

\* Where a process is that has registered and has not left the registry again.
RegStates == {"unlink", "bridge", "agent", "map", "run", "bm_map", "bm_run",
              "bm_exit", "ud_poll", "ud_commit", "ud_unlink"}

\* Where a process may have memory mapped.
MapStates == {"run", "bm_run", "bm_exit"}

-----------------------------------------------------------------------------
(* The inductive invariant, part 1: the registry follows the life of the   *)
(* processes.                                                              *)

BornInOrder == \A p \in Pids : p >= nextPid => pc[p] = "unborn"

RegistryFollows ==
  /\ \A p \in DOMAIN info : pc[p] \in RegStates \cup {"dead"}
  /\ \A p \in Pids : pc[p] \in RegStates =>
       p \in DOMAIN info /\ ~info[p].exited

AgentsFollow ==
  /\ \A a \in agents : pc[a] \in {"ag_run", "ag_commit", "dead"}
  /\ \A a \in Pids : pc[a] \in {"ag_run", "ag_commit"} => a \in agents

\* Only the dead are handed to a daemon, and they stay marked.
GotDead ==
  \A u \in Pids : got[u] # None =>
    /\ pc[u] \in {"ud_commit", "ud_unlink"}
    /\ pc[got[u]] = "dead"
    /\ got[u] \in DOMAIN info => info[got[u]].exited

\* Only the dead are queued and cleaned up.
QueuedDead ==
  /\ \A i \in Slots : queue[i] # None => pc[queue[i]] = "dead"
  /\ cleaning # None => pc[cleaning] = "dead"

MapsWhere ==
  \A p \in Pids : pc[p] \notin MapStates => maps[p] = {} /\ mapping[p] = {}

Lifecycle ==
  /\ TypeOK
  /\ BornInOrder /\ RegistryFollows /\ AgentsFollow
  /\ GotDead /\ QueuedDead /\ MapsWhere

-----------------------------------------------------------------------------
(* The operators the steps are made of.                                    *)

\* assign_memory finds the first free pool whenever there is one.
LEMMA AssignMemoryFree ==
  ASSUME FreePools # {}
  PROVE  assign_memory \in FreePools
<1>1. FreePools \subseteq Nat
  BY ProcessesAssumption DEF FreePools, Pools
<1>2. IsWellFoundedOn(OpToRel(<, Nat), Nat)
  BY NatLessThanWellFounded
<1>3. \E k \in FreePools : \A j \in FreePools : <<j, k>> \notin OpToRel(<, Nat)
  BY <1>1, <1>2, WFMin
<1>4. PICK k \in FreePools : \A j \in FreePools : <<j, k>> \notin OpToRel(<, Nat)
  BY <1>3
<1>5. \A j \in FreePools : ~(j < k)
  BY <1>1, <1>4 DEF OpToRel
<1>6. \A j \in FreePools : k <= j
  BY <1>1, <1>5
<1> QED  BY <1>6 DEF assign_memory

\* The ring buffer's indices wrap at its size.
LEMMA NextSlot ==
  ASSUME NEW i \in Slots
  PROVE  (i + 1) % QueueSize = IF i = QueueSize - 1 THEN 0 ELSE i + 1
<1>1. i \in Nat /\ i < QueueSize /\ QueueSize \in Nat \ {0}
  BY ProcessesAssumption DEF Slots
<1>2. CASE i = QueueSize - 1
  BY <1>1, <1>2
<1>3. CASE i # QueueSize - 1
  BY <1>1, <1>3
<1> QED  BY <1>2, <1>3

-----------------------------------------------------------------------------
(* The steps with the exits taken out of them: many actions end the process *)
(* when the kernel or the operating system refuses what they ask for.      *)

\* Where an unlink daemon is at work.
WorkingUnlink == {"ud_poll", "ud_commit", "ud_unlink"}

\* Why a daemon that nobody kills ends: another one is there, it gets no pool, or it
\* could not map a pool it was told of.
Refused(p) ==
  /\ pc[p] \notin WorkingUnlink \cup {"ag_run", "ag_commit", "bm_map"}
  /\ pc[p] = "ud_add" => has_alive_unlink_daemon \/ FreePools = {}
  /\ pc[p] = "bm_add" => has_alive_bridge_manager(dom[p]) \/ FreePools = {}
  /\ pc[p] = "ag_claim" => agnocast_find_discovery_agent(dom[p]) # {}
  /\ pc[p] = "bm_run" => mapping[p] # {}

\* A process ends, always out of a live state; a daemon only if it is killed or
\* refused what it asks for.
Ending(p) ==
  /\ pc[p] \notin {"unborn", "dead"}
  /\ Refused(p) \/ (DaemonsKilled /\ pc[p] \in DaemonStates)
  /\ Exits(p)

\* A daemon of this kind is known to the kernel module.
Known(kind, d) ==
  \/ kind = "unlink" /\ has_alive_unlink_daemon
  \/ kind = "bridge" /\ has_alive_bridge_manager(d)
  \/ kind = "agent" /\ agnocast_find_discovery_agent(d) # {}

\* ADD_PROCESS succeeds, for an application or one of its daemons.
Enrolls(p, role, s) ==
  /\ \/ pc[p] = "add" /\ role = "application" /\ s = "unlink"
     \/ /\ pc[p] = "ud_add" /\ role = "unlink_daemon" /\ s = "ud_poll"
        /\ ~has_alive_unlink_daemon
     \/ /\ pc[p] = "bm_add" /\ role = "bridge_manager" /\ s = "bm_map"
        /\ ~has_alive_bridge_manager(dom[p])
  /\ FreePools # {}
  /\ agnocast_ioctl_add_process(p, role)
  /\ Goto(p, s)
  /\ \E h \in SUBSET {"unlink", "bridge", "agent"} :
       /\ hint' = [hint EXCEPT ![p] = h]
       /\ role = "application" => \A kind \in h : Known(kind, dom[p])
  /\ UNCHANGED <<agents, queueVars, dom, got, mapping, maps, shm, nextPid, apps>>

\* A process has mapped its own pool.
MapsOwn(p) ==
  /\ \/ pc[p] = "map" /\ Goto(p, "run")
     \/ pc[p] = "bm_map" /\ Goto(p, "bm_run")
  /\ shm' = shm \cup {p}
  /\ maps' = [maps EXCEPT ![p] = @ \cup {<<info[p].pool, p>>}]
  /\ UNCHANGED <<kernelVars, dom, hint, got, mapping, nextPid, apps>>

\* A subscriber has mapped the pools it was told of.
MapsOthers(q) ==
  /\ mapping[q] # {}
  /\ maps' = [maps EXCEPT ![q] = @ \cup mapping[q]]
  /\ mapping' = [mapping EXCEPT ![q] = {}]
  /\ UNCHANGED <<kernelVars, pc, dom, hint, got, shm, nextPid, apps>>

\* A discovery agent has claimed its domain.
ClaimsDomain(a) ==
  /\ pc[a] = "ag_claim"
  /\ agnocast_ioctl_add_discovery_agent(a)
  /\ Goto(a, "ag_run")
  /\ UNCHANGED <<info, mapped, queueVars, dom, hint, got, mapping, maps, shm,
                 nextPid, apps>>

\* The steps of one process.
ProcessEffect(p) ==
  \/ Ending(p)
  \/ \E role, s : Enrolls(p, role, s)
  \/ \E kind \in {"unlink", "bridge", "agent"} : Spawn(p, kind)
  \/ MapsOwn(p)
  \/ \E others \in SUBSET shm : ReferenceMemory(p, others)
  \/ MapsOthers(p)
  \/ agnocast_ioctl_get_exit_process(p)
  \/ agnocast_commit_exit(p)
  \/ ShmUnlink(p)
  \/ ResignsAsManager(p) /\ (DaemonsKilled \/ DomainEmpty(dom[p]))
  \/ ClaimsDomain(p)
  \/ DiscoveryAgentShouldExit(p)
  \/ DiscoveryAgentCommitExit(p)

\* The steps of the system.
Effect ==
  \/ \E d \in Domains : StartApplication(d)
  \/ \E p \in Pids : ProcessEffect(p)
  \/ WorkerStep

\* Every step is one of them.
LEMMA NextIsEffect ==
  ASSUME Lifecycle, Next
  PROVE  Effect
<1>1. CASE \E d \in Domains : StartApplication(d)
  BY <1>1 DEF Effect
<1>2. CASE WorkerStep
  BY <1>2 DEF Effect
<1>3. ASSUME NEW p \in Pids,
             \/ AddApplication(p)
             \/ AddUnlinkDaemon(p)
             \/ AddBridgeManager(p)
      PROVE  ProcessEffect(p)
  <2>1. CASE AddApplication(p)
    <3>1. CASE FreePools = {}
      BY <2>1, <3>1 DEF AddApplication, Ending, Refused, WorkingUnlink, ProcessEffect
    <3>2. CASE FreePools # {}
      <4> DEFINE h == {kind \in {"unlink", "bridge", "agent"} :
                  \/ kind = "unlink" /\ has_alive_unlink_daemon
                  \/ kind = "bridge" /\ has_alive_bridge_manager(dom[p])
                  \/ /\ kind = "agent"
                     /\ agnocast_find_discovery_agent(dom[p]) # {}}
      <4>1. /\ h \in SUBSET {"unlink", "bridge", "agent"}
            /\ \A kind \in h : Known(kind, dom[p])
        BY DEF Known
      <4>2. hint' = [hint EXCEPT ![p] = h]
        BY <2>1, <3>2 DEF AddApplication
      <4> HIDE DEF h
      <4>3. Enrolls(p, "application", "unlink")
        BY <2>1, <3>2, <4>1, <4>2 DEF AddApplication, Enrolls
      <4> QED  BY <4>3 DEF ProcessEffect
    <3> QED  BY <3>1, <3>2
  <2>2. hint' = hint => \E h \in SUBSET {"unlink", "bridge", "agent"} :
                          hint' = [hint EXCEPT ![p] = h]
    <3>1. hint[p] \in SUBSET {"unlink", "bridge", "agent"}
          /\ hint = [hint EXCEPT ![p] = hint[p]]
      BY DEF Lifecycle, TypeOK
    <3> QED  BY <3>1
  <2>3. CASE AddUnlinkDaemon(p)
    <3>1. CASE has_alive_unlink_daemon \/ FreePools = {}
      BY <2>3, <3>1 DEF AddUnlinkDaemon, Ending, Refused, WorkingUnlink, ProcessEffect
    <3>2. CASE ~(has_alive_unlink_daemon \/ FreePools = {})
      <4>1. Enrolls(p, "unlink_daemon", "ud_poll")
        BY <2>2, <2>3, <3>2 DEF AddUnlinkDaemon, Enrolls
      <4> QED  BY <4>1 DEF ProcessEffect
    <3> QED  BY <3>1, <3>2
  <2>4. CASE AddBridgeManager(p)
    <3>1. CASE has_alive_bridge_manager(dom[p]) \/ FreePools = {}
      BY <2>4, <3>1 DEF AddBridgeManager, Ending, Refused, WorkingUnlink, ProcessEffect
    <3>2. CASE ~(has_alive_bridge_manager(dom[p]) \/ FreePools = {})
      <4>1. Enrolls(p, "bridge_manager", "bm_map")
        BY <2>2, <2>4, <3>2 DEF AddBridgeManager, Enrolls
      <4> QED  BY <4>1 DEF ProcessEffect
    <3> QED  BY <3>1, <3>2
  <2> QED  BY <1>3, <2>1, <2>3, <2>4
<1>4. ASSUME NEW p \in Pids,
             MapOwnPool(p) \/ MapReadOnly(p) \/ AddDiscoveryAgent(p) \/ ProcessEnds(p)
      PROVE  ProcessEffect(p)
  <2>1. CASE MapOwnPool(p)
    <3>1. pc[p] = "bm_map" => ~Occupied(p, info[p].pool)
      BY DEF Lifecycle, MapsWhere, MapStates, Occupied
    <3> QED
      BY <2>1, <3>1 DEF MapOwnPool, map_writable_area, Ending, Refused, WorkingUnlink,
                        MapsOwn, ProcessEffect
  <2>2. CASE MapReadOnly(p)
    <3>1. pc[p] \in MapStates
      BY <2>2 DEF MapReadOnly, Lifecycle, MapsWhere
    <3> QED
      BY <2>2, <3>1 DEF MapReadOnly, MapStates, Ending, Refused, WorkingUnlink, MapsOthers, ProcessEffect
  <2>3. CASE AddDiscoveryAgent(p)
    BY <2>3 DEF AddDiscoveryAgent, Ending, Refused, WorkingUnlink, ClaimsDomain, ProcessEffect
  <2>4. CASE ProcessEnds(p)
    BY <2>4 DEF ProcessEnds, Ending, Refused, WorkingUnlink, ProcessEffect, AppStates, DaemonStates,
                UnlinkStates, ManagerStates, AgentStates
  <2> QED  BY <1>4, <2>1, <2>2, <2>3, <2>4
<1>5. ASSUME NEW p \in Pids,
             \/ \E kind \in {"unlink", "bridge", "agent"} : Spawn(p, kind)
             \/ \E others \in SUBSET shm : ReferenceMemory(p, others)
             \/ agnocast_ioctl_get_exit_process(p)
             \/ agnocast_commit_exit(p)
             \/ ShmUnlink(p)
             \/ CheckAndRequestBridgeShutdown(p)
             \/ NotifyBridgeShutdown(p)
             \/ DiscoveryAgentShouldExit(p)
             \/ DiscoveryAgentCommitExit(p)
      PROVE  ProcessEffect(p)
  BY <1>5 DEF CheckAndRequestBridgeShutdown, NotifyBridgeShutdown, ProcessEffect
<1> QED  BY <1>1, <1>2, <1>3, <1>4, <1>5 DEF Next, UnlinkDaemonStep, Effect

\* What an exit does to the ring buffer keeps its types.
LEMMA EnqueueTypes ==
  ASSUME TypeOK, NEW p \in Pids, Exits(p)
  PROVE  /\ queue' \in [Slots -> Pids \cup {None}]
         /\ tail' \in Slots
         /\ newPid' \in BOOLEAN
         /\ dropped' \subseteq Pids
         /\ \A i \in Slots : queue'[i] \in {queue[i], p}
<1>1. tail \in Slots /\ queue \in [Slots -> Pids \cup {None}] /\ newPid \in BOOLEAN
      /\ dropped \subseteq Pids
  BY DEF TypeOK
<1>2. (tail + 1) % QueueSize \in Slots
  BY <1>1, NextSlot, ProcessesAssumption DEF Slots
<1> QED
  BY <1>1, <1>2 DEF Exits, agnocast_enqueue_exit_pid

-----------------------------------------------------------------------------
(* Part 1 is inductive.                                                    *)

\* Before anything has started.
LEMMA LifecycleInit == Init => Lifecycle
<1> SUFFICES ASSUME Init PROVE Lifecycle  OBVIOUS
<1> USE ProcessesAssumption DEF Init
<1>1. dom \in [Pids -> Domains]
  <2>1. (CHOOSE d \in Domains : TRUE) \in Domains
    OBVIOUS
  <2> DEFINE d0 == CHOOSE d \in Domains : TRUE
  <2>2. dom = [p \in Pids |-> d0]
    OBVIOUS
  <2> HIDE DEF d0, Init
  <2> QED  BY <2>1, <2>2 DEF d0
<1>2. TypeOK
  <2>1. DOMAIN info = {} /\ info \in [{} -> Info]
    OBVIOUS
  <2>2. head \in Slots /\ tail \in Slots /\ nextPid \in 1 .. (MaxPid + 1)
        /\ apps \in 0 .. MaxApps
    BY DEF Slots
  <2>3. pc \in [Pids -> AppStates \cup DaemonStates \cup {"unborn", "dead"}]
    OBVIOUS
  <2> QED  BY <1>1, <2>1, <2>2, <2>3 DEF TypeOK
<1>3. /\ BornInOrder /\ RegistryFollows /\ AgentsFollow
      /\ GotDead /\ QueuedDead /\ MapsWhere
  BY DEF BornInOrder, RegistryFollows, AgentsFollow, GotDead, QueuedDead,
         MapsWhere, Pids, Pools, Slots, None, RegStates, MapStates
<1> QED  BY <1>2, <1>3 DEF Lifecycle

\* An exit: the pid goes into the ring buffer, the address space is gone.
LEMMA LifecycleEnding ==
  ASSUME Lifecycle, NEW p \in Pids, Ending(p)
  PROVE  Lifecycle'
<1> USE DEF Ending
<1>1. TypeOK'
  BY EnqueueTypes DEF Lifecycle, TypeOK, Exits, None
<1>2. BornInOrder' /\ RegistryFollows' /\ AgentsFollow'
  BY ProcessesAssumption DEF Exits, Lifecycle, TypeOK, BornInOrder, RegistryFollows, AgentsFollow, RegStates, Pids
<1>3. GotDead' /\ MapsWhere'
  BY DEF Exits, Lifecycle, TypeOK, GotDead, MapsWhere, None
<1>4. QueuedDead'
  <2>1. \A i \in Slots : queue'[i] # None => pc'[queue'[i]] = "dead"
    <3> TAKE i \in Slots
    <3>1. queue'[i] \in {queue[i], p} /\ queue[i] \in Pids \cup {None}
      BY EnqueueTypes DEF Lifecycle, TypeOK
    <3> QED  BY <3>1 DEF Exits, Lifecycle, TypeOK, QueuedDead
  <2>2. cleaning' # None => pc'[cleaning'] = "dead"
    BY DEF Exits, Lifecycle, TypeOK, QueuedDead
  <2> QED  BY <2>1, <2>2 DEF QueuedDead
<1> QED  BY <1>1, <1>2, <1>3, <1>4 DEF Lifecycle

\* An application starts outside the kernel's tables.
LEMMA LifecycleStart ==
  ASSUME Lifecycle, NEW d \in Domains, StartApplication(d)
  PROVE  Lifecycle'
<1> USE ProcessesAssumption DEF StartApplication, Goto, kernelVars
<1>1. nextPid \in Pids /\ pc[nextPid] = "unborn"
  BY DEF Lifecycle, TypeOK, BornInOrder, Pids
<1>2. TypeOK'
  <2>1. nextPid' \in 1 .. (MaxPid + 1) /\ apps' \in 0 .. MaxApps
    BY DEF Lifecycle, TypeOK
  <2> QED  BY <1>1, <2>1 DEF Lifecycle, TypeOK, AppStates
<1>3. BornInOrder' /\ RegistryFollows' /\ AgentsFollow'
  BY <1>1 DEF Lifecycle, TypeOK, BornInOrder, RegistryFollows, AgentsFollow,
              RegStates, Pids
<1>4. GotDead' /\ QueuedDead' /\ MapsWhere'
  BY <1>1 DEF Lifecycle, TypeOK, GotDead, QueuedDead, MapsWhere, MapStates
<1> QED  BY <1>2, <1>3, <1>4 DEF Lifecycle

\* ADD_PROCESS enters the process into the registry.
LEMMA LifecycleEnrolls ==
  ASSUME Lifecycle, NEW p \in Pids, NEW role, NEW s, Enrolls(p, role, s)
  PROVE  Lifecycle'
<1> DEFINE k == assign_memory
<1>1. k \in Pools
  BY AssignMemoryFree DEF Enrolls, FreePools
<1>2. /\ role \in {"application", "bridge_manager", "unlink_daemon"}
      /\ s \in {"unlink", "ud_poll", "bm_map"}
      /\ pc[p] \in {"add", "ud_add", "bm_add"}
      /\ pc' = [pc EXCEPT ![p] = s]
  BY DEF Enrolls, Goto
<1>3. /\ DOMAIN info' = DOMAIN info \cup {p}
      /\ info'[p] = [exited |-> FALSE, role |-> role, pool |-> k]
      /\ \A q \in DOMAIN info : q # p => info'[q] = info[q]
      /\ info' = [q \in DOMAIN info \cup {p} |-> info'[q]]
      /\ mapped' = [mapped EXCEPT ![k] = {p}]
  BY DEF Enrolls, agnocast_ioctl_add_process
<1>4. /\ UNCHANGED <<agents, queue, head, tail, newPid, worker, cleaning, dropped,
                     dom, got, mapping, maps, shm, nextPid, apps>>
      /\ hint' \in [Pids -> SUBSET {"unlink", "bridge", "agent"}]
  BY DEF Enrolls, queueVars, Lifecycle, TypeOK
<1> HIDE DEF k
<1>5. TypeOK'
  <2>1. info'[p] \in Info
    BY <1>1, <1>2, <1>3 DEF Info
  <2>2. DOMAIN info' \subseteq Pids /\ info' \in [DOMAIN info' -> Info]
    BY <1>3, <2>1 DEF Lifecycle, TypeOK
  <2> QED
    BY <1>1, <1>2, <1>3, <1>4, <2>2
    DEF Lifecycle, TypeOK, AppStates, DaemonStates, UnlinkStates, ManagerStates
<1>6. p \notin DOMAIN info
  BY <1>2 DEF Lifecycle, RegistryFollows, RegStates
<1>7. BornInOrder' /\ RegistryFollows' /\ AgentsFollow'
  BY <1>2, <1>3, <1>4, <1>6
  DEF Lifecycle, TypeOK, BornInOrder, RegistryFollows, AgentsFollow, RegStates, Pids
<1>8. GotDead' /\ QueuedDead' /\ MapsWhere'
  BY <1>2, <1>3, <1>4, <1>6
  DEF Lifecycle, TypeOK, GotDead, QueuedDead, MapsWhere, MapStates
<1> QED  BY <1>5, <1>7, <1>8 DEF Lifecycle

\* fork gives a child that is not registered yet.
LEMMA LifecycleSpawn ==
  ASSUME Lifecycle, NEW p \in Pids, NEW kind \in {"unlink", "bridge", "agent"},
         Spawn(p, kind)
  PROVE  Lifecycle'
<1> DEFINE s == AfterSpawn(kind)
           e == Entry(kind)
<1>1. /\ s \in {"bridge", "agent", "map"} /\ e \in {"ud_add", "bm_add", "ag_claim"}
      /\ pc[p] \in {"unlink", "bridge", "agent"}
  BY DEF AfterSpawn, Entry, Spawn
<1>2. maps[p] = {}
  BY <1>1 DEF Lifecycle, MapsWhere, MapStates
<1>3. UNCHANGED <<info, agents, mapped, queue, head, tail, newPid, worker, cleaning,
                  dropped, got, mapping, shm, apps>>
  BY DEF Spawn, kernelVars
<1>4. hint' \in [Pids -> SUBSET {"unlink", "bridge", "agent"}]
  BY DEF Spawn, Lifecycle, TypeOK
<1>5. CASE nextPid <= MaxPid /\ pc' = [pc EXCEPT ![p] = s, ![nextPid] = e]
           /\ dom' = [dom EXCEPT ![nextPid] = dom[p]]
           /\ maps' = [maps EXCEPT ![nextPid] = maps[p]]
           /\ nextPid' = nextPid + 1
  <2> HIDE DEF s, e
  <2>1. nextPid \in Pids /\ pc[nextPid] = "unborn" /\ nextPid # p
    BY <1>1, <1>5, ProcessesAssumption DEF Lifecycle, TypeOK, BornInOrder, Pids
  <2>2. TypeOK'
    <3>1. nextPid' \in 1 .. (MaxPid + 1)
      BY <1>5, ProcessesAssumption DEF Lifecycle, TypeOK
    <3> QED
      BY <1>1, <1>3, <1>4, <1>5, <2>1, <3>1
      DEF Lifecycle, TypeOK, AppStates, DaemonStates, UnlinkStates, ManagerStates,
          AgentStates
  <2>3. BornInOrder' /\ RegistryFollows' /\ AgentsFollow'
    <3>1. BornInOrder'
      BY <1>1, <1>5, <2>1, ProcessesAssumption DEF Lifecycle, TypeOK, BornInOrder, Pids
    <3>2. RegistryFollows'
      BY <1>1, <1>3, <1>5, <2>1 DEF Lifecycle, TypeOK, RegistryFollows, RegStates
    <3>3. AgentsFollow'
      BY <1>1, <1>3, <1>5, <2>1 DEF Lifecycle, TypeOK, AgentsFollow
    <3> QED  BY <3>1, <3>2, <3>3
  <2>4. GotDead' /\ QueuedDead' /\ MapsWhere'
    BY <1>1, <1>2, <1>3, <1>5, <2>1
    DEF Lifecycle, TypeOK, GotDead, QueuedDead, MapsWhere, MapStates
  <2> QED  BY <2>2, <2>3, <2>4 DEF Lifecycle
<1>6. CASE pc' = [pc EXCEPT ![p] = s] /\ UNCHANGED <<dom, maps, nextPid>>
  <2> HIDE DEF s, e
  <2>1. TypeOK'
    BY <1>1, <1>3, <1>4, <1>6 DEF Lifecycle, TypeOK, AppStates
  <2>2. BornInOrder' /\ RegistryFollows' /\ AgentsFollow'
    BY <1>1, <1>3, <1>6
    DEF Lifecycle, TypeOK, BornInOrder, RegistryFollows, AgentsFollow, RegStates, Pids
  <2>3. GotDead' /\ QueuedDead' /\ MapsWhere'
    BY <1>1, <1>3, <1>6
    DEF Lifecycle, TypeOK, GotDead, QueuedDead, MapsWhere, MapStates
  <2> QED  BY <2>1, <2>2, <2>3 DEF Lifecycle
<1> QED  BY <1>5, <1>6 DEF Spawn, Inherited, Goto

\* Mapping changes address spaces of registered processes only.
LEMMA LifecycleMapping ==
  ASSUME Lifecycle, NEW p \in Pids,
         MapsOwn(p) \/ MapsOthers(p) \/ \E others \in SUBSET shm : ReferenceMemory(p, others)
  PROVE  Lifecycle'
<1>1. CASE MapsOwn(p)
  <2>1. info[p].pool \in Pools
    BY <1>1 DEF MapsOwn, Lifecycle, TypeOK, RegistryFollows, RegStates, Info
  <2>2. TypeOK'
    BY <1>1, <2>1 DEF MapsOwn, kernelVars, Goto, Lifecycle, TypeOK, AppStates,
                      DaemonStates, ManagerStates
  <2>3. BornInOrder' /\ RegistryFollows' /\ AgentsFollow'
    BY <1>1 DEF MapsOwn, kernelVars, Goto, Lifecycle, TypeOK, BornInOrder,
                RegistryFollows, AgentsFollow, RegStates
  <2>4. GotDead' /\ QueuedDead' /\ MapsWhere'
    BY <1>1 DEF MapsOwn, kernelVars, Goto, Lifecycle, TypeOK, GotDead, QueuedDead,
                MapsWhere, MapStates
  <2> QED  BY <2>2, <2>3, <2>4 DEF Lifecycle
<1>2. CASE MapsOthers(p)
  BY <1>2 DEF MapsOthers, kernelVars, Lifecycle, TypeOK, BornInOrder,
              RegistryFollows, AgentsFollow, GotDead, QueuedDead, MapsWhere
<1>3. ASSUME NEW others \in SUBSET shm, ReferenceMemory(p, others)
      PROVE  Lifecycle'
  <2>1. /\ pc[p] \in MapStates
        /\ UNCHANGED <<info, agents, queue, head, tail, newPid, worker, cleaning,
                       dropped, pc, dom, hint, got, maps, shm, nextPid, apps>>
    BY <1>3 DEF ReferenceMemory, queueVars, MapStates
  <2>2. mapped' \in [Pools -> SUBSET Pids]
    BY <1>3 DEF ReferenceMemory, reference_memory, Lifecycle, TypeOK
  <2>3. mapping' \in [Pids -> SUBSET (Pools \X Pids)]
    <3> DEFINE M == {<<info[q].pool, q>> : q \in others}
    <3>1. \A q \in others : q \in Pids /\ info[q].pool \in Pools
      BY <1>3 DEF ReferenceMemory, Lifecycle, TypeOK, Info
    <3>2. M \in SUBSET (Pools \X Pids)
      BY <3>1
    <3> HIDE DEF M
    <3>3. mapping' = [mapping EXCEPT ![p] = M]
      BY <1>3 DEF ReferenceMemory, M
    <3> QED  BY <3>2, <3>3 DEF Lifecycle, TypeOK
  <2>4. TypeOK'
    BY <2>1, <2>2, <2>3 DEF Lifecycle, TypeOK
  <2>5. \A q \in Pids : q # p => mapping'[q] = mapping[q]
    BY <1>3 DEF ReferenceMemory, Lifecycle, TypeOK
  <2>6. MapsWhere'
    BY <2>1, <2>5 DEF Lifecycle, MapsWhere
  <2>7. BornInOrder' /\ RegistryFollows' /\ AgentsFollow' /\ GotDead' /\ QueuedDead'
    BY <2>1 DEF Lifecycle, BornInOrder, RegistryFollows, AgentsFollow, GotDead,
                QueuedDead
  <2> QED  BY <2>4, <2>6, <2>7 DEF Lifecycle
<1> QED  BY <1>1, <1>2, <1>3

\* GET_EXIT_PROCESS hands out and forgets the dead only.
LEMMA LifecycleUnlink ==
  ASSUME Lifecycle, NEW u \in Pids,
         \/ agnocast_ioctl_get_exit_process(u)
         \/ agnocast_commit_exit(u)
         \/ ShmUnlink(u)
  PROVE  Lifecycle'
<1>1. CASE agnocast_ioctl_get_exit_process(u)
  <2>1. /\ pc[u] = "ud_poll" /\ pc' = [pc EXCEPT ![u] = "ud_commit"]
        /\ UNCHANGED <<info, agents, mapped, queue, head, tail, newPid, worker,
                       cleaning, dropped, dom, hint, mapping, maps, shm, nextPid, apps>>
    BY <1>1 DEF agnocast_ioctl_get_exit_process, kernelVars, Goto
  <2>2. PICK x : /\ got' = [got EXCEPT ![u] = x]
                 /\ x = None \/ (x \in DOMAIN info /\ info[x].exited)
    BY <1>1 DEF agnocast_ioctl_get_exit_process
  <2>3. x # None => x \in Pids /\ pc[x] = "dead" /\ x # u
    BY <2>1, <2>2 DEF Lifecycle, TypeOK, RegistryFollows
  <2>4. TypeOK'
    BY <2>1, <2>2, <2>3 DEF Lifecycle, TypeOK, DaemonStates, UnlinkStates
  <2>5. BornInOrder' /\ RegistryFollows' /\ AgentsFollow'
    BY <2>1 DEF Lifecycle, TypeOK, BornInOrder, RegistryFollows, AgentsFollow, RegStates
  <2>6. GotDead'
    BY <2>1, <2>2, <2>3 DEF Lifecycle, TypeOK, GotDead
  <2>7. QueuedDead' /\ MapsWhere'
    BY <2>1 DEF Lifecycle, TypeOK, QueuedDead, MapsWhere, MapStates
  <2> QED  BY <2>4, <2>5, <2>6, <2>7 DEF Lifecycle
<1>2. CASE agnocast_commit_exit(u)
  <2> DEFINE s == IF got[u] # None THEN "ud_unlink"
                  ELSE IF \A p \in DOMAIN info \ {got[u]} : info[p].role = "unlink_daemon"
                       THEN "ud_exit" ELSE "ud_poll"
             keep == IF LeavesRegistry(u, DOMAIN info \ {got[u]})
                     THEN (DOMAIN info \ {got[u]}) \ {u} ELSE DOMAIN info \ {got[u]}
  <2>1. /\ pc[u] = "ud_commit" /\ pc' = [pc EXCEPT ![u] = s]
        /\ info' = [p \in keep |-> info[p]]
        /\ UNCHANGED <<agents, queue, head, tail, newPid, worker, cleaning, dropped,
                       dom, hint, got, mapping, maps, shm, nextPid, apps>>
    BY <1>2 DEF agnocast_commit_exit, queueVars, Goto
  <2>2. /\ s \in {"ud_unlink", "ud_exit", "ud_poll"}
        /\ got[u] # None => s = "ud_unlink"
        /\ u \notin keep => s = "ud_exit" \/ u \notin DOMAIN info \ {got[u]}
    BY DEF LeavesRegistry
  <2>3. keep \subseteq DOMAIN info
        /\ \A p \in DOMAIN info : p = u \/ p = got[u] \/ p \in keep
    OBVIOUS
  <2>4. mapped' \in [Pools -> SUBSET Pids]
    BY <1>2 DEF agnocast_commit_exit, free_memory, Lifecycle, TypeOK
  <2>5. got[u] # None => pc[got[u]] = "dead" /\ got[u] # u
    BY <2>1 DEF Lifecycle, GotDead
  <2> HIDE DEF s, keep
  <2>6. TypeOK'
    BY <2>1, <2>2, <2>3, <2>4 DEF Lifecycle, TypeOK, DaemonStates, UnlinkStates
  <2>7. BornInOrder' /\ AgentsFollow'
    BY <2>1, <2>2 DEF Lifecycle, TypeOK, BornInOrder, AgentsFollow
  <2>8. RegistryFollows'
    <3>1. u \in DOMAIN info /\ (s # "ud_exit" => u \in keep)
      <4>1. u \in DOMAIN info
        BY <2>1 DEF Lifecycle, RegistryFollows, RegStates
      <4>2. u # got[u]
        BY <2>5, ProcessesAssumption DEF None, Pids
      <4> QED  BY <2>2, <4>1, <4>2
    <3>2. DOMAIN info' = keep /\ \A p \in keep : info'[p] = info[p]
      BY <2>1
    <3>3. \A p \in keep : pc'[p] \in RegStates \cup {"dead"}
      <4> TAKE p \in keep
      <4>1. p \in Pids /\ pc[p] \in RegStates \cup {"dead"}
        BY <2>3 DEF Lifecycle, TypeOK, RegistryFollows
      <4>2. CASE p = u
        <5>1. s # "ud_exit"
          BY <4>2 DEF s, keep, LeavesRegistry
        <5> QED  BY <2>1, <2>2, <4>2, <5>1 DEF Lifecycle, TypeOK, RegStates
      <4>3. CASE p # u
        BY <2>1, <4>1, <4>3 DEF Lifecycle, TypeOK
      <4> QED  BY <4>2, <4>3
    <3>4. \A p \in Pids : pc'[p] \in RegStates => p \in keep /\ ~info[p].exited
      <4> TAKE p \in Pids
      <4>1. CASE p = u
        BY <2>1, <2>2, <3>1, <4>1 DEF Lifecycle, TypeOK, RegistryFollows, RegStates
      <4>2. CASE p # u
        BY <2>1, <2>3, <2>5, <4>2, ProcessesAssumption
        DEF Lifecycle, TypeOK, RegistryFollows, RegStates, None, Pids
      <4> QED  BY <4>1, <4>2
    <3> QED  BY <3>2, <3>3, <3>4 DEF RegistryFollows
  <2>9. GotDead'
    BY <2>1, <2>2, <2>3 DEF Lifecycle, TypeOK, GotDead
  <2>10. QueuedDead' /\ MapsWhere'
    BY <2>1, <2>2 DEF Lifecycle, TypeOK, QueuedDead, MapsWhere, MapStates
  <2> QED  BY <2>6, <2>7, <2>8, <2>9, <2>10 DEF Lifecycle
<1>3. CASE ShmUnlink(u)
  <2> USE <1>3 DEF ShmUnlink, Goto, kernelVars, Lifecycle, TypeOK
  <2>1. TypeOK'
    BY DEF DaemonStates, UnlinkStates, None
  <2>2. BornInOrder' /\ RegistryFollows' /\ AgentsFollow'
    BY DEF BornInOrder, RegistryFollows, AgentsFollow, RegStates
  <2>3. GotDead' /\ QueuedDead' /\ MapsWhere'
    BY DEF GotDead, QueuedDead, MapsWhere, MapStates
  <2> QED  BY <2>1, <2>2, <2>3
<1> QED  BY <1>1, <1>2, <1>3

\* Bridge manager and agent leave the tables before they exit.
LEMMA LifecycleDaemons ==
  ASSUME Lifecycle, NEW a \in Pids,
         \/ ResignsAsManager(a)
         \/ ClaimsDomain(a)
         \/ DiscoveryAgentShouldExit(a)
         \/ DiscoveryAgentCommitExit(a)
  PROVE  Lifecycle'
<1>1. CASE ResignsAsManager(a)
  <2>1. /\ pc[a] = "bm_run" /\ pc' = [pc EXCEPT ![a] = "bm_exit"]
        /\ info' = [info EXCEPT ![a].role = "application"]
        /\ UNCHANGED <<agents, mapped, queue, head, tail, newPid, worker, cleaning,
                       dropped, dom, hint, got, mapping, maps, shm, nextPid, apps>>
    BY <1>1 DEF ResignsAsManager, agnocast_ioctl_notify_bridge_shutdown, Goto, queueVars
  <2>2. a \in DOMAIN info
    BY <2>1 DEF Lifecycle, RegistryFollows, RegStates
  <2>3. /\ DOMAIN info' = DOMAIN info
        /\ info' \in [DOMAIN info -> Info]
        /\ \A p \in DOMAIN info : info'[p].exited = info[p].exited
    <3>1. info[a] \in Info /\ info'[a] = [info[a] EXCEPT !.role = "application"]
      BY <2>1, <2>2 DEF Lifecycle, TypeOK
    <3>2. info'[a] \in Info /\ info'[a].exited = info[a].exited
      BY <3>1 DEF Info
    <3> QED  BY <2>1, <3>2 DEF Lifecycle, TypeOK
  <2>4. TypeOK'
    BY <2>1, <2>3 DEF Lifecycle, TypeOK, DaemonStates, ManagerStates
  <2>5. BornInOrder' /\ RegistryFollows' /\ AgentsFollow'
    BY <2>1, <2>3 DEF Lifecycle, TypeOK, BornInOrder, RegistryFollows, AgentsFollow,
                      RegStates
  <2>6. GotDead' /\ QueuedDead' /\ MapsWhere'
    BY <2>1, <2>3 DEF Lifecycle, TypeOK, GotDead, QueuedDead, MapsWhere, MapStates
  <2> QED  BY <2>4, <2>5, <2>6 DEF Lifecycle
<1>2. CASE ClaimsDomain(a) \/ DiscoveryAgentShouldExit(a) \/ DiscoveryAgentCommitExit(a)
  <2>1. /\ UNCHANGED <<info, mapped, queue, head, tail, newPid, worker, cleaning,
                       dropped, dom, hint, got, mapping, maps, shm, nextPid, apps>>
        /\ \/ pc[a] = "ag_claim" /\ pc' = [pc EXCEPT ![a] = "ag_run"]
              /\ agents' = agents \cup {a}
           \/ pc[a] \in {"ag_run", "ag_commit"} /\ agents' = agents
              /\ \E s \in {"ag_run", "ag_commit"} : pc' = [pc EXCEPT ![a] = s]
           \/ pc[a] = "ag_commit" /\ pc' = [pc EXCEPT ![a] = "ag_exit"]
              /\ agents' = agents \ {a}
    BY <1>2 DEF ClaimsDomain, DiscoveryAgentShouldExit, DiscoveryAgentCommitExit,
                agnocast_ioctl_add_discovery_agent, Goto, queueVars, kernelVars,
                agnocast_remove_discovery_agent_by_pid
  <2>2. TypeOK'
    BY <2>1 DEF Lifecycle, TypeOK, DaemonStates, AgentStates
  <2>3. BornInOrder' /\ RegistryFollows'
    BY <2>1 DEF Lifecycle, TypeOK, BornInOrder, RegistryFollows, RegStates
  <2>4. AgentsFollow'
    BY <2>1 DEF Lifecycle, TypeOK, AgentsFollow
  <2>5. GotDead' /\ QueuedDead' /\ MapsWhere'
    BY <2>1 DEF Lifecycle, TypeOK, GotDead, QueuedDead, MapsWhere, MapStates
  <2> QED  BY <2>2, <2>3, <2>4, <2>5 DEF Lifecycle
<1> QED  BY <1>1, <1>2

\* What the cleanup of an exit leaves of the registry.
LEMMA CleanupInfo ==
  ASSUME Lifecycle, agnocast_process_exit_cleanup
  PROVE  /\ DOMAIN info' \subseteq DOMAIN info
         /\ DOMAIN info \ {cleaning} \subseteq DOMAIN info'
         /\ info' \in [DOMAIN info' -> Info]
         /\ \A q \in DOMAIN info' :
              /\ info'[q].pool = info[q].pool
              /\ info'[q].role = info[q].role
              /\ q # cleaning => info'[q] = info[q]
              /\ q = cleaning => info'[q].exited
         /\ (cleaning \in DOMAIN info /\ info[cleaning].role # "unlink_daemon") =>
              cleaning \in DOMAIN info'
<1> DEFINE c == cleaning
<1>1. info \in [DOMAIN info -> Info]
  BY DEF Lifecycle, TypeOK
<1>2. CASE c \notin DOMAIN info
  <2>1. info' = info
    BY <1>2 DEF agnocast_process_exit_cleanup
  <2> QED  BY <1>1, <1>2, <2>1
<1>3. CASE c \in DOMAIN info /\ info[c].role = "unlink_daemon"
  <2>1. info' = [q \in DOMAIN info \ {c} |-> info[q]]
    BY <1>3 DEF agnocast_process_exit_cleanup, AfterCleanup
  <2> QED  BY <1>1, <1>3, <2>1
<1>4. CASE c \in DOMAIN info /\ info[c].role # "unlink_daemon"
  <2>1. info' = [info EXCEPT ![c].exited = TRUE]
    BY <1>4 DEF agnocast_process_exit_cleanup, AfterCleanup
  <2>2. info[c] \in Info /\ info'[c] = [info[c] EXCEPT !.exited = TRUE]
    BY <1>1, <1>4, <2>1
  <2>3. /\ info'[c] \in Info /\ info'[c].exited
        /\ info'[c].pool = info[c].pool /\ info'[c].role = info[c].role
    BY <2>2 DEF Info
  <2> QED  BY <1>1, <1>4, <2>1, <2>3
<1> QED  BY <1>2, <1>3, <1>4

\* The exit worker cleans up after the dead only.
LEMMA LifecycleWorker ==
  ASSUME Lifecycle, WorkerStep
  PROVE  Lifecycle'
<1>1. CASE WorkerWakes
  BY <1>1 DEF WorkerWakes, userVars, Lifecycle, TypeOK, BornInOrder,
              RegistryFollows, AgentsFollow, GotDead, QueuedDead, MapsWhere
<1>2. CASE WorkerDequeues
  <2>1. UNCHANGED <<info, agents, mapped, tail, dropped, pc, dom, hint, got, mapping,
                    maps, shm, nextPid, apps>>
    BY <1>2 DEF WorkerDequeues, userVars
  <2>2. BornInOrder' /\ RegistryFollows' /\ AgentsFollow' /\ GotDead' /\ MapsWhere'
    BY <2>1 DEF Lifecycle, BornInOrder, RegistryFollows, AgentsFollow, GotDead, MapsWhere
  <2>3. head \in Slots /\ queue[head] \in Pids \cup {None}
    BY DEF Lifecycle, TypeOK
  <2>4. (head + 1) % QueueSize \in Slots
    BY <2>3, NextSlot, ProcessesAssumption DEF Slots
  <2>5. TypeOK'
    BY <1>2, <2>1, <2>3, <2>4 DEF WorkerDequeues, Lifecycle, TypeOK
  <2>6. QueuedDead'
    BY <1>2, <2>1, <2>3 DEF WorkerDequeues, Lifecycle, TypeOK, QueuedDead
  <2> QED  BY <2>2, <2>5, <2>6 DEF Lifecycle
<1>3. CASE agnocast_process_exit_cleanup
  <2>1. /\ UNCHANGED <<queue, head, tail, newPid, dropped, pc, dom, hint, got, mapping,
                       maps, shm, nextPid, apps>>
        /\ worker' = "drain" /\ cleaning' = None
        /\ agents' = agents \ {cleaning}
    BY <1>3 DEF agnocast_process_exit_cleanup, userVars,
                agnocast_remove_discovery_agent_by_pid
  <2>2. mapped' \in [Pools -> SUBSET Pids]
    BY <1>3 DEF agnocast_process_exit_cleanup, free_memory, Lifecycle, TypeOK
  <2>3. /\ DOMAIN info' \subseteq DOMAIN info
        /\ DOMAIN info \ {cleaning} \subseteq DOMAIN info'
        /\ info' \in [DOMAIN info' -> Info]
        /\ \A q \in DOMAIN info' : (q # cleaning => info'[q] = info[q])
                                   /\ (q = cleaning => info'[q].exited)
    BY <1>3, CleanupInfo
  <2>4. cleaning \in Pids => pc[cleaning] = "dead"
    BY ProcessesAssumption DEF Lifecycle, QueuedDead, None, Pids
  <2>5. TypeOK'
    BY <2>1, <2>2, <2>3 DEF Lifecycle, TypeOK
  <2>6. BornInOrder' /\ MapsWhere'
    BY <2>1 DEF Lifecycle, BornInOrder, MapsWhere
  <2>7. RegistryFollows'
    BY <2>1, <2>3, <2>4 DEF Lifecycle, TypeOK, RegistryFollows, RegStates
  <2>8. AgentsFollow'
    BY <2>1, <2>4 DEF Lifecycle, TypeOK, AgentsFollow
  <2>9. GotDead' /\ QueuedDead'
    BY <2>1, <2>3 DEF Lifecycle, TypeOK, GotDead, QueuedDead
  <2> QED  BY <2>5, <2>6, <2>7, <2>8, <2>9 DEF Lifecycle
<1> QED  BY <1>1, <1>2, <1>3 DEF WorkerStep

\* No step breaks the life cycle.
LEMMA LifecycleNext ==
  ASSUME Lifecycle, [Next]_vars
  PROVE  Lifecycle'
<1>1. CASE Next
  <2>1. Effect
    BY <1>1, NextIsEffect
  <2>2. ASSUME NEW d \in Domains, StartApplication(d) PROVE Lifecycle'
    BY <2>2, LifecycleStart
  <2>3. ASSUME NEW p \in Pids, ProcessEffect(p) PROVE Lifecycle'
    <3>1. CASE Ending(p)
      BY <3>1, LifecycleEnding
    <3>2. CASE \E role, s : Enrolls(p, role, s)
      BY <3>2, LifecycleEnrolls
    <3>3. CASE \E kind \in {"unlink", "bridge", "agent"} : Spawn(p, kind)
      BY <3>3, LifecycleSpawn
    <3>4. CASE MapsOwn(p) \/ MapsOthers(p) \/ \E others \in SUBSET shm : ReferenceMemory(p, others)
      BY <3>4, LifecycleMapping
    <3>5. CASE \/ agnocast_ioctl_get_exit_process(p)
               \/ agnocast_commit_exit(p)
               \/ ShmUnlink(p)
      BY <3>5, LifecycleUnlink
    <3>6. CASE \/ ResignsAsManager(p)
               \/ ClaimsDomain(p)
               \/ DiscoveryAgentShouldExit(p)
               \/ DiscoveryAgentCommitExit(p)
      BY <3>6, LifecycleDaemons
    <3> QED  BY <2>3, <3>1, <3>2, <3>3, <3>4, <3>5, <3>6 DEF ProcessEffect
  <2>4. CASE WorkerStep
    BY <2>4, LifecycleWorker
  <2> QED  BY <2>1, <2>2, <2>3, <2>4 DEF Effect
<1>2. CASE UNCHANGED vars
  BY <1>2 DEF vars, Lifecycle, TypeOK, BornInOrder, RegistryFollows, AgentsFollow,
              GotDead, QueuedDead, MapsWhere
<1> QED  BY <1>1, <1>2

-----------------------------------------------------------------------------
(* The inductive invariant, part 2: memory.                                *)

\* Registered, and the exit not cleaned up yet.
Alive == {p \in DOMAIN info : ~info[p].exited}

\* What a process has mapped or is about to map.
Held(p) == maps[p] \cup mapping[p]

\* A live process is on the list of its own pool, which is nobody else's.
PoolsOwned ==
  /\ \A p \in Alive : p \in mapped[info[p].pool]
  /\ \A p, q \in Alive : info[p].pool = info[q].pool => p = q

\* Who holds a pool is on its list.
HoldersListed == \A p \in Pids : \A m \in Held(p) : p \in mapped[m[1]]

\* All the holders of a pool hold the memory of the same process.
HoldersAgree ==
  \A p, q \in Pids : \A m \in Held(p) : \A n \in Held(q) : m[1] = n[1] => m[2] = n[2]

\* As long as a pool's owner lives, its pool holds its memory.
OwnersHeld ==
  \A p \in Alive : \A q \in Pids : \A m \in Held(q) : m[1] = info[p].pool => m[2] = p

PoolsInv == PoolsOwned /\ HoldersListed /\ HoldersAgree /\ OwnersHeld

\* All pools are free at first.
LEMMA PoolsAtFirst == Init => PoolsInv
BY DEF Init, PoolsInv, PoolsOwned, HoldersListed, HoldersAgree, OwnersHeld, Alive, Held

\* A fork copies an address space with nothing in it.
LEMMA SpawnMaps ==
  ASSUME Lifecycle, NEW p \in Pids, NEW kind \in {"unlink", "bridge", "agent"},
         Spawn(p, kind)
  PROVE  maps' = maps
<1>1. maps \in [Pids -> SUBSET (Pools \X Pids)]
  BY DEF Lifecycle, TypeOK
<1>2. maps[p] = {}
  BY DEF Spawn, Lifecycle, MapsWhere, MapStates
<1>3. CASE nextPid <= MaxPid /\ maps' = [maps EXCEPT ![nextPid] = maps[p]]
  <2>1. nextPid \in Pids /\ pc[nextPid] = "unborn"
    BY <1>3, ProcessesAssumption DEF Lifecycle, TypeOK, BornInOrder, Pids
  <2>2. maps[nextPid] = {}
    BY <2>1 DEF Lifecycle, MapsWhere, MapStates
  <2> QED  BY <1>1, <1>2, <1>3, <2>1, <2>2
<1> QED  BY <1>3 DEF Spawn, Inherited

\* assign_memory hands out a pool that nobody holds.
LEMMA PoolsEnrolls ==
  ASSUME Lifecycle, PoolsInv, NEW p \in Pids, NEW role, NEW s, Enrolls(p, role, s)
  PROVE  PoolsInv'
<1> DEFINE k == assign_memory
<1>1. k \in Pools /\ mapped[k] = {}
  BY AssignMemoryFree DEF Enrolls, FreePools
<1>2. p \notin DOMAIN info
  BY DEF Enrolls, Lifecycle, RegistryFollows, RegStates
<1>3. /\ DOMAIN info' = DOMAIN info \cup {p}
      /\ ~info'[p].exited /\ info'[p].pool = k
      /\ \A q \in DOMAIN info : info'[q] = info[q]
      /\ mapped' = [mapped EXCEPT ![k] = {p}]
      /\ maps' = maps /\ mapping' = mapping
  BY <1>2 DEF Enrolls, agnocast_ioctl_add_process
<1>4. \A q \in Pids : Held(q)' = Held(q)
  BY <1>3 DEF Held
<1>5. /\ mapped'[k] = {p} /\ \A j \in Pools : j # k => mapped'[j] = mapped[j]
      /\ \A q \in Alive : info[q].pool \in Pools /\ q \in Pids
      /\ \A q \in Pids : \A m \in Held(q) : m[1] \in Pools
  BY <1>1, <1>3 DEF Lifecycle, TypeOK, Info, Alive, Held
<1> HIDE DEF k
<1>6. Alive' = Alive \cup {p}
  BY <1>2, <1>3 DEF Alive
<1>7. \A q \in Alive : info'[q].pool = info[q].pool /\ info[q].pool # k
  BY <1>1, <1>3 DEF PoolsInv, PoolsOwned, Alive
<1>8. \A q \in Pids : \A m \in Held(q) : m[1] # k
  BY <1>1 DEF PoolsInv, HoldersListed
<1>9. PoolsOwned'
  BY <1>3, <1>5, <1>6, <1>7 DEF PoolsInv, PoolsOwned
<1>10. HoldersListed'
  BY <1>4, <1>5, <1>8 DEF PoolsInv, HoldersListed
<1>11. HoldersAgree'
  BY <1>4 DEF PoolsInv, HoldersAgree
<1>12. OwnersHeld'
  BY <1>3, <1>4, <1>6, <1>7, <1>8 DEF PoolsInv, OwnersHeld
<1> QED  BY <1>9, <1>10, <1>11, <1>12 DEF PoolsInv

\* Whatever a process comes to hold of the pools of live processes, as long as
\* it is put on the lists of these pools, the holders still agree.
LEMMA PoolsGrow ==
  ASSUME Lifecycle, PoolsInv, NEW q \in Pids, NEW M,
         info' = info,
         mapped' \in [Pools -> SUBSET Pids],
         \A k \in Pools : mapped[k] \subseteq mapped'[k],
         \A m \in M : \E p \in Alive : m = <<info[p].pool, p>>,
         \A m \in M : q \in mapped'[m[1]],
         \A p \in Pids : Held(p)' \subseteq IF p = q THEN Held(p) \cup M ELSE Held(p)
  PROVE  PoolsInv'
<1>1. Alive' = Alive /\ \A p \in Alive : info[p].pool \in Pools
  BY DEF Alive, Lifecycle, TypeOK, Info
<1>2. \A p \in Pids : \A m \in Held(p) : m[1] \in Pools
  BY DEF Held, Lifecycle, TypeOK
<1>3. \A m \in M : m[1] \in Pools /\ \E p \in Alive : m[1] = info[p].pool /\ m[2] = p
  BY <1>1
<1>4. \A p \in Pids : \A m \in Held(p)' : m \in Held(p) \/ (p = q /\ m \in M)
  OBVIOUS
<1>5. PoolsOwned'
  BY <1>1 DEF PoolsInv, PoolsOwned
<1>6. HoldersListed'
  BY <1>2, <1>4 DEF PoolsInv, HoldersListed
<1>7. \A p \in Alive : \A x \in Pids : \A m \in Held(x)' : m[1] = info[p].pool => m[2] = p
  <2> TAKE p \in Alive
  <2> TAKE x \in Pids
  <2> TAKE m \in Held(x)'
  <2> HAVE m[1] = info[p].pool
  <2>1. CASE m \in Held(x)
    BY <2>1 DEF PoolsInv, OwnersHeld
  <2>2. CASE m \in M
    BY <1>3, <2>2 DEF PoolsInv, PoolsOwned
  <2> QED  BY <1>4, <2>1, <2>2
<1>8. OwnersHeld'
  BY <1>1, <1>7 DEF OwnersHeld
<1>9. HoldersAgree'
  <2> SUFFICES ASSUME NEW x \in Pids, NEW y \in Pids, NEW m \in Held(x)',
                      NEW n \in Held(y)', m[1] = n[1]
               PROVE  m[2] = n[2]
    BY DEF HoldersAgree
  <2>1. CASE m \in M
    BY <1>3, <1>7, <2>1
  <2>2. CASE n \in M
    BY <1>3, <1>7, <2>2
  <2>3. CASE m \in Held(x) /\ n \in Held(y)
    BY <2>3 DEF PoolsInv, HoldersAgree
  <2> QED  BY <1>4, <2>1, <2>2, <2>3
<1> QED  BY <1>5, <1>6, <1>8, <1>9 DEF PoolsInv

\* Whatever goes, the others still agree, as long as nobody who holds memory is
\* taken off a list.
LEMMA PoolsShrink ==
  ASSUME Lifecycle, PoolsInv, NEW u,
         Alive' \subseteq Alive,
         \A p \in Alive' : info'[p].pool = info[p].pool,
         mapped' = mapped \/ (mapped' = [k \in Pools |-> mapped[k] \ {u}] /\ u \notin Alive'),
         \A p \in Pids : Held(p)' \subseteq Held(p),
         u \in Pids => Held(u)' = {}
  PROVE  PoolsInv'
<1>1. /\ \A p \in Alive : info[p].pool \in Pools
      /\ \A p \in Pids : \A m \in Held(p) : m[1] \in Pools
  BY DEF Alive, Held, Lifecycle, TypeOK, Info
<1>2. \A k \in Pools : mapped[k] \ {u} \subseteq mapped'[k]
  OBVIOUS
<1>3. PoolsOwned'
  BY <1>1 DEF PoolsInv, PoolsOwned
<1>4. HoldersListed'
  BY <1>1, <1>2 DEF PoolsInv, HoldersListed
<1>5. HoldersAgree' /\ OwnersHeld'
  BY DEF PoolsInv, HoldersAgree, OwnersHeld
<1> QED  BY <1>3, <1>4, <1>5 DEF PoolsInv

\* reference_memory puts a process on the list before it maps the pool.
LEMMA PoolsMapping ==
  ASSUME Lifecycle, PoolsInv, NEW q \in Pids,
         MapsOwn(q) \/ MapsOthers(q) \/ \E others \in SUBSET shm : ReferenceMemory(q, others)
  PROVE  PoolsInv'
<1>1. CASE MapsOwn(q)
  <2> DEFINE M == {<<info[q].pool, q>>}
  <2>1. q \in Alive
    BY <1>1 DEF MapsOwn, Lifecycle, RegistryFollows, RegStates, Alive
  <2>2. info' = info /\ mapped' = mapped /\ mapping' = mapping
        /\ maps' = [maps EXCEPT ![q] = @ \cup M]
    BY <1>1 DEF MapsOwn, kernelVars
  <2>3. \A m \in M : (\E p \in Alive : m = <<info[p].pool, p>>) /\ q \in mapped[m[1]]
    BY <2>1 DEF PoolsInv, PoolsOwned
  <2> HIDE DEF M
  <2>4. \A p \in Pids : Held(p)' \subseteq IF p = q THEN Held(p) \cup M ELSE Held(p)
    BY <2>2 DEF Held, Lifecycle, TypeOK
  <2>5. mapped' \in [Pools -> SUBSET Pids] /\ \A k \in Pools : mapped[k] \subseteq mapped'[k]
    BY <2>2 DEF Lifecycle, TypeOK
  <2> QED  BY <2>2, <2>3, <2>4, <2>5, PoolsGrow
<1>2. CASE MapsOthers(q)
  <2>1. info' = info /\ mapped' = mapped /\ Alive' = Alive
    BY <1>2 DEF MapsOthers, kernelVars, Alive
  <2>2. \A p \in Pids : Held(p)' \subseteq Held(p)
    BY <1>2 DEF MapsOthers, Held, Lifecycle, TypeOK
  <2>3. None \notin Pids
    BY DEF None, Pids
  <2> QED  BY <2>1, <2>2, <2>3, PoolsShrink
<1>3. ASSUME NEW others \in SUBSET shm, ReferenceMemory(q, others)
      PROVE  PoolsInv'
  <2> DEFINE M == {<<info[p].pool, p>> : p \in others}
  <2>1. \A p \in others : p \in Alive /\ info[p].pool \in Pools
    BY <1>3 DEF ReferenceMemory, Alive, Lifecycle, TypeOK, Info
  <2>2. info' = info /\ maps' = maps /\ mapping' = [mapping EXCEPT ![q] = M]
    BY <1>3 DEF ReferenceMemory
  <2>3. mapped' = [k \in Pools |-> IF \E p \in others : info[p].pool = k
                                   THEN mapped[k] \cup {q} ELSE mapped[k]]
    BY <1>3 DEF ReferenceMemory, reference_memory
  <2>4. mapped' \in [Pools -> SUBSET Pids] /\ \A k \in Pools : mapped[k] \subseteq mapped'[k]
    BY <2>3 DEF Lifecycle, TypeOK
  <2>5. \A m \in M : (\E p \in Alive : m = <<info[p].pool, p>>) /\ q \in mapped'[m[1]]
    <3> SUFFICES ASSUME NEW p \in others
                 PROVE  q \in mapped'[info[p].pool]
      BY <2>1
    <3> QED  BY <2>1, <2>3
  <2> HIDE DEF M
  <2>6. \A p \in Pids : Held(p)' \subseteq IF p = q THEN Held(p) \cup M ELSE Held(p)
    BY <2>2 DEF Held, Lifecycle, TypeOK
  <2> QED  BY <2>2, <2>4, <2>5, <2>6, PoolsGrow
<1> QED  BY <1>1, <1>2, <1>3

\* No step makes two memories of one address.
LEMMA PoolsKept ==
  ASSUME Lifecycle, PoolsInv, [Next]_vars
  PROVE  PoolsInv'
<1>1. ASSUME UNCHANGED <<info, mapped, maps, mapping>> PROVE PoolsInv'
  BY <1>1 DEF PoolsInv, PoolsOwned, HoldersListed, HoldersAgree, OwnersHeld, Alive, Held
<1>2. CASE UNCHANGED vars
  BY <1>1, <1>2 DEF vars
<1>3. ASSUME NEW d \in Domains, StartApplication(d) PROVE PoolsInv'
  BY <1>1, <1>3 DEF StartApplication, kernelVars
<1>4. ASSUME NEW p \in Pids, Ending(p) PROVE PoolsInv'
  <2>1. info' = info /\ mapped' = mapped /\ Alive' = Alive
    BY <1>4 DEF Ending, Exits, Alive
  <2>2. Held(p)' = {} /\ \A q \in Pids : Held(q)' \subseteq Held(q)
    BY <1>4 DEF Ending, Exits, Held, Lifecycle, TypeOK
  <2> QED  BY <2>1, <2>2, PoolsShrink
<1>5. ASSUME NEW p \in Pids, NEW role, NEW s, Enrolls(p, role, s) PROVE PoolsInv'
  BY <1>5, PoolsEnrolls
<1>6. ASSUME NEW p \in Pids, NEW kind \in {"unlink", "bridge", "agent"}, Spawn(p, kind)
      PROVE  PoolsInv'
  <2>1. maps' = maps
    BY <1>6, SpawnMaps
  <2> QED  BY <1>1, <1>6, <2>1 DEF Spawn, kernelVars
<1>7. ASSUME NEW p \in Pids,
             MapsOwn(p) \/ MapsOthers(p) \/ \E others \in SUBSET shm : ReferenceMemory(p, others)
      PROVE  PoolsInv'
  BY <1>7, PoolsMapping
<1>8. ASSUME NEW p \in Pids,
             \/ agnocast_ioctl_get_exit_process(p) \/ ShmUnlink(p)
             \/ ClaimsDomain(p) \/ DiscoveryAgentShouldExit(p)
             \/ DiscoveryAgentCommitExit(p)
      PROVE  PoolsInv'
  BY <1>1, <1>8 DEF agnocast_ioctl_get_exit_process, ShmUnlink, ClaimsDomain,
                    DiscoveryAgentShouldExit, DiscoveryAgentCommitExit, kernelVars
<1>9. ASSUME NEW u \in Pids, agnocast_commit_exit(u) PROVE PoolsInv'
  <2>1. PICK keep \in SUBSET DOMAIN info :
             /\ info' = [p \in keep |-> info[p]]
             /\ IF u \in keep THEN UNCHANGED mapped ELSE free_memory(u)
    BY <1>9 DEF agnocast_commit_exit
  <2>2. pc[u] = "ud_commit" /\ maps' = maps /\ mapping' = mapping
    BY <1>9 DEF agnocast_commit_exit
  <2>3. Held(u)' = {} /\ \A p \in Pids : Held(p)' \subseteq Held(p)
    BY <2>2 DEF Held, Lifecycle, MapsWhere, MapStates
  <2>4. /\ Alive' \subseteq Alive /\ (u \notin keep => u \notin Alive')
        /\ \A p \in Alive' : info'[p].pool = info[p].pool
    BY <2>1 DEF Alive
  <2> QED  BY <2>1, <2>3, <2>4, PoolsShrink DEF free_memory
<1>10. ASSUME NEW b \in Pids, ResignsAsManager(b) PROVE PoolsInv'
  <2>1. /\ pc[b] = "bm_run" /\ info' = [info EXCEPT ![b].role = "application"]
        /\ UNCHANGED <<mapped, maps, mapping>>
    BY <1>10 DEF ResignsAsManager, agnocast_ioctl_notify_bridge_shutdown
  <2>2. DOMAIN info' = DOMAIN info
        /\ \A p \in DOMAIN info : info'[p].exited = info[p].exited
                                  /\ info'[p].pool = info[p].pool
    BY <2>1 DEF Lifecycle, TypeOK, Info
  <2>3. Alive' = Alive /\ \A p \in Pids : Held(p)' = Held(p)
    BY <2>1, <2>2 DEF Alive, Held
  <2> QED
    BY <2>1, <2>2, <2>3
    DEF PoolsInv, PoolsOwned, HoldersListed, HoldersAgree, OwnersHeld, Alive
<1>11. CASE WorkerStep
  <2>1. CASE WorkerWakes \/ WorkerDequeues
    BY <1>1, <2>1 DEF WorkerWakes, WorkerDequeues, userVars
  <2>2. CASE agnocast_process_exit_cleanup
    <3>1. maps' = maps /\ mapping' = mapping
      BY <2>2 DEF agnocast_process_exit_cleanup, userVars
    <3>0. PICK c : c = cleaning
      OBVIOUS
    <3>2. c \in Pids => pc[c] = "dead"
      BY <3>0, ProcessesAssumption DEF Lifecycle, QueuedDead, None, Pids
    <3>3. /\ c \in Pids => Held(c)' = {}
          /\ \A p \in Pids : Held(p)' \subseteq Held(p)
      BY <3>1, <3>2 DEF Held, Lifecycle, MapsWhere, MapStates
    <3>4. /\ Alive' \subseteq Alive /\ c \notin Alive'
          /\ \A p \in Alive' : info'[p].pool = info[p].pool
      BY <2>2, <3>0, CleanupInfo DEF Alive
    <3>5. mapped' = mapped \/ mapped' = [k \in Pools |-> mapped[k] \ {c}]
      BY <2>2, <3>0 DEF agnocast_process_exit_cleanup, free_memory
    <3> QED  BY <3>3, <3>4, <3>5, PoolsShrink
  <2> QED  BY <1>11, <2>1, <2>2 DEF WorkerStep
<1>12. Next => Effect
  BY NextIsEffect
<1> QED
  BY <1>2, <1>3, <1>4, <1>5, <1>6, <1>7, <1>8, <1>9, <1>10, <1>11, <1>12
  DEF Effect, ProcessEffect

\* The registry, the pools, the ring buffer and the processes keep their types.
THEOREM TypeCorrect == Spec => []TypeOK
<1>1. Lifecycle => TypeOK
  BY DEF Lifecycle
<1> QED  BY <1>1, LifecycleInit, LifecycleNext, PTL DEF Spec

\* assign_memory never hands out a pool that anybody still has mapped, or has
\* been told to map: a message address means the same message to every process
\* that can read it, however registrations, forks, mappings, exits and their
\* cleanup interleave.
THEOREM OneAddress == Spec => []OneAddressOneMemory
<1>1. Init => Lifecycle /\ PoolsInv
  BY LifecycleInit, PoolsAtFirst
<1>2. Lifecycle /\ PoolsInv /\ [Next]_vars => Lifecycle' /\ PoolsInv'
  BY LifecycleNext, PoolsKept
<1>3. Lifecycle /\ PoolsInv => OneAddressOneMemory
  <2> SUFFICES ASSUME Lifecycle, PoolsInv PROVE OneAddressOneMemory
    OBVIOUS
  <2>1. DOMAIN maps = Pids
    BY DEF Lifecycle, TypeOK
  <2> QED  BY <2>1 DEF OneAddressOneMemory, PoolsInv, HoldersAgree, Held
<1> QED  BY <1>1, <1>2, <1>3, PTL DEF Spec

-----------------------------------------------------------------------------
(* The inductive invariant, part 3: the daemons.                           *)

WorkingManager == {"bm_map", "bm_run"}

\* Where an application is that has registered.
Serving == {"unlink", "bridge", "agent", "map", "run"}

RolesFollow ==
  \A p \in Pids : /\ pc[p] \in WorkingUnlink => info[p].role = "unlink_daemon"
                  /\ pc[p] \in WorkingManager => info[p].role = "bridge_manager"
                  /\ pc[p] \in Serving => info[p].role = "application"

OneUnlinkDaemon ==
  \A p, q \in DOMAIN info :
    info[p].role = "unlink_daemon" /\ info[q].role = "unlink_daemon" => p = q

OneManager ==
  \A p, q \in Alive :
    /\ info[p].role = "bridge_manager"
    /\ info[q].role = "bridge_manager"
    /\ dom[p] = dom[q]
    => p = q

OneAgent == \A a, b \in agents : dom[a] = dom[b] => a = b

Roles == RolesFollow /\ OneUnlinkDaemon /\ OneManager /\ OneAgent

\* There is no daemon at first.
LEMMA RolesInit == Init => Roles
BY DEF Init, Roles, RolesFollow, OneUnlinkDaemon, OneManager, OneAgent, Alive,
       WorkingUnlink, WorkingManager, Serving

\* A step that enters nobody into the registry and puts nobody to work.
LEMMA RolesShrink ==
  ASSUME Lifecycle, Lifecycle', Roles,
         DOMAIN info' \subseteq DOMAIN info,
         \A p \in DOMAIN info' : /\ info'[p].role = info[p].role
                                 /\ info[p].exited => info'[p].exited,
         agents' \subseteq agents,
         \A p \in Pids : pc[p] # "unborn" => dom'[p] = dom[p],
         \A p \in Pids : /\ pc'[p] \in WorkingUnlink => pc[p] \in WorkingUnlink
                         /\ pc'[p] \in WorkingManager => pc[p] \in WorkingManager
                         /\ pc'[p] \in Serving => pc[p] \in Serving
  PROVE  Roles'
<1>1. \A p \in Pids : pc'[p] \in WorkingUnlink \cup WorkingManager \cup Serving => p \in DOMAIN info'
  BY DEF Lifecycle, RegistryFollows, RegStates, WorkingUnlink, WorkingManager, Serving
<1>2. \A p \in Pids : p \in DOMAIN info \/ p \in agents => dom'[p] = dom[p]
  BY DEF Lifecycle, RegistryFollows, RegStates, AgentsFollow
<1>3. DOMAIN info \subseteq Pids /\ agents \subseteq Pids
  BY DEF Lifecycle, TypeOK
<1>4. RolesFollow'
  BY <1>1 DEF Roles, RolesFollow
<1>5. OneUnlinkDaemon'
  BY DEF Roles, OneUnlinkDaemon
<1>6. OneManager'
  BY <1>2, <1>3 DEF Roles, OneManager, Alive
<1>7. OneAgent'
  BY <1>2, <1>3 DEF Roles, OneAgent
<1> QED  BY <1>4, <1>5, <1>6, <1>7 DEF Roles

\* A second daemon is refused by ADD_PROCESS.
LEMMA RolesEnrolls ==
  ASSUME Lifecycle, Lifecycle', Roles, NEW p \in Pids, NEW role, NEW s,
         Enrolls(p, role, s)
  PROVE  Roles'
<1>1. p \notin DOMAIN info /\ DOMAIN info \subseteq Pids
  BY DEF Enrolls, Lifecycle, TypeOK, RegistryFollows, RegStates
<1>2. /\ DOMAIN info' = DOMAIN info \cup {p}
      /\ ~info'[p].exited /\ info'[p].role = role
      /\ \A q \in DOMAIN info : info'[q] = info[q]
      /\ agents' = agents /\ dom' = dom
      /\ pc' = [pc EXCEPT ![p] = s]
  BY <1>1 DEF Enrolls, agnocast_ioctl_add_process, Goto
<1>3. \/ role = "application" /\ s = "unlink"
      \/ role = "unlink_daemon" /\ s = "ud_poll" /\ ~has_alive_unlink_daemon
      \/ role = "bridge_manager" /\ s = "bm_map" /\ ~has_alive_bridge_manager(dom[p])
  BY DEF Enrolls
<1>4. RolesFollow'
  <2> SUFFICES ASSUME NEW q \in Pids
               PROVE  /\ pc'[q] \in WorkingUnlink => info'[q].role = "unlink_daemon"
                      /\ pc'[q] \in WorkingManager => info'[q].role = "bridge_manager"
                      /\ pc'[q] \in Serving => info'[q].role = "application"
    BY DEF RolesFollow
  <2>1. CASE q = p
    BY <1>2, <1>3, <2>1 DEF Lifecycle, TypeOK, WorkingUnlink, WorkingManager, Serving
  <2>2. CASE q # p
    <3>1. pc'[q] = pc[q]
      BY <1>2, <2>2 DEF Lifecycle, TypeOK
    <3>2. pc[q] \in WorkingUnlink \cup WorkingManager \cup Serving => q \in DOMAIN info
      BY DEF Lifecycle, RegistryFollows, RegStates, WorkingUnlink, WorkingManager, Serving
    <3> QED  BY <1>2, <3>1, <3>2 DEF Roles, RolesFollow
  <2> QED  BY <2>1, <2>2
<1>5. OneUnlinkDaemon'
  BY <1>2, <1>3 DEF Roles, OneUnlinkDaemon, has_alive_unlink_daemon, Registered
<1>6. OneManager'
  <2>1. Alive' = Alive \cup {p}
    BY <1>1, <1>2 DEF Alive
  <2> QED
    BY <1>2, <1>3, <2>1
    DEF Roles, OneManager, has_alive_bridge_manager, Registered, Alive
<1>7. OneAgent'
  BY <1>2 DEF Roles, OneAgent
<1> QED  BY <1>4, <1>5, <1>6, <1>7 DEF Roles

\* No step makes a second daemon.
LEMMA RolesNext ==
  ASSUME Lifecycle, Lifecycle', Roles, [Next]_vars
  PROVE  Roles'
<1> USE DEF WorkingUnlink, WorkingManager, Serving
<1>1. CASE UNCHANGED vars
  BY <1>1 DEF vars, Roles, RolesFollow, OneUnlinkDaemon, OneManager, OneAgent, Alive
<1>2. ASSUME NEW d \in Domains, StartApplication(d) PROVE Roles'
  <2>1. nextPid \in Pids /\ pc[nextPid] = "unborn"
    BY <1>2, ProcessesAssumption DEF StartApplication, Lifecycle, TypeOK, BornInOrder, Pids
  <2> QED
    BY <1>2, <2>1, RolesShrink DEF StartApplication, Goto, kernelVars, Lifecycle, TypeOK
<1>3. ASSUME NEW p \in Pids, NEW role, NEW s, Enrolls(p, role, s) PROVE Roles'
  BY <1>3, RolesEnrolls
<1>4. ASSUME NEW p \in Pids, NEW kind \in {"unlink", "bridge", "agent"}, Spawn(p, kind)
      PROVE  Roles'
  <2>1. /\ AfterSpawn(kind) \in {"bridge", "agent", "map"}
        /\ Entry(kind) \in {"ud_add", "bm_add", "ag_claim"}
        /\ pc[p] \in {"unlink", "bridge", "agent"}
    BY <1>4 DEF AfterSpawn, Entry, Spawn
  <2>2. info' = info /\ agents' = agents
    BY <1>4 DEF Spawn, kernelVars
  <2>3. CASE /\ nextPid <= MaxPid
             /\ pc' = [pc EXCEPT ![p] = AfterSpawn(kind), ![nextPid] = Entry(kind)]
             /\ dom' = [dom EXCEPT ![nextPid] = dom[p]]
    <3>1. nextPid \in Pids /\ pc[nextPid] = "unborn"
      BY <2>3, ProcessesAssumption DEF Lifecycle, TypeOK, BornInOrder, Pids
    <3> QED  BY <2>1, <2>2, <2>3, <3>1, RolesShrink DEF Lifecycle, TypeOK
  <2>4. CASE pc' = [pc EXCEPT ![p] = AfterSpawn(kind)] /\ dom' = dom
    BY <2>1, <2>2, <2>4, RolesShrink DEF Lifecycle, TypeOK
  <2> QED  BY <1>4, <2>3, <2>4 DEF Spawn, Goto
<1>5. ASSUME NEW p \in Pids, Ending(p) \/ MapsOwn(p) \/ MapsOthers(p) PROVE Roles'
  <2>1. info' = info /\ agents' = agents /\ dom' = dom
    BY <1>5 DEF Ending, Exits, MapsOwn, MapsOthers, kernelVars
  <2>2. \A q \in Pids : /\ pc'[q] \in WorkingUnlink => pc[q] \in WorkingUnlink
                        /\ pc'[q] \in WorkingManager => pc[q] \in WorkingManager
                        /\ pc'[q] \in Serving => pc[q] \in Serving
    BY <1>5 DEF Ending, Exits, MapsOwn, MapsOthers, Goto, Lifecycle, TypeOK
  <2> QED  BY <2>1, <2>2, RolesShrink
<1>6. ASSUME NEW p \in Pids, NEW others \in SUBSET shm, ReferenceMemory(p, others) PROVE Roles'
  BY <1>6, RolesShrink DEF ReferenceMemory
<1>7. ASSUME NEW p \in Pids,
             \/ agnocast_ioctl_get_exit_process(p) \/ ShmUnlink(p)
             \/ DiscoveryAgentShouldExit(p) \/ DiscoveryAgentCommitExit(p)
      PROVE  Roles'
  <2>1. info' = info /\ agents' \subseteq agents /\ dom' = dom
    BY <1>7 DEF agnocast_ioctl_get_exit_process, ShmUnlink, DiscoveryAgentShouldExit,
                DiscoveryAgentCommitExit, kernelVars,
                agnocast_remove_discovery_agent_by_pid
  <2>2. \A q \in Pids : /\ pc'[q] \in WorkingUnlink => pc[q] \in WorkingUnlink
                        /\ pc'[q] \in WorkingManager => pc[q] \in WorkingManager
                        /\ pc'[q] \in Serving => pc[q] \in Serving
    BY <1>7 DEF agnocast_ioctl_get_exit_process, ShmUnlink, DiscoveryAgentShouldExit,
                DiscoveryAgentCommitExit, Goto, Lifecycle, TypeOK
  <2> QED  BY <2>1, <2>2, RolesShrink
<1>8. ASSUME NEW u \in Pids, agnocast_commit_exit(u) PROVE Roles'
  <2>1. PICK keep \in SUBSET DOMAIN info : info' = [p \in keep |-> info[p]]
    BY <1>8 DEF agnocast_commit_exit
  <2>2. PICK s \in {"ud_unlink", "ud_exit", "ud_poll"} : pc' = [pc EXCEPT ![u] = s]
    BY <1>8 DEF agnocast_commit_exit, Goto
  <2>3. pc[u] = "ud_commit" /\ agents' = agents /\ dom' = dom
    BY <1>8 DEF agnocast_commit_exit
  <2> QED  BY <2>1, <2>2, <2>3, RolesShrink DEF Lifecycle, TypeOK
<1>9. ASSUME NEW b \in Pids, ResignsAsManager(b) PROVE Roles'
  <2>1. /\ pc[b] = "bm_run" /\ pc' = [pc EXCEPT ![b] = "bm_exit"]
        /\ info' = [info EXCEPT ![b].role = "application"]
        /\ agents' = agents /\ dom' = dom
    BY <1>9 DEF ResignsAsManager, agnocast_ioctl_notify_bridge_shutdown, Goto
  <2>2. /\ DOMAIN info' = DOMAIN info
        /\ b \in DOMAIN info => info'[b].role = "application"
        /\ \A p \in DOMAIN info : /\ info'[p].exited = info[p].exited
                                  /\ p # b => info'[p] = info[p]
    BY <2>1 DEF Lifecycle, TypeOK, Info
  <2>3. RolesFollow'
    BY <2>1, <2>2 DEF Roles, RolesFollow, Lifecycle, TypeOK, RegistryFollows, RegStates
  <2>4. OneUnlinkDaemon' /\ OneManager' /\ OneAgent'
    BY <2>1, <2>2 DEF Roles, OneUnlinkDaemon, OneManager, OneAgent, Alive
  <2> QED  BY <2>3, <2>4 DEF Roles
<1>10. ASSUME NEW a \in Pids, ClaimsDomain(a) PROVE Roles'
  <2>1. /\ info' = info /\ dom' = dom /\ agents' = agents \cup {a}
        /\ \A b \in agents : dom[b] # dom[a]
        /\ pc' = [pc EXCEPT ![a] = "ag_run"]
    BY <1>10 DEF ClaimsDomain, agnocast_ioctl_add_discovery_agent, Goto,
                 agnocast_find_discovery_agent
  <2>2. RolesFollow' /\ OneUnlinkDaemon' /\ OneManager'
    BY <2>1 DEF Roles, RolesFollow, OneUnlinkDaemon, OneManager, Alive, Lifecycle, TypeOK
  <2>3. OneAgent'
    BY <2>1 DEF Roles, OneAgent
  <2> QED  BY <2>2, <2>3 DEF Roles
<1>11. CASE WorkerStep
  <2>1. CASE WorkerWakes \/ WorkerDequeues
    BY <2>1, RolesShrink DEF WorkerWakes, WorkerDequeues, userVars
  <2>2. CASE agnocast_process_exit_cleanup
    <3>1. agents' \subseteq agents /\ dom' = dom /\ pc' = pc
      BY <2>2 DEF agnocast_process_exit_cleanup, userVars,
                  agnocast_remove_discovery_agent_by_pid
    <3>2. /\ DOMAIN info' \subseteq DOMAIN info
          /\ \A p \in DOMAIN info' : info'[p].role = info[p].role
                                     /\ (info[p].exited => info'[p].exited)
      BY <2>2, CleanupInfo
    <3> QED  BY <3>1, <3>2, RolesShrink
  <2> QED  BY <1>11, <2>1, <2>2 DEF WorkerStep
<1>12. Next => Effect
  BY NextIsEffect
<1> QED
  BY <1>1, <1>2, <1>3, <1>4, <1>5, <1>6, <1>7, <1>8, <1>9, <1>10, <1>11, <1>12
  DEF Effect, ProcessEffect

\* From the roles, no two daemons of a kind are at work.
LEMMA RolesSay == Lifecycle /\ Roles => Singletons
<1> SUFFICES ASSUME Lifecycle, Roles, NEW p \in Pids, NEW q \in Pids, p # q
             PROVE  /\ ~(pc[p] \in WorkingUnlink /\ pc[q] \in WorkingUnlink)
                    /\ dom[p] = dom[q] =>
                         /\ ~(pc[p] \in WorkingManager /\ pc[q] \in WorkingManager)
                         /\ ~(/\ pc[p] \in {"ag_run", "ag_commit"}
                              /\ pc[q] \in {"ag_run", "ag_commit"})
  BY DEF Singletons, WorkingUnlink, WorkingManager
<1>1. \A x \in Pids : pc[x] \in WorkingUnlink \cup WorkingManager => x \in Alive
  BY DEF Lifecycle, RegistryFollows, RegStates, WorkingUnlink, WorkingManager, Alive
<1>2. \A x \in Pids : pc[x] \in {"ag_run", "ag_commit"} => x \in agents
  BY DEF Lifecycle, AgentsFollow
<1> QED
  BY <1>1, <1>2 DEF Roles, RolesFollow, OneUnlinkDaemon, OneManager, OneAgent, Alive

\* However many applications start at once, and whatever is forked, killed or
\* told to stop meanwhile, at most one unlink daemon is at work, and at most one
\* bridge manager and one discovery agent in each domain.
THEOREM SingleDaemons == Spec => []Singletons
<1>1. Init => Lifecycle /\ Roles
  BY LifecycleInit, RolesInit
<1>2. Lifecycle /\ Roles /\ [Next]_vars => Lifecycle' /\ Roles'
  BY LifecycleNext, RolesNext
<1> QED  BY <1>1, <1>2, RolesSay, PTL DEF Spec

-----------------------------------------------------------------------------
(* The inductive invariant, part 4: the ring buffer of exits.              *)

\* The slots between the head and the tail.
Ring(i) == IF head <= tail THEN head <= i /\ i < tail ELSE head <= i \/ i < tail

RingFilled == \A i \in Slots : queue[i] # None <=> Ring(i)

QueuedOnce == \A i, j \in Slots : queue[i] = queue[j] /\ queue[i] # None => i = j

\* An exit is queued until it has been cleaned up, and only once.
QueuedKnown ==
  \A i \in Slots : queue[i] # None => queue[i] \in Alive \cup agents /\ queue[i] # cleaning

QueueInv == RingFilled /\ QueuedOnce /\ QueuedKnown /\ dropped = {}

\* The ring buffer is empty at first.
LEMMA QueueInit == Init => QueueInv
BY ProcessesAssumption
DEF Init, QueueInv, RingFilled, QueuedOnce, QueuedKnown, Ring, Slots, None

\* A set of slots that hold different processes, each with something of its own
\* in K, is no larger than K.
LEMMA SlotsInject ==
  ASSUME NEW S \in SUBSET Slots, NEW K, IsFiniteSet(K), NEW g \in [S -> K],
         \A i, j \in S : g[i] = g[j] => i = j
  PROVE  /\ IsFiniteSet(S)
         /\ Cardinality(S) \in Nat
         /\ Cardinality(S) <= Cardinality(K)
<1>1. g \in Injection(S, K)
  BY Fun_IsInj
<1>2. IsFiniteSet(S) /\ Cardinality(S) <= Cardinality(K)
  BY <1>1, FS_Injection
<1> QED  BY <1>2, FS_CardinalityType

\* The pigeonhole: if the buffer were full, each of its slots, the one the
\* exiting process would take included, would stand for a pool or for a domain.
LEMMA QueueHasRoom ==
  ASSUME Lifecycle, PoolsInv, Roles, QueueInv, NEW p \in Pids, Ending(p),
         is_agnocast_pid(p)
  PROVE  (tail + 1) % QueueSize # head
<1> SUFFICES ASSUME (tail + 1) % QueueSize = head PROVE FALSE
  OBVIOUS
<1> DEFINE f == [i \in Slots |-> IF i = tail THEN p ELSE queue[i]]
           A == {i \in Slots : f[i] \in Alive}
           B == {i \in Slots : f[i] \in agents}
<1>1. head \in Slots /\ tail \in Slots /\ queue \in [Slots -> Pids \cup {None}]
      /\ QueueSize \in Nat \ {0, 1}
  BY ProcessesAssumption DEF Lifecycle, TypeOK
<1>2. \A i \in Slots : i # tail => Ring(i)
  BY <1>1, NextSlot DEF Ring, Slots
<1>3. \A i \in Slots : i # tail => queue[i] # None
  BY <1>2 DEF QueueInv, RingFilled
<1>4. pc[p] # "dead" /\ p \in Alive \cup agents
  BY DEF Ending, is_agnocast_pid, Lifecycle, RegistryFollows, Alive
<1>5. \A i \in Slots : i # tail => queue[i] # p
  BY <1>3, <1>4 DEF Lifecycle, QueuedDead
<1>6. \A i, j \in Slots : f[i] = f[j] => i = j
  BY <1>3, <1>5 DEF QueueInv, QueuedOnce
<1>7. \A i \in Slots : f[i] \in Alive \cup agents
  BY <1>3, <1>4 DEF QueueInv, QueuedKnown
<1> HIDE DEF f
<1>8. Slots = A \cup B
  BY <1>7
<1>9. IsFiniteSet(A) /\ Cardinality(A) \in Nat /\ Cardinality(A) <= MempoolNum
  <2> DEFINE g == [i \in A |-> info[f[i]].pool]
  <2>1. g \in [A -> Pools]
    BY DEF Alive, Lifecycle, TypeOK, Info
  <2>2. \A i, j \in A : g[i] = g[j] => i = j
    BY <1>6 DEF PoolsInv, PoolsOwned
  <2>3. IsFiniteSet(Pools) /\ Cardinality(Pools) = MempoolNum
    BY ProcessesAssumption, FS_Interval DEF Pools
  <2>4. A \in SUBSET Slots
    OBVIOUS
  <2> HIDE DEF g, A
  <2> QED  BY <2>1, <2>2, <2>3, <2>4, SlotsInject
<1>10. IsFiniteSet(B) /\ Cardinality(B) \in Nat /\ Cardinality(B) <= Cardinality(Domains)
  <2> DEFINE g == [i \in B |-> dom[f[i]]]
  <2>1. g \in [B -> Domains]
    BY DEF Lifecycle, TypeOK
  <2>2. \A i, j \in B : g[i] = g[j] => i = j
    BY <1>6 DEF Roles, OneAgent
  <2>3. B \in SUBSET Slots
    OBVIOUS
  <2> HIDE DEF g, B
  <2> QED  BY <2>1, <2>2, <2>3, SlotsInject, QueueAssumption
<1> HIDE DEF A, B
<1>11. Cardinality(A \cup B) <= Cardinality(A) + Cardinality(B)
  <2>1. IsFiniteSet(A \cap B)
    BY <1>9, FS_Intersection
  <2>2. Cardinality(A \cap B) \in Nat
    BY <2>1, FS_CardinalityType
  <2>3. Cardinality(A \cup B) = Cardinality(A) + Cardinality(B) - Cardinality(A \cap B)
    BY <1>9, <1>10, FS_Union
  <2> QED  BY <1>9, <1>10, <2>2, <2>3
<1>12. Cardinality(Slots) = QueueSize
  BY <1>1, FS_Interval DEF Slots
<1>13. Cardinality(Domains) \in Nat
  BY QueueAssumption, FS_CardinalityType
<1> QED
  BY <1>1, <1>8, <1>9, <1>10, <1>11, <1>12, <1>13, QueueAssumption, ProcessesAssumption

\* An exit finds a free slot.
LEMMA QueueEnding ==
  ASSUME Lifecycle, PoolsInv, Roles, QueueInv, NEW p \in Pids, Ending(p)
  PROVE  QueueInv'
<1>1. UNCHANGED <<info, agents, head, cleaning>> /\ Alive' = Alive
  BY DEF Ending, Exits, Alive
<1>2. CASE ~is_agnocast_pid(p)
  BY <1>1, <1>2 DEF Ending, Exits, QueueInv, RingFilled, QueuedOnce, QueuedKnown, Ring
<1>3. CASE is_agnocast_pid(p)
  <2>1. (tail + 1) % QueueSize # head
    BY <1>3, QueueHasRoom
  <2>2. /\ queue' = [queue EXCEPT ![tail] = p] /\ tail' = (tail + 1) % QueueSize
        /\ dropped' = {}
    BY <1>3, <2>1 DEF Ending, Exits, agnocast_enqueue_exit_pid, QueueInv
  <2>3. head \in Slots /\ tail \in Slots /\ queue \in [Slots -> Pids \cup {None}]
        /\ QueueSize \in Nat \ {0, 1}
    BY ProcessesAssumption DEF Lifecycle, TypeOK
  <2>4. p \in Alive \cup agents /\ p # None /\ p # cleaning
        /\ \A i \in Slots : queue[i] # p
    <3>1. pc[p] # "dead" /\ p # None
      BY DEF Ending, None, Pids
    <3> QED
      BY <1>3, <3>1 DEF is_agnocast_pid, Lifecycle, RegistryFollows, Alive, QueuedDead
  <2>5. \A i \in Slots : Ring(i)' <=> Ring(i) \/ i = tail
    BY <1>1, <2>1, <2>2, <2>3, NextSlot DEF Ring, Slots
  <2>6. \A i \in Slots : queue'[i] = IF i = tail THEN p ELSE queue[i]
    BY <2>2, <2>3
  <2>7. RingFilled'
    BY <2>4, <2>5, <2>6 DEF QueueInv, RingFilled
  <2>8. QueuedOnce'
    BY <2>4, <2>6 DEF QueueInv, QueuedOnce
  <2>9. QueuedKnown'
    BY <1>1, <2>4, <2>6 DEF QueueInv, QueuedKnown
  <2> QED  BY <2>2, <2>7, <2>8, <2>9 DEF QueueInv
<1> QED  BY <1>2, <1>3

\* A step that leaves the ring buffer alone, and that forgets nobody but the
\* living and those who have been cleaned up.
LEMMA QueueFrame ==
  ASSUME Lifecycle, QueueInv,
         UNCHANGED <<queue, head, tail, cleaning, dropped>>,
         \A p \in Alive : pc[p] = "dead" => p \in Alive',
         \A a \in agents : pc[a] = "dead" => a \in agents'
  PROVE  QueueInv'
<1>1. RingFilled' /\ QueuedOnce' /\ dropped' = {}
  BY DEF QueueInv, RingFilled, QueuedOnce, Ring
<1>2. QueuedKnown'
  BY DEF QueueInv, QueuedKnown, Lifecycle, QueuedDead
<1> QED  BY <1>1, <1>2 DEF QueueInv

\* The worker takes the oldest pid out of the ring buffer.
LEMMA QueueWorker ==
  ASSUME Lifecycle, QueueInv, WorkerStep
  PROVE  QueueInv'
<1>1. CASE WorkerWakes
  BY <1>1, QueueFrame DEF WorkerWakes, userVars, Alive
<1>2. CASE WorkerDequeues /\ head = tail
  BY <1>2, QueueFrame DEF WorkerDequeues, userVars, Alive
<1>3. CASE WorkerDequeues /\ head # tail
  <2>1. /\ queue' = [queue EXCEPT ![head] = None] /\ cleaning' = queue[head]
        /\ head' = (head + 1) % QueueSize
        /\ UNCHANGED <<info, agents, tail, dropped>> /\ Alive' = Alive
    BY <1>3 DEF WorkerDequeues, Alive
  <2>2. head \in Slots /\ tail \in Slots /\ queue \in [Slots -> Pids \cup {None}]
        /\ QueueSize \in Nat \ {0, 1}
    BY ProcessesAssumption DEF Lifecycle, TypeOK
  <2>3. \A i \in Slots : Ring(i)' <=> Ring(i) /\ i # head
    BY <1>3, <2>1, <2>2, NextSlot DEF Ring, Slots
  <2>4. \A i \in Slots : queue'[i] = IF i = head THEN None ELSE queue[i]
    BY <2>1, <2>2
  <2>5. RingFilled'
    BY <2>3, <2>4 DEF QueueInv, RingFilled
  <2>6. QueuedOnce'
    BY <2>4 DEF QueueInv, QueuedOnce
  <2>7. QueuedKnown'
    BY <2>1, <2>2, <2>4 DEF QueueInv, QueuedKnown, QueuedOnce
  <2> QED  BY <2>1, <2>5, <2>6, <2>7 DEF QueueInv
<1>4. CASE agnocast_process_exit_cleanup
  <2>1. /\ UNCHANGED <<queue, head, tail, dropped>> /\ cleaning' = None
        /\ agents' = agents \ {cleaning}
    BY <1>4 DEF agnocast_process_exit_cleanup, agnocast_remove_discovery_agent_by_pid
  <2>2. Alive \ {cleaning} \subseteq Alive'
    BY <1>4, CleanupInfo DEF Alive
  <2>3. RingFilled' /\ QueuedOnce' /\ dropped' = {}
    BY <2>1 DEF QueueInv, RingFilled, QueuedOnce, Ring
  <2>4. QueuedKnown'
    BY <2>1, <2>2 DEF QueueInv, QueuedKnown
  <2> QED  BY <2>3, <2>4 DEF QueueInv
<1> QED  BY <1>1, <1>2, <1>3, <1>4 DEF WorkerStep

\* No step loses an exit.
LEMMA QueueNext ==
  ASSUME Lifecycle, PoolsInv, Roles, QueueInv, [Next]_vars
  PROVE  QueueInv'
<1>1. CASE UNCHANGED vars
  BY <1>1, QueueFrame DEF vars, Alive
<1>2. ASSUME NEW d \in Domains, StartApplication(d) PROVE QueueInv'
  BY <1>2, QueueFrame DEF StartApplication, kernelVars, Alive
<1>3. ASSUME NEW p \in Pids, Ending(p) PROVE QueueInv'
  BY <1>3, QueueEnding
<1>4. ASSUME NEW p \in Pids, NEW role, NEW s, Enrolls(p, role, s) PROVE QueueInv'
  <2>1. p \notin DOMAIN info
    BY <1>4 DEF Enrolls, Lifecycle, RegistryFollows, RegStates
  <2>2. Alive \subseteq Alive'
    BY <1>4, <2>1 DEF Enrolls, agnocast_ioctl_add_process, Alive
  <2> QED  BY <1>4, <2>2, QueueFrame DEF Enrolls, queueVars
<1>5. ASSUME NEW p \in Pids,
             \/ \E kind \in {"unlink", "bridge", "agent"} : Spawn(p, kind)
             \/ MapsOwn(p) \/ MapsOthers(p)
             \/ \E others \in SUBSET shm : ReferenceMemory(p, others)
             \/ agnocast_ioctl_get_exit_process(p) \/ ShmUnlink(p)
             \/ DiscoveryAgentShouldExit(p)
      PROVE  QueueInv'
  <2>1. UNCHANGED <<info, agents, queue, head, tail, cleaning, dropped>>
    BY <1>5 DEF Spawn, MapsOwn, MapsOthers, ReferenceMemory,
                agnocast_ioctl_get_exit_process, ShmUnlink, DiscoveryAgentShouldExit,
                kernelVars, queueVars
  <2> QED  BY <2>1, QueueFrame DEF Alive
<1>6. ASSUME NEW u \in Pids, agnocast_commit_exit(u) PROVE QueueInv'
  <2>1. PICK keep \in SUBSET DOMAIN info :
             /\ info' = [p \in keep |-> info[p]]
             /\ \A p \in DOMAIN info : p = u \/ p = got[u] \/ p \in keep
    BY <1>6 DEF agnocast_commit_exit
  <2>2. /\ pc[u] = "ud_commit"
        /\ UNCHANGED <<agents, queue, head, tail, cleaning, dropped>>
    BY <1>6 DEF agnocast_commit_exit, queueVars
  <2>3. got[u] \notin Alive
    <3>1. None \notin DOMAIN info
      BY DEF Lifecycle, TypeOK, None, Pids
    <3> QED  BY <3>1 DEF Lifecycle, GotDead, Alive
  <2>4. \A p \in Alive : pc[p] = "dead" => p \in Alive'
    BY <2>1, <2>2, <2>3 DEF Alive
  <2> QED  BY <2>2, <2>4, QueueFrame
<1>7. ASSUME NEW b \in Pids, ResignsAsManager(b) PROVE QueueInv'
  <2>1. /\ info' = [info EXCEPT ![b].role = "application"]
        /\ UNCHANGED <<agents, queue, head, tail, cleaning, dropped>>
    BY <1>7 DEF ResignsAsManager, agnocast_ioctl_notify_bridge_shutdown, queueVars
  <2>2. Alive' = Alive
    BY <2>1 DEF Alive, Lifecycle, TypeOK, Info
  <2> QED  BY <2>1, <2>2, QueueFrame
<1>8. ASSUME NEW a \in Pids, ClaimsDomain(a) \/ DiscoveryAgentCommitExit(a)
      PROVE  QueueInv'
  <2>1. /\ UNCHANGED <<info, queue, head, tail, cleaning, dropped>>
        /\ pc[a] # "dead" /\ agents \ {a} \subseteq agents'
    BY <1>8 DEF ClaimsDomain, DiscoveryAgentCommitExit, queueVars,
                agnocast_ioctl_add_discovery_agent,
                agnocast_remove_discovery_agent_by_pid
  <2> QED  BY <2>1, QueueFrame DEF Alive
<1>9. CASE WorkerStep
  BY <1>9, QueueWorker
<1>10. Next => Effect
  BY NextIsEffect
<1> QED
  BY <1>1, <1>2, <1>3, <1>4, <1>5, <1>6, <1>7, <1>8, <1>9, <1>10
  DEF Effect, ProcessEffect

\* No exit is lost: the ring buffer has room for every process that can be in
\* it, the registered ones because their pools are different and the discovery
\* agents because their domains are.
THEOREM ExitsFit == Spec => []QueueNeverOverflows
<1>1. Init => Lifecycle /\ PoolsInv /\ Roles /\ QueueInv
  BY LifecycleInit, PoolsAtFirst, RolesInit, QueueInit
<1>2. Lifecycle /\ PoolsInv /\ Roles /\ QueueInv /\ [Next]_vars =>
        Lifecycle' /\ PoolsInv' /\ Roles' /\ QueueInv'
  BY LifecycleNext, PoolsKept, RolesNext, QueueNext
<1>3. QueueInv => QueueNeverOverflows
  BY DEF QueueInv, QueueNeverOverflows
<1> QED  BY <1>1, <1>2, <1>3, PTL DEF Spec

-----------------------------------------------------------------------------
(* The inductive invariant, part 5: the files, when no daemon is killed.   *)

FilesWhere == \A p \in shm : pc[p] \in MapStates \cup {"dead"}

\* The registered unlink daemon is at work.
DaemonWorks ==
  \A p \in DOMAIN info : info[p].role = "unlink_daemon" => pc[p] \in WorkingUnlink

FilesInv == FilesWhere /\ DaemonWorks /\ LeftBehindIsKnown

\* There are no files at first.
LEMMA FilesInit == Init => FilesInv
BY DEF Init, FilesInv, FilesWhere, DaemonWorks, LeftBehindIsKnown

\* A step in which nobody dies, gets a file, is forgotten or is handed over.
LEMMA FilesFrame ==
  ASSUME Lifecycle, FilesInv, info' = info, got' = got, shm' = shm,
         \A p \in Pids : pc[p] \in WorkingUnlink => pc'[p] \in WorkingUnlink,
         \A p \in Pids : pc[p] \in MapStates => pc'[p] \in MapStates,
         \A p \in Pids : pc'[p] = "dead" <=> pc[p] = "dead"
  PROVE  FilesInv'
<1>1. shm \subseteq Pids /\ DOMAIN info \subseteq Pids
  BY DEF Lifecycle, TypeOK
<1>2. FilesWhere'
  BY <1>1 DEF FilesInv, FilesWhere
<1>3. DaemonWorks'
  BY <1>1 DEF FilesInv, DaemonWorks
<1>4. LeftBehindIsKnown'
  BY <1>1 DEF FilesInv, LeftBehindIsKnown
<1> QED  BY <1>2, <1>3, <1>4 DEF FilesInv

\* Registrations, forks, mappings and exits leave files owed.
LEMMA FilesProcess ==
  ASSUME Lifecycle, FilesInv, ~DaemonsKilled, NEW p \in Pids,
         \/ Ending(p) \/ MapsOwn(p)
         \/ \E role, s : Enrolls(p, role, s)
         \/ ResignsAsManager(p)
  PROVE  FilesInv'
<1>0. /\ shm \subseteq Pids /\ DOMAIN info \subseteq Pids
      /\ pc \in [Pids -> AppStates \cup DaemonStates \cup {"unborn", "dead"}]
  BY DEF Lifecycle, TypeOK
<1>1. CASE Ending(p)
  <2>1. /\ pc' = [pc EXCEPT ![p] = "dead"] /\ info' = info /\ shm' = shm
        /\ pc[p] \notin WorkingUnlink /\ pc[p] # "dead"
    BY <1>1 DEF Ending, Exits, Refused
  <2>2. \A u \in Pids : got[u] # None => got'[u] = got[u]
    BY <1>1, <2>1 DEF Ending, Exits, Lifecycle, TypeOK, GotDead, WorkingUnlink
  <2>3. p \in shm => p \in DOMAIN info
    BY <2>1 DEF FilesInv, FilesWhere, MapStates, Lifecycle, RegistryFollows, RegStates
  <2>4. FilesWhere' /\ DaemonWorks'
    BY <1>0, <2>1 DEF FilesInv, FilesWhere, DaemonWorks
  <2>5. LeftBehindIsKnown'
    <3>1. \A q \in shm : q # None
      BY <1>0 DEF None, Pids
    <3> QED  BY <1>0, <2>1, <2>2, <2>3, <3>1 DEF FilesInv, LeftBehindIsKnown
  <2> QED  BY <2>4, <2>5 DEF FilesInv
<1>2. CASE MapsOwn(p)
  <2>1. /\ info' = info /\ got' = got /\ shm' = shm \cup {p}
        /\ \/ pc[p] = "map" /\ pc' = [pc EXCEPT ![p] = "run"]
           \/ pc[p] = "bm_map" /\ pc' = [pc EXCEPT ![p] = "bm_run"]
    BY <1>2 DEF MapsOwn, kernelVars, Goto
  <2>2. FilesWhere' /\ DaemonWorks'
    BY <1>0, <2>1 DEF FilesInv, FilesWhere, DaemonWorks, MapStates, WorkingUnlink
  <2>3. LeftBehindIsKnown'
    BY <1>0, <2>1 DEF FilesInv, LeftBehindIsKnown
  <2> QED  BY <2>2, <2>3 DEF FilesInv
<1>3. ASSUME NEW role, NEW s, Enrolls(p, role, s) PROVE FilesInv'
  <2>1. /\ got' = got /\ shm' = shm /\ pc' = [pc EXCEPT ![p] = s]
        /\ pc[p] \in {"add", "ud_add", "bm_add"} /\ s # "dead"
        /\ role = "unlink_daemon" => s \in WorkingUnlink
    BY <1>3 DEF Enrolls, Goto, WorkingUnlink
  <2>2. /\ DOMAIN info' = DOMAIN info \cup {p} /\ info'[p].role = role
        /\ \A q \in DOMAIN info : q # p => info'[q] = info[q]
    BY <1>3 DEF Enrolls, agnocast_ioctl_add_process
  <2>3. FilesWhere'
    BY <1>0, <2>1 DEF FilesInv, FilesWhere, MapStates
  <2>4. DaemonWorks'
    BY <1>0, <2>1, <2>2 DEF FilesInv, DaemonWorks
  <2>5. LeftBehindIsKnown'
    BY <1>0, <2>1, <2>2 DEF FilesInv, LeftBehindIsKnown
  <2> QED  BY <2>3, <2>4, <2>5 DEF FilesInv
<1>4. CASE ResignsAsManager(p)
  <2>1. /\ pc[p] = "bm_run" /\ pc' = [pc EXCEPT ![p] = "bm_exit"]
        /\ info' = [info EXCEPT ![p].role = "application"]
        /\ got' = got /\ shm' = shm
    BY <1>4 DEF ResignsAsManager, agnocast_ioctl_notify_bridge_shutdown, Goto
  <2>2. /\ DOMAIN info' = DOMAIN info
        /\ \A q \in DOMAIN info : info'[q].role \in {info[q].role, "application"}
    BY <2>1 DEF Lifecycle, TypeOK, Info
  <2>3. FilesWhere' /\ DaemonWorks'
    BY <1>0, <2>1, <2>2 DEF FilesInv, FilesWhere, DaemonWorks, MapStates, WorkingUnlink
  <2>4. LeftBehindIsKnown'
    BY <1>0, <2>1, <2>2 DEF FilesInv, LeftBehindIsKnown
  <2> QED  BY <2>3, <2>4 DEF FilesInv
<1> QED  BY <1>1, <1>2, <1>3, <1>4

\* The unlink daemon takes a pid out of the registry into its own hands.
LEMMA FilesUnlink ==
  ASSUME Lifecycle, FilesInv, NEW u \in Pids,
         \/ agnocast_ioctl_get_exit_process(u)
         \/ agnocast_commit_exit(u)
         \/ ShmUnlink(u)
  PROVE  FilesInv'
<1>0. /\ shm \subseteq Pids /\ DOMAIN info \subseteq Pids /\ None \notin Pids
      /\ pc \in [Pids -> AppStates \cup DaemonStates \cup {"unborn", "dead"}]
      /\ got \in [Pids -> Pids \cup {None}]
  BY DEF Lifecycle, TypeOK, None, Pids
<1>1. CASE agnocast_ioctl_get_exit_process(u)
  <2>1. /\ pc[u] = "ud_poll" /\ pc' = [pc EXCEPT ![u] = "ud_commit"]
        /\ info' = info /\ shm' = shm
        /\ \E x : got' = [got EXCEPT ![u] = x]
    BY <1>1 DEF agnocast_ioctl_get_exit_process, kernelVars, Goto
  <2>2. got[u] = None
    BY <2>1 DEF Lifecycle, GotDead
  <2>3. FilesWhere' /\ DaemonWorks'
    BY <1>0, <2>1 DEF FilesInv, FilesWhere, DaemonWorks, MapStates, WorkingUnlink
  <2>4. LeftBehindIsKnown'
    BY <1>0, <2>1, <2>2 DEF FilesInv, LeftBehindIsKnown
  <2> QED  BY <2>3, <2>4 DEF FilesInv
<1>2. CASE agnocast_commit_exit(u)
  <2>1. PICK keep \in SUBSET DOMAIN info :
             /\ info' = [p \in keep |-> info[p]]
             /\ \A p \in DOMAIN info : p = u \/ p = got[u] \/ p \in keep
             /\ \E s \in {"ud_unlink", "ud_exit", "ud_poll"} :
                  /\ pc' = [pc EXCEPT ![u] = s]
                  /\ s = "ud_exit" => u \notin keep
    BY <1>2 DEF agnocast_commit_exit, LeavesRegistry, Goto
  <2>2. pc[u] = "ud_commit" /\ got' = got /\ shm' = shm
    BY <1>2 DEF agnocast_commit_exit
  <2>3. FilesWhere'
    BY <1>0, <2>1, <2>2 DEF FilesInv, FilesWhere, MapStates
  <2>4. DaemonWorks'
    BY <1>0, <2>1, <2>2 DEF FilesInv, DaemonWorks, WorkingUnlink
  <2>5. LeftBehindIsKnown'
    BY <1>0, <2>1, <2>2 DEF FilesInv, LeftBehindIsKnown
  <2> QED  BY <2>3, <2>4, <2>5 DEF FilesInv
<1>3. CASE ShmUnlink(u)
  <2>1. /\ pc[u] = "ud_unlink" /\ pc' = [pc EXCEPT ![u] = "ud_poll"]
        /\ info' = info /\ shm' = shm \ {got[u]} /\ got' = [got EXCEPT ![u] = None]
    BY <1>3 DEF ShmUnlink, kernelVars, Goto
  <2>2. FilesWhere' /\ DaemonWorks'
    BY <1>0, <2>1 DEF FilesInv, FilesWhere, DaemonWorks, MapStates, WorkingUnlink
  <2>3. LeftBehindIsKnown'
    BY <1>0, <2>1 DEF FilesInv, LeftBehindIsKnown
  <2> QED  BY <2>2, <2>3 DEF FilesInv
<1> QED  BY <1>1, <1>2, <1>3

\* No step forgets a file.
LEMMA FilesNext ==
  ASSUME Lifecycle, FilesInv, ~DaemonsKilled, [Next]_vars
  PROVE  FilesInv'
<1> USE DEF WorkingUnlink, MapStates
<1>1. CASE UNCHANGED vars
  BY <1>1, FilesFrame DEF vars
<1>2. ASSUME NEW d \in Domains, StartApplication(d) PROVE FilesInv'
  <2>1. nextPid \in Pids /\ pc[nextPid] = "unborn"
    BY <1>2, ProcessesAssumption DEF StartApplication, Lifecycle, TypeOK, BornInOrder, Pids
  <2> QED
    BY <1>2, <2>1, FilesFrame DEF StartApplication, Goto, kernelVars, Lifecycle, TypeOK
<1>3. ASSUME NEW p \in Pids,
             \/ Ending(p) \/ MapsOwn(p)
             \/ \E role, s : Enrolls(p, role, s)
             \/ ResignsAsManager(p)
      PROVE  FilesInv'
  BY <1>3, FilesProcess
<1>4. ASSUME NEW p \in Pids, NEW kind \in {"unlink", "bridge", "agent"}, Spawn(p, kind)
      PROVE  FilesInv'
  <2>1. /\ AfterSpawn(kind) \in {"bridge", "agent", "map"}
        /\ Entry(kind) \in {"ud_add", "bm_add", "ag_claim"}
        /\ pc[p] \in {"unlink", "bridge", "agent"}
    BY <1>4 DEF AfterSpawn, Entry, Spawn
  <2>2. info' = info /\ got' = got /\ shm' = shm
    BY <1>4 DEF Spawn, kernelVars
  <2>3. CASE /\ nextPid <= MaxPid
             /\ pc' = [pc EXCEPT ![p] = AfterSpawn(kind), ![nextPid] = Entry(kind)]
    <3>1. nextPid \in Pids /\ pc[nextPid] = "unborn"
      BY <2>3, ProcessesAssumption DEF Lifecycle, TypeOK, BornInOrder, Pids
    <3> QED  BY <2>1, <2>2, <2>3, <3>1, FilesFrame DEF Lifecycle, TypeOK
  <2>4. CASE pc' = [pc EXCEPT ![p] = AfterSpawn(kind)]
    BY <2>1, <2>2, <2>4, FilesFrame DEF Lifecycle, TypeOK
  <2> QED  BY <1>4, <2>3, <2>4 DEF Spawn, Goto
<1>5. ASSUME NEW p \in Pids,
             MapsOthers(p) \/ \E others \in SUBSET shm : ReferenceMemory(p, others)
      PROVE  FilesInv'
  BY <1>5, FilesFrame DEF MapsOthers, ReferenceMemory, kernelVars
<1>6. ASSUME NEW p \in Pids,
             \/ agnocast_ioctl_get_exit_process(p)
             \/ agnocast_commit_exit(p)
             \/ ShmUnlink(p)
      PROVE  FilesInv'
  BY <1>6, FilesUnlink
<1>7. ASSUME NEW a \in Pids,
             \/ ClaimsDomain(a)
             \/ DiscoveryAgentShouldExit(a)
             \/ DiscoveryAgentCommitExit(a)
      PROVE  FilesInv'
  <2>1. /\ info' = info /\ got' = got /\ shm' = shm
        /\ pc[a] \in {"ag_claim", "ag_run", "ag_commit"}
        /\ \E s \in {"ag_run", "ag_commit", "ag_exit"} : pc' = [pc EXCEPT ![a] = s]
    BY <1>7 DEF ClaimsDomain, DiscoveryAgentShouldExit, DiscoveryAgentCommitExit, Goto,
                kernelVars
  <2> QED  BY <2>1, FilesFrame DEF Lifecycle, TypeOK
<1>8. CASE WorkerStep
  <2>1. CASE WorkerWakes \/ WorkerDequeues
    BY <2>1, FilesFrame DEF WorkerWakes, WorkerDequeues, userVars
  <2>2. CASE agnocast_process_exit_cleanup
    <3>1. pc' = pc /\ got' = got /\ shm' = shm
      BY <2>2 DEF agnocast_process_exit_cleanup, userVars
    <3>2. cleaning \in DOMAIN info => pc[cleaning] = "dead"
      BY DEF Lifecycle, TypeOK, QueuedDead, None, Pids
    <3>3. cleaning \in DOMAIN info => info[cleaning].role # "unlink_daemon"
      BY <3>2 DEF FilesInv, DaemonWorks
    <3>4. DOMAIN info' = DOMAIN info
          /\ \A q \in DOMAIN info' : info'[q].role = info[q].role
      BY <2>2, <3>3, CleanupInfo
    <3>5. FilesWhere' /\ DaemonWorks' /\ LeftBehindIsKnown'
      BY <3>1, <3>4 DEF FilesInv, FilesWhere, DaemonWorks, LeftBehindIsKnown
    <3> QED  BY <3>5 DEF FilesInv
  <2> QED  BY <1>8, <2>1, <2>2 DEF WorkerStep
<1>9. Next => Effect
  BY NextIsEffect
<1> QED
  BY <1>1, <1>2, <1>3, <1>4, <1>5, <1>6, <1>7, <1>8, <1>9 DEF Effect, ProcessEffect

\* As long as no daemon is killed, the shared memory file of a dead process is
\* still owed: its owner is in the registry, where the unlink daemon will find
\* it, or the daemon has been handed its pid and has not unlinked it yet.
THEOREM FilesAreOwed ==
  ASSUME ~DaemonsKilled
  PROVE  Spec => []LeftBehindIsKnown
<1>1. Init => Lifecycle /\ FilesInv
  BY LifecycleInit, FilesInit
<1>2. Lifecycle /\ FilesInv /\ [Next]_vars => Lifecycle' /\ FilesInv'
  BY LifecycleNext, FilesNext
<1>3. FilesInv => LeftBehindIsKnown
  BY DEF FilesInv
<1> QED  BY <1>1, <1>2, <1>3, PTL DEF Spec

\* As long as no daemon is killed, an application that is told not to fork an
\* unlink daemon starts beside one that is at work: the idle daemon leaves the
\* registry in the same step that decides to exit.
THEOREM DaemonIsThere ==
  ASSUME ~DaemonsKilled
  PROVE  Spec => ReplacementSpawned
<1> DEFINE Told == \A p \in Pids :
             (pc[p] = "add" /\ pc'[p] = "unlink" /\ "unlink" \in hint'[p]) =>
               \E u \in Pids : pc[u] \in UnlinkStates
<1>1. Init => Lifecycle /\ FilesInv
  BY LifecycleInit, FilesInit
<1>2. Lifecycle /\ FilesInv /\ [Next]_vars => Lifecycle' /\ FilesInv'
  BY LifecycleNext, FilesNext
<1>3. ASSUME Lifecycle, FilesInv, [Next]_vars PROVE [Told]_vars
  <2> SUFFICES ASSUME Next, NEW p \in Pids,
                      pc[p] = "add", pc'[p] = "unlink", "unlink" \in hint'[p]
               PROVE  \E u \in Pids : pc[u] \in UnlinkStates
    BY <1>3
  <2>1. Effect
    BY <1>3, NextIsEffect
  <2>2. ASSUME NEW d \in Domains, StartApplication(d) PROVE FALSE
    BY <1>3, <2>2 DEF StartApplication, Goto, Lifecycle, TypeOK
  <2>3. CASE WorkerStep
    BY <2>3 DEF WorkerStep, WorkerWakes, WorkerDequeues, agnocast_process_exit_cleanup,
                userVars
  <2>4. ASSUME NEW q \in Pids, ProcessEffect(q)
        PROVE  \E role, s : Enrolls(p, role, s) /\ role = "application"
    <3>1. pc \in [Pids -> AppStates \cup DaemonStates \cup {"unborn", "dead"}]
      BY <1>3 DEF Lifecycle, TypeOK
    <3>2. CASE \E role, s : Enrolls(q, role, s)
      BY <3>1, <3>2 DEF Enrolls, Goto
    <3>3. ASSUME NEW kind \in {"unlink", "bridge", "agent"}, Spawn(q, kind) PROVE FALSE
      BY <3>1, <3>3 DEF Spawn, AfterSpawn, Entry, Goto
    <3>4. CASE Ending(q) \/ MapsOwn(q) \/ MapsOthers(q)
               \/ \E others \in SUBSET shm : ReferenceMemory(q, others)
      BY <3>1, <3>4 DEF Ending, Exits, MapsOwn, MapsOthers, ReferenceMemory, Goto
    <3>5. CASE \/ agnocast_ioctl_get_exit_process(q) \/ agnocast_commit_exit(q)
               \/ ShmUnlink(q) \/ ResignsAsManager(q) \/ ClaimsDomain(q)
               \/ DiscoveryAgentShouldExit(q) \/ DiscoveryAgentCommitExit(q)
      BY <3>1, <3>5 DEF agnocast_ioctl_get_exit_process, agnocast_commit_exit, ShmUnlink,
                        ResignsAsManager, ClaimsDomain, DiscoveryAgentShouldExit,
                        DiscoveryAgentCommitExit, Goto
    <3> QED  BY <2>4, <3>2, <3>3, <3>4, <3>5 DEF ProcessEffect
  <2>5. CASE \E role, s : Enrolls(p, role, s) /\ role = "application"
    <3>1. has_alive_unlink_daemon
      BY <1>3, <2>5 DEF Enrolls, Known, Lifecycle, TypeOK
    <3>2. PICK u \in DOMAIN info : info[u].role = "unlink_daemon"
      BY <3>1 DEF has_alive_unlink_daemon, Registered
    <3>3. u \in Pids /\ pc[u] \in WorkingUnlink
      BY <1>3, <3>2 DEF FilesInv, DaemonWorks, Lifecycle, TypeOK
    <3> QED  BY <3>3 DEF WorkingUnlink, UnlinkStates
  <2> QED  BY <2>1, <2>2, <2>3, <2>4, <2>5 DEF Effect
<1>4. Lifecycle /\ FilesInv /\ [Next]_vars => [Told]_vars
  BY <1>3
<1> QED  BY <1>1, <1>2, <1>4, PTL DEF Spec, ReplacementSpawned
-----------------------------------------------------------------------------
(* The inductive invariant, part 6: whoever needs a daemon has one, when no *)
(* daemon is killed.                                                       *)

\* Where an application has not come to the fork of a daemon yet.
Before(kind) ==
  CASE kind = "unlink" -> {"unlink"}
    [] kind = "bridge" -> {"unlink", "bridge"}
    [] kind = "agent"  -> {"unlink", "bridge", "agent"}

\* The application has dealt with this daemon, or was told that it is there.
Served(p, kind) ==
  pc[p] \in Serving /\ (pc[p] \in Before(kind) => kind \in hint[p])

\* Where a daemon is that stays unless it is refused or nobody needs it.
AtWork(kind) ==
  CASE kind = "unlink" -> {"ud_add", "ud_poll", "ud_commit", "ud_unlink"}
    [] kind = "bridge" -> {"bm_add", "bm_map", "bm_run"}
    [] kind = "agent"  -> {"ag_claim", "ag_run", "ag_commit"}

\* A daemon is there; the unlink daemon serves all domains.
There(kind, d) == \E x \in Pids : pc[x] \in AtWork(kind) /\ (kind = "unlink" \/ dom[x] = d)

Kinds == {"unlink", "bridge", "agent"}

\* Who is served now was served before, has just forked the daemon, or registers and is
\* told that the daemon is known.
LEMMA ServedStep ==
  ASSUME Lifecycle, [Next]_vars, NEW kind \in Kinds, kind \in Daemons, NEW q \in Pids, Served(q, kind)'
  PROVE  /\ dom'[q] = dom[q]
         /\ \/ Served(q, kind)
            \/ There(kind, dom[q])'
            \/ Known(kind, dom[q]) /\ (\E role, s : Enrolls(q, role, s))
<1>0. /\ pc \in [Pids -> AppStates \cup DaemonStates \cup {"unborn", "dead"}]
      /\ hint \in [Pids -> SUBSET {"unlink", "bridge", "agent"}] /\ dom \in [Pids -> Domains]
      /\ pc'[q] \in Serving /\ (pc'[q] \in Before(kind) => kind \in hint'[q])
  BY DEF Lifecycle, TypeOK, Served
<1> DEFINE Goal == /\ dom'[q] = dom[q]
                   /\ \/ Served(q, kind)
                      \/ There(kind, dom[q])'
                      \/ Known(kind, dom[q]) /\ (\E role, s : Enrolls(q, role, s))
<1>1. CASE UNCHANGED vars
  BY <1>0, <1>1 DEF vars, Served
<1>2. ASSUME NEW d \in Domains, StartApplication(d) PROVE Goal
  <2>1. nextPid \in Pids /\ pc[nextPid] = "unborn"
    BY <1>2, ProcessesAssumption DEF StartApplication, Lifecycle, TypeOK, BornInOrder, Pids
  <2>2. pc' = [pc EXCEPT ![nextPid] = "add"] /\ dom' = [dom EXCEPT ![nextPid] = d] /\ hint' = hint
    BY <1>2 DEF StartApplication, Goto
  <2>3. q # nextPid
    BY <1>0, <2>1, <2>2 DEF Serving
  <2> QED BY <1>0, <2>1, <2>2, <2>3 DEF Served
<1>3. ASSUME NEW p \in Pids, NEW role, NEW s, Enrolls(p, role, s) PROVE Goal
  <2>1. PICK h \in SUBSET {"unlink", "bridge", "agent"} :
          /\ hint' = [hint EXCEPT ![p] = h]
          /\ role = "application" => \A k \in h : Known(k, dom[p])
    BY <1>3 DEF Enrolls
  <2>2. /\ pc' = [pc EXCEPT ![p] = s] /\ dom' = dom
        /\ s \in Serving => role = "application" /\ s = "unlink"
    BY <1>3 DEF Enrolls, Goto, Serving
  <2>3. CASE q # p
    BY <1>0, <2>1, <2>2, <2>3 DEF Served
  <2>4. CASE q = p
    <3>1. s = "unlink" /\ role = "application" /\ pc'[q] \in Before(kind)
      BY <1>0, <2>2, <2>4 DEF Before, Kinds
    <3>2. kind \in h
      BY <1>0, <2>1, <2>4, <3>1
    <3> QED BY <1>3, <2>1, <2>2, <2>4, <3>1, <3>2
  <2> QED BY <2>3, <2>4
<1>4. ASSUME NEW p \in Pids, NEW other \in Kinds, Spawn(p, other) PROVE Goal
  <2>1. /\ pc[p] = other /\ hint' = [hint EXCEPT ![p] = hint[p] \ {other}]
        /\ AfterSpawn(other) \in Serving
    BY <1>0, <1>4 DEF Spawn, AfterSpawn, Kinds, Serving
  <2>2. CASE /\ nextPid <= MaxPid
             /\ pc' = [pc EXCEPT ![p] = AfterSpawn(other), ![nextPid] = Entry(other)]
             /\ dom' = [dom EXCEPT ![nextPid] = dom[p]]
    <3>1. nextPid \in Pids /\ pc[nextPid] = "unborn" /\ nextPid # p
      BY <2>1, <2>2, ProcessesAssumption DEF Lifecycle, TypeOK, BornInOrder, Pids, Kinds
    <3>2. Entry(other) \notin Serving /\ Entry(other) \in AtWork(other)
      BY DEF Entry, Serving, AtWork, Kinds
    <3>3. q # nextPid /\ dom'[q] = dom[q]
      BY <1>0, <2>2, <3>1, <3>2
    <3>4. CASE q # p
      BY <1>0, <2>1, <2>2, <3>1, <3>3, <3>4 DEF Served
    <3>5. CASE q = p /\ kind = other
      <4>1. pc'[nextPid] \in AtWork(kind) /\ dom'[nextPid] = dom[q]
        BY <1>0, <2>2, <3>1, <3>2, <3>5
      <4> QED BY <3>1, <3>3, <4>1 DEF There
    <3>6. CASE q = p /\ kind # other
      <4>1. pc[q] \in Before(kind) => AfterSpawn(other) \in Before(kind)
        BY <2>1, <3>6 DEF Before, AfterSpawn, Kinds
      <4>2. pc'[q] = AfterSpawn(other) /\ hint'[q] = hint[q] \ {other}
        BY <1>0, <2>1, <2>2, <3>1, <3>6
      <4>3. pc[q] \in Serving
        BY <2>1, <3>6 DEF Serving, Kinds
      <4> QED BY <1>0, <3>3, <4>1, <4>2, <4>3 DEF Served
    <3> QED BY <3>4, <3>5, <3>6
  <2>3. CASE ~(other \in Daemons /\ other \notin hint[p]) /\ pc' = [pc EXCEPT ![p] = AfterSpawn(other)] /\ dom' = dom
    <3>1. CASE q # p
      BY <1>0, <2>1, <2>3, <3>1 DEF Served
    <3>2. CASE q = p /\ kind = other
      <4>1. pc[q] \in Serving /\ kind \in hint[q]
        BY <2>1, <2>3, <3>2 DEF Serving, Kinds
      <4> QED BY <2>3, <4>1 DEF Served
    <3>3. CASE q = p /\ kind # other
      <4>1. pc[q] \in Before(kind) => AfterSpawn(other) \in Before(kind)
        BY <2>1, <3>3 DEF Before, AfterSpawn, Kinds
      <4>2. pc'[q] = AfterSpawn(other) /\ hint'[q] = hint[q] \ {other}
        BY <1>0, <2>1, <2>3, <3>3
      <4>3. pc[q] \in Serving
        BY <2>1, <3>3 DEF Serving, Kinds
      <4> QED BY <1>0, <2>3, <4>1, <4>2, <4>3 DEF Served
    <3> QED BY <3>1, <3>2, <3>3
  <2> QED BY <1>4, <2>2, <2>3 DEF Spawn, Goto
<1>5. ASSUME NEW p \in Pids, Ending(p) PROVE Goal
  <2>1. pc' = [pc EXCEPT ![p] = "dead"] /\ dom' = dom /\ hint' = [hint EXCEPT ![p] = {}]
    BY <1>5 DEF Ending, Exits
  <2>2. q # p
    BY <1>0, <2>1 DEF Serving
  <2> QED BY <1>0, <2>1, <2>2 DEF Served
<1>6. ASSUME NEW p \in Pids,
             \/ MapsOwn(p) \/ MapsOthers(p) \/ \E others \in SUBSET shm : ReferenceMemory(p, others)
             \/ agnocast_ioctl_get_exit_process(p) \/ agnocast_commit_exit(p) \/ ShmUnlink(p)
             \/ ResignsAsManager(p) \/ ClaimsDomain(p)
             \/ DiscoveryAgentShouldExit(p) \/ DiscoveryAgentCommitExit(p)
      PROVE  Goal
  <2>1. /\ dom' = dom /\ hint' = hint
        /\ \/ pc' = pc
           \/ \E s \in DaemonStates : pc' = [pc EXCEPT ![p] = s]
           \/ pc[p] = "map" /\ pc' = [pc EXCEPT ![p] = "run"]
    BY <1>6 DEF MapsOwn, MapsOthers, ReferenceMemory, agnocast_ioctl_get_exit_process,
                agnocast_commit_exit, ShmUnlink, ResignsAsManager, ClaimsDomain,
                DiscoveryAgentShouldExit, DiscoveryAgentCommitExit, Goto,
                DaemonStates, UnlinkStates, ManagerStates, AgentStates
  <2>2. \A s \in DaemonStates : s \notin Serving
    BY DEF DaemonStates, UnlinkStates, ManagerStates, AgentStates, Serving
  <2>3. "map" \in Serving /\ "map" \notin Before(kind)
    BY DEF Serving, Before, Kinds
  <2> QED BY <1>0, <2>1, <2>2, <2>3 DEF Served
<1>7. CASE WorkerStep
  BY <1>0, <1>7 DEF WorkerStep, WorkerWakes, WorkerDequeues, agnocast_process_exit_cleanup, userVars, Served
<1>8. Next => Effect
  BY NextIsEffect
<1> QED BY <1>1, <1>2, <1>3, <1>4, <1>5, <1>6, <1>7, <1>8 DEF Effect, ProcessEffect, Kinds

\* A daemon at work goes on, or leaves in one of four ways.
LEMMA WorkStep ==
  ASSUME Lifecycle, [Next]_vars, NEW kind \in Kinds, NEW x \in Pids, pc[x] \in AtWork(kind)
  PROVE  \/ pc'[x] \in AtWork(kind) /\ dom'[x] = dom[x]
         \/ Ending(x)
         \/ kind = "unlink" /\ agnocast_commit_exit(x) /\ pc'[x] = "ud_exit"
         \/ kind = "bridge" /\ ResignsAsManager(x) /\ (DaemonsKilled \/ DomainEmpty(dom[x]))
         \/ kind = "agent" /\ DiscoveryAgentCommitExit(x) /\ ~ExitVetoed(x)
<1>0. /\ pc \in [Pids -> AppStates \cup DaemonStates \cup {"unborn", "dead"}]
      /\ dom \in [Pids -> Domains]
  BY DEF Lifecycle, TypeOK
<1>1. pc[x] \in DaemonStates /\ pc[x] \notin Serving \cup {"add", "unborn"}
  BY DEF AtWork, Kinds, DaemonStates, UnlinkStates, ManagerStates, AgentStates, Serving
<1>2. CASE UNCHANGED vars
  BY <1>2 DEF vars
<1>3. ASSUME NEW d \in Domains, StartApplication(d) PROVE pc'[x] = pc[x] /\ dom'[x] = dom[x]
  <2>1. nextPid \in Pids /\ pc[nextPid] = "unborn"
    BY <1>3, ProcessesAssumption DEF StartApplication, Lifecycle, TypeOK, BornInOrder, Pids
  <2> QED BY <1>0, <1>1, <1>3, <2>1 DEF StartApplication, Goto
<1>4. ASSUME NEW p \in Pids, NEW other \in Kinds, Spawn(p, other) PROVE pc'[x] = pc[x] /\ dom'[x] = dom[x]
  <2>1. p # x
    BY <1>1, <1>4 DEF Spawn, Kinds, Serving
  <2>2. CASE nextPid <= MaxPid
    <3>1. nextPid \in Pids /\ pc[nextPid] = "unborn"
      BY <2>2, ProcessesAssumption DEF Lifecycle, TypeOK, BornInOrder, Pids
    <3>2. nextPid # x
      BY <1>1, <3>1
    <3>3. \/ /\ pc' = [pc EXCEPT ![p] = AfterSpawn(other), ![nextPid] = Entry(other)]
             /\ dom' = [dom EXCEPT ![nextPid] = dom[p]]
          \/ pc' = [pc EXCEPT ![p] = AfterSpawn(other)] /\ dom' = dom
      BY <1>4 DEF Spawn, Goto
    <3> QED BY <1>0, <2>1, <3>1, <3>2, <3>3
  <2>3. CASE ~(nextPid <= MaxPid)
    BY <1>0, <1>4, <2>1, <2>3 DEF Spawn, Goto
  <2> QED BY <2>2, <2>3
<1>5. ASSUME NEW p \in Pids, p # x, ProcessEffect(p), \A other \in Kinds : ~Spawn(p, other)
      PROVE  pc'[x] = pc[x] /\ dom'[x] = dom[x]
  <2>1. dom' = dom /\ (pc' = pc \/ \E s : pc' = [pc EXCEPT ![p] = s])
    BY <1>5 DEF ProcessEffect, Ending, Exits, Enrolls, MapsOwn, MapsOthers, ReferenceMemory,
                agnocast_ioctl_get_exit_process,
                agnocast_commit_exit, ShmUnlink, ResignsAsManager, ClaimsDomain,
                DiscoveryAgentShouldExit, DiscoveryAgentCommitExit, Goto, Kinds
  <2> QED BY <1>0, <1>5, <2>1
<1>6. ASSUME ProcessEffect(x), ~Ending(x), \A other \in Kinds : ~Spawn(x, other)
      PROVE  \/ pc'[x] \in AtWork(kind) /\ dom'[x] = dom[x]
             \/ kind = "unlink" /\ agnocast_commit_exit(x) /\ pc'[x] = "ud_exit"
             \/ kind = "bridge" /\ ResignsAsManager(x) /\ (DaemonsKilled \/ DomainEmpty(dom[x]))
             \/ kind = "agent" /\ DiscoveryAgentCommitExit(x) /\ ~ExitVetoed(x)
  <2>1. CASE \E role, s : Enrolls(x, role, s)
    <3>1. /\ \/ pc[x] = "ud_add" /\ pc' = [pc EXCEPT ![x] = "ud_poll"]
             \/ pc[x] = "bm_add" /\ pc' = [pc EXCEPT ![x] = "bm_map"]
          /\ dom' = dom
      BY <1>1, <2>1 DEF Enrolls, Goto
    <3> QED BY <1>0, <3>1 DEF AtWork, Kinds
  <2>2. CASE MapsOwn(x)
    <3>1. /\ pc[x] = "bm_map" /\ pc' = [pc EXCEPT ![x] = "bm_run"]
          /\ dom' = dom
      BY <1>1, <2>2 DEF MapsOwn, Goto, Serving
    <3> QED BY <1>0, <3>1 DEF AtWork, Kinds
  <2>3. CASE MapsOthers(x) \/ \E others \in SUBSET shm : ReferenceMemory(x, others)
    BY <2>3 DEF MapsOthers, ReferenceMemory
  <2>4. CASE agnocast_ioctl_get_exit_process(x) \/ ShmUnlink(x)
    <3>1. /\ pc[x] \in {"ud_poll", "ud_unlink"} /\ dom' = dom
          /\ \E s \in {"ud_commit", "ud_poll"} : pc' = [pc EXCEPT ![x] = s]
      BY <2>4 DEF agnocast_ioctl_get_exit_process, ShmUnlink, Goto
    <3> QED BY <1>0, <3>1 DEF AtWork, Kinds
  <2>5. CASE agnocast_commit_exit(x)
    <3>1. /\ pc[x] = "ud_commit" /\ dom' = dom
          /\ \E s \in {"ud_unlink", "ud_exit", "ud_poll"} : pc' = [pc EXCEPT ![x] = s]
      BY <2>5 DEF agnocast_commit_exit, Goto
    <3> QED BY <1>0, <2>5, <3>1 DEF AtWork, Kinds
  <2>6. CASE ResignsAsManager(x) /\ (DaemonsKilled \/ DomainEmpty(dom[x]))
    <3>1. pc[x] = "bm_run"
      BY <2>6 DEF ResignsAsManager
    <3> QED BY <2>6, <3>1 DEF AtWork, Kinds
  <2>7. CASE ClaimsDomain(x) \/ DiscoveryAgentShouldExit(x)
    <3>1. /\ pc[x] \in {"ag_claim", "ag_run"} /\ dom' = dom
          /\ \E s \in {"ag_run", "ag_commit"} : pc' = [pc EXCEPT ![x] = s]
      BY <2>7 DEF ClaimsDomain, DiscoveryAgentShouldExit, Goto
    <3> QED BY <1>0, <3>1 DEF AtWork, Kinds
  <2>8. CASE DiscoveryAgentCommitExit(x)
    <3>1. /\ pc[x] = "ag_commit" /\ dom' = dom
          /\ ExitVetoed(x) => pc' = [pc EXCEPT ![x] = "ag_run"]
      BY <2>8 DEF DiscoveryAgentCommitExit, Goto
    <3> QED BY <1>0, <2>8, <3>1 DEF AtWork, Kinds
  <2> QED BY <1>6, <2>1, <2>2, <2>3, <2>4, <2>5, <2>6, <2>7, <2>8 DEF ProcessEffect, Kinds
<1>7. CASE WorkerStep
  BY <1>7 DEF WorkerStep, WorkerWakes, WorkerDequeues, agnocast_process_exit_cleanup, userVars
<1>8. Next => Effect
  BY NextIsEffect
<1> QED BY <1>2, <1>3, <1>4, <1>5, <1>6, <1>7, <1>8 DEF Effect

\* Processes are finitely many, and so are those in the registry.
LEMMA FinitePids ==
  ASSUME Lifecycle
  PROVE  \A S : S \subseteq DOMAIN info => IsFiniteSet(S)
<1>1. IsFiniteSet(Pids)
  <2>1. 1 \in Int /\ MaxPid \in Int
    BY ProcessesAssumption
  <2> QED BY <2>1, FS_Interval DEF Pids
<1>2. DOMAIN info \subseteq Pids
  BY DEF Lifecycle, TypeOK
<1> QED BY <1>1, <1>2, FS_Subset

\* Who is served is in the registry, alive and not as an unlink daemon.
LEMMA ServedRegistered ==
  ASSUME Lifecycle, Roles, NEW q \in Pids, pc[q] \in Serving
  PROVE  q \in DOMAIN info /\ ~info[q].exited /\ info[q].role = "application"
BY DEF Lifecycle, RegistryFollows, RegStates, Serving, Roles, RolesFollow

\* The agents in the kernel's table live.
AgentsAlive == \A a \in agents : pc[a] # "dead"

\* Whoever was told of an agent, or has forked one, has one in its domain.
AgentServes == \A q \in Pids : Served(q, "agent") => There("agent", dom[q])

\* Without kills an agent leaves the table before it exits.
LEMMA AgentsAliveNext ==
  ASSUME Lifecycle, AgentsAlive, ~DaemonsKilled, [Next]_vars
  PROVE  AgentsAlive'
<1>0. /\ pc \in [Pids -> AppStates \cup DaemonStates \cup {"unborn", "dead"}]
      /\ agents \subseteq Pids /\ \A a \in agents : pc[a] \in {"ag_run", "ag_commit"}
  BY DEF Lifecycle, TypeOK, AgentsFollow, AgentsAlive
<1>1. CASE UNCHANGED vars
  BY <1>1 DEF vars, AgentsAlive
<1>2. ASSUME NEW a \in agents' PROVE a \in agents \/ (a \in Pids /\ ClaimsDomain(a))
  <2>1. Next => Effect
    BY NextIsEffect
  <2>3. ASSUME NEW p \in Pids, ClaimsDomain(p) PROVE a \in agents \/ a = p
    BY <2>3 DEF ClaimsDomain, agnocast_ioctl_add_discovery_agent
  <2>4. CASE WorkerStep
    BY <2>4 DEF WorkerStep, WorkerWakes, WorkerDequeues, agnocast_process_exit_cleanup,
                agnocast_remove_discovery_agent_by_pid
  <2>5. ASSUME NEW d \in Domains, StartApplication(d) PROVE a \in agents
    BY <2>5 DEF StartApplication, kernelVars
  <2>6. CASE UNCHANGED vars
    BY <2>6 DEF vars
  <2>7. CASE \E p \in Pids : ProcessEffect(p)
    <3>1. PICK p \in Pids : ProcessEffect(p)
      BY <2>7
    <3>3. CASE ClaimsDomain(p)
      BY <2>3, <3>3
    <3>4. CASE ~ClaimsDomain(p)
      BY <3>1, <3>4 DEF ProcessEffect, Ending, Exits, Enrolls, Spawn, MapsOwn, MapsOthers, ReferenceMemory,
                agnocast_ioctl_get_exit_process, agnocast_commit_exit, ShmUnlink, ResignsAsManager,
                DiscoveryAgentShouldExit, DiscoveryAgentCommitExit, kernelVars,
                agnocast_remove_discovery_agent_by_pid
    <3> QED BY <3>3, <3>4
  <2> QED BY <2>1, <2>4, <2>5, <2>6, <2>7 DEF Effect
<1>3. ASSUME NEW a \in agents PROVE pc'[a] # "dead"
  <2>1. a \in Pids /\ pc[a] \in AtWork("agent") /\ "agent" \in Kinds
    BY <1>0 DEF AtWork, Kinds
  <2>2. ~Ending(a)
    BY <1>0 DEF Ending, Refused
  <2>3. CASE DiscoveryAgentCommitExit(a)
    BY <1>0, <2>1, <2>3 DEF DiscoveryAgentCommitExit, Goto
  <2> QED BY <2>1, <2>2, <2>3, WorkStep DEF AtWork
<1>4. ASSUME NEW a \in Pids, ClaimsDomain(a) PROVE pc'[a] # "dead"
  BY <1>0, <1>4 DEF ClaimsDomain, Goto
<1> QED BY <1>2, <1>3, <1>4 DEF AgentsAlive

\* An agent that is known is at work in its domain.
LEMMA KnownAgent ==
  ASSUME Lifecycle, AgentsAlive, NEW d, Known("agent", d)
  PROVE  \E b \in Pids : pc[b] \in {"ag_run", "ag_commit"} /\ dom[b] = d
BY DEF Known, agnocast_find_discovery_agent, Lifecycle, TypeOK, AgentsFollow, AgentsAlive

\* No step leaves an application without its agent: the gate of the exit ioctl counts
\* the processes of the domain in the same step that takes the agent off the table.
LEMMA AgentServesNext ==
  ASSUME Lifecycle, Roles, AgentsAlive, AgentServes, ~DaemonsKilled, "agent" \in Daemons, [Next]_vars
  PROVE  AgentServes'
<1> SUFFICES ASSUME NEW q \in Pids, Served(q, "agent")' PROVE There("agent", dom[q])'
  BY DEF AgentServes
<1>0. /\ pc \in [Pids -> AppStates \cup DaemonStates \cup {"unborn", "dead"}] /\ "agent" \in Kinds
      /\ {"ag_claim", "ag_run", "ag_commit"} = AtWork("agent")
  BY DEF Lifecycle, TypeOK, Kinds, AtWork
<1>1. /\ dom'[q] = dom[q]
      /\ \/ Served(q, "agent")
         \/ There("agent", dom[q])'
         \/ Known("agent", dom[q]) /\ (\E role, s : Enrolls(q, role, s))
  BY <1>0, ServedStep
<1>2. CASE Served(q, "agent")
  <2>1. PICK x \in Pids : pc[x] \in AtWork("agent") /\ dom[x] = dom[q]
    BY <1>2 DEF AgentServes, There
  <2>2. CASE pc'[x] \in AtWork("agent") /\ dom'[x] = dom[x]
    BY <1>1, <2>1, <2>2 DEF There
  <2>3. CASE Ending(x)
    <3>1. pc[x] = "ag_claim" /\ agnocast_find_discovery_agent(dom[x]) # {}
      BY <1>0, <2>1, <2>3 DEF Ending, Refused
    <3>2. PICK b \in Pids : pc[b] \in {"ag_run", "ag_commit"} /\ dom[b] = dom[x]
      BY <3>1, KnownAgent DEF Known
    <3>3. pc'[b] = pc[b] /\ dom'[b] = dom[b]
      BY <1>0, <2>3, <3>1, <3>2 DEF Ending, Exits
    <3> QED BY <1>0, <1>1, <2>1, <3>2, <3>3 DEF There
  <2>4. CASE ~ExitVetoed(x)
    <3> DEFINE S == {p \in DOMAIN info : /\ info[p].role # "unlink_daemon"
                                         /\ dom[p] = dom[x]
                                         /\ ~info[p].exited}
    <3>1. Cardinality(S) = 0
      BY <2>4 DEF ExitVetoed, alive_process_num_in_domain
    <3>2. q \in S
      BY <1>2, <2>1, ServedRegistered DEF Served
    <3>3. IsFiniteSet(S)
      BY FinitePids
    <3> QED BY <3>1, <3>2, <3>3, FS_EmptySet
  <2> QED BY <1>0, <2>1, <2>2, <2>3, <2>4, WorkStep
<1>3. CASE Known("agent", dom[q]) /\ (\E role, s : Enrolls(q, role, s))
  <2>1. PICK b \in Pids : pc[b] \in {"ag_run", "ag_commit"} /\ dom[b] = dom[q]
    BY <1>3, KnownAgent
  <2>2. pc[q] \in {"add", "ud_add", "bm_add"} /\ dom' = dom /\ \E s : pc' = [pc EXCEPT ![q] = s]
    BY <1>3 DEF Enrolls, Goto
  <2>3. pc'[b] = pc[b] /\ dom'[b] = dom[b]
    BY <1>0, <2>1, <2>2
  <2> QED BY <1>0, <1>1, <2>1, <2>3 DEF There
<1> QED BY <1>1, <1>2, <1>3

\* As long as no daemon is killed, and whatever becomes of the pools, every running
\* application has a discovery agent in its domain that will not leave it: neither order
\* of a registration and the agent's exit gate strands it
\* (agnocast_ioctl_discovery_agent_should_exit).
THEOREM AgentsCover ==
  ASSUME ~DaemonsKilled, "agent" \in Daemons
  PROVE  Spec => []AgentCovers
<1> DEFINE Inv == Lifecycle /\ Roles /\ AgentsAlive /\ AgentServes
<1>1. Init => Inv
  <2>1. Init => AgentsAlive /\ AgentServes
    BY DEF Init, AgentsAlive, AgentServes, Served, Serving
  <2> QED BY <2>1, LifecycleInit, RolesInit
<1>2. Inv /\ [Next]_vars => Inv'
  <2>1. ASSUME Inv, [Next]_vars PROVE Inv'
    BY <2>1, LifecycleNext, RolesNext, AgentsAliveNext, AgentServesNext
  <2> QED BY <2>1
<1>3. Inv => AgentCovers
  BY DEF AgentCovers, AgentServes, Served, Serving, Before, There, AtWork, AgentStates
<1> QED BY <1>1, <1>2, <1>3, PTL DEF Spec

-----------------------------------------------------------------------------
(* Part 7: the pools, when there is one for every process.                 *)

UsedPools == {k \in Pools : mapped[k] # {}}

\* Who has been through ADD_PROCESS, or will never call it.
Enrolled == {p \in Pids : pc[p] \notin {"unborn", "add", "ud_add", "bm_add"}}

\* A pool in use was given to a process that registered; no process gets a second one.
PoolsCounted == Cardinality(UsedPools) <= Cardinality(Enrolled)

\* Processes and pools are finitely many.
LEMMA FiniteSides ==
  /\ IsFiniteSet(Pids) /\ Cardinality(Pids) = MaxPid
  /\ IsFiniteSet(Pools) /\ Cardinality(Pools) = MempoolNum
<1>1. 1 \in Int /\ MaxPid \in Int /\ MempoolNum \in Int
      /\ (1 > MaxPid => MaxPid = 0) /\ (1 > MempoolNum => MempoolNum = 0)
      /\ MaxPid - 1 + 1 = MaxPid /\ MempoolNum - 1 + 1 = MempoolNum
  BY ProcessesAssumption
<1>2. IsFiniteSet(1 .. MaxPid) /\ Cardinality(1 .. MaxPid) = MaxPid
  BY <1>1, FS_Interval
<1>3. IsFiniteSet(1 .. MempoolNum) /\ Cardinality(1 .. MempoolNum) = MempoolNum
  BY <1>1, FS_Interval
<1> QED BY <1>2, <1>3 DEF Pids, Pools

\* The sets that are counted are finite.
LEMMA FiniteCounts ==
  ASSUME NEW S \in SUBSET Pids, NEW T \in SUBSET Pools
  PROVE  IsFiniteSet(S) /\ IsFiniteSet(T) /\ Cardinality(S) \in Nat /\ Cardinality(T) \in Nat
BY FiniteSides, FS_Subset, FS_CardinalityType

\* A step that takes no pool keeps the count.
LEMMA CountFrame ==
  ASSUME PoolsCounted, \A k \in Pools : mapped[k] = {} => mapped'[k] = {},
         \A p \in Enrolled : p \in Enrolled'
  PROVE  PoolsCounted'
<1>1. UsedPools' \in SUBSET UsedPools /\ Enrolled \in SUBSET Enrolled'
  BY DEF UsedPools
<1>2. UsedPools \in SUBSET Pools /\ Enrolled' \in SUBSET Pids
  BY DEF UsedPools, Enrolled
<1>3. Cardinality(UsedPools') <= Cardinality(UsedPools) /\ Cardinality(Enrolled) <= Cardinality(Enrolled')
  BY <1>1, <1>2, FiniteCounts, FS_Subset
<1>4. /\ Cardinality(UsedPools) \in Nat /\ Cardinality(UsedPools') \in Nat
      /\ Cardinality(Enrolled) \in Nat /\ Cardinality(Enrolled') \in Nat
  BY <1>1, <1>2, FiniteCounts
<1> QED BY <1>3, <1>4 DEF PoolsCounted

\* No pool is in use at first.
LEMMA CountedAtFirst == Init => PoolsCounted
<1> SUFFICES ASSUME Init PROVE PoolsCounted
  OBVIOUS
<1>1. UsedPools = {}
  BY DEF Init, UsedPools
<1>2. Enrolled \in SUBSET Pids
  BY DEF Enrolled
<1> QED BY <1>1, <1>2, FS_EmptySet, FiniteCounts DEF PoolsCounted

\* No step uses more pools than it enters processes into the registry.
LEMMA PoolsCountedNext ==
  ASSUME Lifecycle, PoolsInv, PoolsCounted, [Next]_vars
  PROVE  PoolsCounted'
<1>0. /\ pc \in [Pids -> AppStates \cup DaemonStates \cup {"unborn", "dead"}]
      /\ mapped \in [Pools -> SUBSET Pids]
  BY DEF Lifecycle, TypeOK
<1>1. CASE UNCHANGED vars
  BY <1>1, CountFrame DEF vars, Enrolled
<1>2. ASSUME NEW d \in Domains, StartApplication(d) PROVE PoolsCounted'
  <2>1. nextPid \in Pids /\ pc[nextPid] = "unborn"
    BY <1>2, ProcessesAssumption DEF StartApplication, Lifecycle, TypeOK, BornInOrder, Pids
  <2>2. pc' = [pc EXCEPT ![nextPid] = "add"] /\ mapped' = mapped
    BY <1>2 DEF StartApplication, Goto, kernelVars
  <2> QED BY <1>0, <2>1, <2>2, CountFrame DEF Enrolled
<1>3. ASSUME NEW p \in Pids, NEW role, NEW s, Enrolls(p, role, s) PROVE PoolsCounted'
  <2> DEFINE k == assign_memory
  <2>1. /\ pc' = [pc EXCEPT ![p] = s] /\ mapped' = [mapped EXCEPT ![k] = {p}]
        /\ pc[p] \in {"add", "ud_add", "bm_add"} /\ s \in {"unlink", "ud_poll", "bm_map"}
    BY <1>3 DEF Enrolls, agnocast_ioctl_add_process, Goto
  <2>2. k \in Pools
    BY <1>3, AssignMemoryFree DEF Enrolls, FreePools
  <2> HIDE DEF k
  <2>3. Enrolled' = Enrolled \cup {p} /\ p \notin Enrolled
    BY <1>0, <2>1 DEF Enrolled
  <2>4. UsedPools' \in SUBSET (UsedPools \cup {k}) /\ UsedPools \cup {k} \in SUBSET Pools
    BY <1>0, <2>1, <2>2 DEF UsedPools
  <2>5. Enrolled \in SUBSET Pids /\ UsedPools \in SUBSET Pools
    BY DEF Enrolled, UsedPools
  <2>6. Cardinality(Enrolled') = Cardinality(Enrolled) + 1
    BY <2>3, <2>5, FiniteCounts, FS_AddElement
  <2>7. Cardinality(UsedPools \cup {k}) <= Cardinality(UsedPools) + 1
    BY <2>5, FiniteCounts, FS_AddElement
  <2>8. Cardinality(UsedPools') <= Cardinality(UsedPools \cup {k})
    BY <2>4, FiniteCounts, FS_Subset
  <2>9. /\ Cardinality(UsedPools) \in Nat /\ Cardinality(UsedPools') \in Nat
        /\ Cardinality(Enrolled) \in Nat /\ Cardinality(UsedPools \cup {k}) \in Nat
    BY <2>4, <2>5, FiniteCounts
  <2> QED BY <2>6, <2>7, <2>8, <2>9 DEF PoolsCounted
<1>4. ASSUME NEW p \in Pids, NEW kind \in Kinds, Spawn(p, kind) PROVE PoolsCounted'
  <2>1. AfterSpawn(kind) \notin {"unborn", "add", "ud_add", "bm_add"} /\ mapped' = mapped
    BY <1>4 DEF Spawn, AfterSpawn, kernelVars, Kinds
  <2>2. CASE /\ nextPid <= MaxPid
             /\ pc' = [pc EXCEPT ![p] = AfterSpawn(kind), ![nextPid] = Entry(kind)]
    <3>1. nextPid \in Pids /\ pc[nextPid] = "unborn"
      BY <2>2, ProcessesAssumption DEF Lifecycle, TypeOK, BornInOrder, Pids
    <3> QED BY <1>0, <2>1, <2>2, <3>1, CountFrame DEF Enrolled
  <2>3. CASE pc' = [pc EXCEPT ![p] = AfterSpawn(kind)]
    BY <1>0, <2>1, <2>3, CountFrame DEF Enrolled
  <2> QED BY <1>4, <2>2, <2>3 DEF Spawn, Goto
<1>5. ASSUME NEW p \in Pids,
             \/ Ending(p) \/ MapsOwn(p) \/ MapsOthers(p)
             \/ agnocast_ioctl_get_exit_process(p) \/ agnocast_commit_exit(p) \/ ShmUnlink(p)
             \/ ResignsAsManager(p) \/ ClaimsDomain(p)
             \/ DiscoveryAgentShouldExit(p) \/ DiscoveryAgentCommitExit(p)
      PROVE  PoolsCounted'
  <2>1. /\ pc' = pc \/ \E s \in {"dead", "run", "bm_run", "ud_commit", "ud_unlink", "ud_exit", "ud_poll",
                                 "bm_exit", "ag_run", "ag_commit", "ag_exit"} : pc' = [pc EXCEPT ![p] = s]
        /\ mapped' = mapped \/ free_memory(p)
    BY <1>5 DEF Ending, Exits, MapsOwn, MapsOthers, agnocast_ioctl_get_exit_process,
                agnocast_commit_exit, ShmUnlink, ResignsAsManager, ClaimsDomain,
                DiscoveryAgentShouldExit, DiscoveryAgentCommitExit, Goto, kernelVars
  <2>2. \A k \in Pools : mapped[k] = {} => mapped'[k] = {}
    BY <2>1 DEF free_memory
  <2>3. \A x \in Enrolled : x \in Enrolled'
    BY <1>0, <2>1 DEF Enrolled
  <2> QED BY <2>2, <2>3, CountFrame
<1>6. ASSUME NEW p \in Pids, NEW others \in SUBSET shm, ReferenceMemory(p, others) PROVE PoolsCounted'
  <2>1. /\ pc' = pc /\ reference_memory(p, others)
        /\ \A o \in others : o \in DOMAIN info /\ ~info[o].exited
    BY <1>6 DEF ReferenceMemory
  <2>2. \A o \in others : o \in mapped[info[o].pool]
    BY <2>1 DEF PoolsInv, PoolsOwned, Alive
  <2>3. \A k \in Pools : mapped[k] = {} => mapped'[k] = {}
    BY <2>1, <2>2 DEF reference_memory
  <2> QED BY <2>1, <2>3, CountFrame DEF Enrolled
<1>7. CASE WorkerStep
  <2>1. pc' = pc
    BY <1>7 DEF WorkerStep, WorkerWakes, WorkerDequeues, agnocast_process_exit_cleanup, userVars
  <2>2. mapped' = mapped \/ \E x : mapped' = [k \in Pools |-> mapped[k] \ {x}]
    BY <1>7 DEF WorkerStep, WorkerWakes, WorkerDequeues, agnocast_process_exit_cleanup, free_memory
  <2>3. \A k \in Pools : mapped[k] = {} => mapped'[k] = {}
    BY <2>2
  <2> QED BY <2>1, <2>3, CountFrame DEF Enrolled
<1>8. Next => Effect
  BY NextIsEffect
<1> QED BY <1>1, <1>2, <1>3, <1>4, <1>5, <1>6, <1>7, <1>8 DEF Effect, ProcessEffect, Kinds

\* Who has yet to register finds a pool, if there are as many as processes.
LEMMA PoolLeft ==
  ASSUME PoolsCounted, MaxPid <= MempoolNum, NEW p \in Pids, p \notin Enrolled
  PROVE  FreePools # {}
<1> SUFFICES ASSUME FreePools = {} PROVE FALSE
  OBVIOUS
<1>1. UsedPools = Pools
  BY DEF UsedPools, FreePools
<1>2. Enrolled \in SUBSET Pids /\ Enrolled # Pids
  BY DEF Enrolled
<1>3. Cardinality(Enrolled) <= MaxPid /\ Cardinality(Enrolled) # MaxPid
  BY <1>2, FiniteSides, FS_Subset
<1>4. Cardinality(Enrolled) \in Nat
  BY <1>2, FiniteCounts
<1> QED BY <1>1, <1>3, <1>4, FiniteSides, ProcessesAssumption DEF PoolsCounted

-----------------------------------------------------------------------------
(* Part 8: the unlink daemon and the bridge manager.                       *)

\* Whoever was told of an unlink daemon, or has forked one, has one; so has every file.
UnlinkServes ==
  (\E q \in Pids : Served(q, "unlink")) \/ shm # {} => There("unlink", 0)

\* Without bridge managers there is nobody where only they are.
NoManagers == \A p \in Pids : pc[p] \notin ManagerStates

\* Nobody forks a bridge manager.
LEMMA NoManagersNext ==
  ASSUME Lifecycle, NoManagers, "bridge" \notin Daemons, [Next]_vars
  PROVE  NoManagers'
<1>0. pc \in [Pids -> AppStates \cup DaemonStates \cup {"unborn", "dead"}]
  BY DEF Lifecycle, TypeOK
<1>1. CASE UNCHANGED vars
  BY <1>1 DEF vars, NoManagers
<1>2. ASSUME NEW d \in Domains, StartApplication(d) PROVE NoManagers'
  BY <1>0, <1>2 DEF StartApplication, Goto, NoManagers, ManagerStates
<1>3. ASSUME NEW p \in Pids, NEW kind \in Kinds, Spawn(p, kind) PROVE NoManagers'
  <2>1. AfterSpawn(kind) \notin ManagerStates /\ (kind # "bridge" => Entry(kind) \notin ManagerStates)
    BY DEF AfterSpawn, Entry, ManagerStates, Kinds
  <2>2. CASE pc' = [pc EXCEPT ![p] = AfterSpawn(kind), ![nextPid] = Entry(kind)] /\ kind # "bridge"
    BY <1>0, <2>1, <2>2 DEF NoManagers
  <2>3. CASE pc' = [pc EXCEPT ![p] = AfterSpawn(kind)]
    BY <1>0, <2>1, <2>3 DEF NoManagers
  <2> QED BY <1>3, <2>2, <2>3 DEF Spawn, Goto
<1>4. ASSUME NEW p \in Pids, ProcessEffect(p), \A kind \in Kinds : ~Spawn(p, kind) PROVE NoManagers'
  <2>1. pc[p] \notin {"bm_add", "bm_map", "bm_run"}
    BY DEF NoManagers, ManagerStates
  <2>2. pc' = pc \/ \E s : s \notin ManagerStates /\ pc' = [pc EXCEPT ![p] = s]
    BY <1>4, <2>1 DEF ProcessEffect, Ending, Exits, Enrolls, MapsOwn, MapsOthers, ReferenceMemory,
                agnocast_ioctl_get_exit_process, agnocast_commit_exit, ShmUnlink, ResignsAsManager,
                ClaimsDomain, DiscoveryAgentShouldExit, DiscoveryAgentCommitExit, Goto, ManagerStates, Kinds
  <2> QED BY <1>0, <2>2 DEF NoManagers
<1>5. CASE WorkerStep
  BY <1>5 DEF WorkerStep, WorkerWakes, WorkerDequeues, agnocast_process_exit_cleanup, userVars, NoManagers
<1>6. Next => Effect
  BY NextIsEffect
<1> QED BY <1>1, <1>2, <1>3, <1>4, <1>5, <1>6 DEF Effect

\* An unlink daemon that is known is at work.
LEMMA KnownUnlink ==
  ASSUME Lifecycle, DaemonWorks, has_alive_unlink_daemon
  PROVE  \E u \in Pids : pc[u] \in WorkingUnlink
BY DEF has_alive_unlink_daemon, Registered, DaemonWorks, Lifecycle, TypeOK

\* A file is new only when its owner maps its pool.
LEMMA FilesStep ==
  ASSUME Lifecycle, [Next]_vars, NEW p \in shm', p \notin shm
  PROVE  p \in Pids /\ MapsOwn(p)
<1>1. Next => Effect
  BY NextIsEffect
<1>2. CASE UNCHANGED vars
  BY <1>2 DEF vars
<1>3. CASE WorkerStep
  BY <1>3 DEF WorkerStep, WorkerWakes, WorkerDequeues, agnocast_process_exit_cleanup, userVars
<1>4. ASSUME NEW d \in Domains, StartApplication(d) PROVE FALSE
  BY <1>4 DEF StartApplication
<1>5. ASSUME NEW q \in Pids, ProcessEffect(q), ~MapsOwn(q) PROVE FALSE
  BY <1>5 DEF ProcessEffect, Ending, Exits, Enrolls, Spawn, MapsOthers, ReferenceMemory,
              agnocast_ioctl_get_exit_process, agnocast_commit_exit, ShmUnlink, ResignsAsManager,
              ClaimsDomain, DiscoveryAgentShouldExit, DiscoveryAgentCommitExit
<1>6. ASSUME NEW q \in Pids, MapsOwn(q) PROVE p = q
  BY <1>6 DEF MapsOwn
<1> QED BY <1>1, <1>2, <1>3, <1>4, <1>5, <1>6 DEF Effect

\* The idle unlink daemon leaves only when no one is left whom it would have to serve.
LEMMA UnlinkLeaves ==
  ASSUME Lifecycle, Roles, FilesInv, NoManagers, NEW x \in Pids, agnocast_commit_exit(x), pc'[x] = "ud_exit"
  PROVE  /\ \A q \in Pids : ~Served(q, "unlink")
         /\ shm # {} => \E u \in Pids : u # x /\ pc[u] \in WorkingUnlink
<1>0. pc \in [Pids -> AppStates \cup DaemonStates \cup {"unborn", "dead"}]
      /\ shm \subseteq Pids /\ None \notin Pids
  BY DEF Lifecycle, TypeOK, Pids, None
<1>1. got[x] = None /\ \A p \in DOMAIN info \ {None} : info[p].role = "unlink_daemon"
  BY <1>0 DEF agnocast_commit_exit, Goto
<1>2. DOMAIN info \ {None} = DOMAIN info
  BY <1>0 DEF Lifecycle, TypeOK
<1>3. ASSUME NEW q \in Pids, pc[q] \in Serving PROVE FALSE
  BY <1>1, <1>2, <1>3, ServedRegistered
<1>4. ASSUME NEW p \in shm PROVE \E u \in Pids : u # x /\ pc[u] \in WorkingUnlink
  <2>1. p \in Pids /\ pc[p] \in MapStates \cup {"dead"}
    BY <1>0 DEF FilesInv, FilesWhere
  <2>2. pc[p] = "dead"
    BY <1>3, <2>1 DEF MapStates, Serving, NoManagers, ManagerStates
  <2>3. p \notin DOMAIN info
    BY <1>1, <1>2, <2>2 DEF FilesInv, DaemonWorks, WorkingUnlink
  <2>4. PICK u \in Pids : got[u] = p
    BY <2>2, <2>3 DEF FilesInv, LeftBehindIsKnown
  <2>5. u # x /\ pc[u] \in WorkingUnlink
    BY <1>0, <1>1, <2>1, <2>4 DEF Lifecycle, GotDead, WorkingUnlink
  <2> QED BY <2>5
<1> QED BY <1>3, <1>4 DEF Served

\* No step leaves a file, or an application that will make one, without unlink daemon.
LEMMA UnlinkServesNext ==
  ASSUME Lifecycle, Roles, FilesInv, PoolsCounted, NoManagers, UnlinkServes,
         ~DaemonsKilled, "unlink" \in Daemons, MaxPid <= MempoolNum, [Next]_vars
  PROVE  UnlinkServes'
<1>0. /\ pc \in [Pids -> AppStates \cup DaemonStates \cup {"unborn", "dead"}] /\ "unlink" \in Kinds
      /\ AtWork("unlink") = WorkingUnlink \cup {"ud_add"} /\ shm \subseteq Pids
  BY DEF Lifecycle, TypeOK, Kinds, AtWork, WorkingUnlink
<1>1. ASSUME There("unlink", 0), (\E q \in Pids : Served(q, "unlink")) \/ shm # {}
      PROVE  There("unlink", 0)'
  <2>1. PICK x \in Pids : pc[x] \in AtWork("unlink")
    BY <1>1 DEF There
  <2>2. CASE pc'[x] \in AtWork("unlink")
    BY <2>2 DEF There
  <2>3. CASE Ending(x)
    <3>1. pc[x] = "ud_add" /\ (has_alive_unlink_daemon \/ FreePools = {})
      BY <1>0, <2>1, <2>3 DEF Ending, Refused
    <3>2. FreePools # {}
      BY <3>1, PoolLeft DEF Enrolled
    <3>3. PICK u \in Pids : pc[u] \in WorkingUnlink
      BY <3>1, <3>2, KnownUnlink DEF FilesInv
    <3>4. pc'[u] = pc[u]
      BY <1>0, <2>3, <3>1, <3>3 DEF Ending, Exits, WorkingUnlink
    <3> QED BY <1>0, <3>3, <3>4 DEF There
  <2>4. CASE agnocast_commit_exit(x) /\ pc'[x] = "ud_exit"
    <3>1. PICK u \in Pids : u # x /\ pc[u] \in WorkingUnlink
      BY <1>1, <2>4, UnlinkLeaves
    <3>2. pc'[u] = pc[u]
      BY <1>0, <2>4, <3>1 DEF agnocast_commit_exit, Goto
    <3> QED BY <1>0, <3>1, <3>2 DEF There
  <2> QED BY <1>0, <2>1, <2>2, <2>3, <2>4, WorkStep
<1>2. ASSUME NEW q \in Pids, Served(q, "unlink")' PROVE There("unlink", 0)'
  <2>1. \/ Served(q, "unlink")
        \/ There("unlink", dom[q])'
        \/ Known("unlink", dom[q]) /\ (\E role, s : Enrolls(q, role, s))
    BY <1>0, <1>2, ServedStep
  <2>2. CASE Served(q, "unlink")
    BY <1>1, <2>2 DEF UnlinkServes
  <2>3. CASE There("unlink", dom[q])'
    BY <2>3 DEF There
  <2>4. CASE Known("unlink", dom[q]) /\ (\E role, s : Enrolls(q, role, s))
    <3>1. PICK u \in Pids : pc[u] \in WorkingUnlink
      BY <2>4, KnownUnlink DEF FilesInv, Known
    <3>2. pc[q] \in {"add", "ud_add", "bm_add"} /\ \E s : pc' = [pc EXCEPT ![q] = s]
      BY <2>4 DEF Enrolls, Goto
    <3>3. pc'[u] = pc[u]
      BY <1>0, <3>1, <3>2 DEF WorkingUnlink
    <3> QED BY <1>0, <3>1, <3>3 DEF There
  <2> QED BY <2>1, <2>2, <2>3, <2>4
<1>3. ASSUME NEW p \in shm' PROVE There("unlink", 0)'
  <2>1. CASE p \in shm
    BY <1>1, <2>1 DEF UnlinkServes
  <2>2. CASE p \notin shm
    <3>1. p \in Pids /\ MapsOwn(p)
      BY <2>2, FilesStep
    <3>2. pc[p] = "map"
      BY <3>1 DEF MapsOwn, NoManagers, ManagerStates
    <3>3. Served(p, "unlink")
      BY <3>2 DEF Served, Serving, Before
    <3> QED BY <1>1, <3>1, <3>3 DEF UnlinkServes
  <2> QED BY <2>1, <2>2
<1> QED BY <1>2, <1>3 DEF UnlinkServes

\* As long as no daemon is killed, pools do not run out and no bridge managers come and
\* go: whenever there is a shared memory file, an unlink daemon is there that has not
\* decided to leave or is about to register, and the file of a dead process is known to the
\* registry or to that daemon (poll_for_unlink, agnocast_ioctl_get_exit_process).
THEOREM FilesCovered ==
  ASSUME ~DaemonsKilled, "unlink" \in Daemons, "bridge" \notin Daemons, MaxPid <= MempoolNum
  PROVE  ReclaimSpec => []UnlinkingCovered
<1> DEFINE Inv == Lifecycle /\ PoolsInv /\ Roles /\ FilesInv /\ PoolsCounted /\ NoManagers /\ UnlinkServes
<1>1. Init => Inv
  <2>1. Init => NoManagers /\ UnlinkServes
    BY DEF Init, NoManagers, ManagerStates, UnlinkServes, Served, Serving
  <2> QED BY <2>1, LifecycleInit, PoolsAtFirst, RolesInit, FilesInit, CountedAtFirst
<1>2. Inv /\ [Next]_vars => Inv'
  <2>1. ASSUME Inv, [Next]_vars PROVE Inv'
    BY <2>1, LifecycleNext, PoolsKept, RolesNext, FilesNext, PoolsCountedNext, NoManagersNext, UnlinkServesNext
  <2> QED BY <2>1
<1>3. Inv => UnlinkingCovered
  <2>1. UnlinkServes => UnlinkDaemonCovers
    BY DEF UnlinkServes, There, AtWork, UnlinkDaemonCovers, UnlinkStates
  <2> QED BY <2>1 DEF FilesInv, UnlinkingCovered
<1>4. [Next /\ UNCHANGED <<part, loadVars>>]_<<part, vars, loadVars>> => [Next]_vars
  OBVIOUS
<1>5. ReclaimInit => Init
  BY DEF ReclaimInit
<1> HIDE DEF Inv
<1> QED BY <1>1, <1>2, <1>3, <1>4, <1>5, PTL DEF ReclaimSpec

\* Nobody is told to map anything where nobody subscribes.
NothingToMap == \A p \in Pids : mapping[p] = {}

\* A bridge manager in the registry that has not exited is at work.
ManagersWork ==
  \A p \in DOMAIN info : info[p].role = "bridge_manager" /\ ~info[p].exited => pc[p] \in WorkingManager

\* Whoever was told of a bridge manager, or has forked one, has one in its domain.
ManagerServes == \A q \in Pids : Served(q, "bridge") => There("bridge", dom[q])

\* Without subscriptions nothing is ever to be mapped.
LEMMA NothingToMapNext ==
  ASSUME Lifecycle, NothingToMap, ~Subscribing, [Next]_vars
  PROVE  NothingToMap'
<1>0. mapping \in [Pids -> SUBSET (Pools \X Pids)]
  BY DEF Lifecycle, TypeOK
<1>1. Next => Effect
  BY NextIsEffect
<1>2. CASE UNCHANGED vars
  BY <1>2 DEF vars, NothingToMap
<1>3. CASE WorkerStep \/ \E d \in Domains : StartApplication(d)
  BY <1>3 DEF WorkerStep, WorkerWakes, WorkerDequeues, agnocast_process_exit_cleanup, userVars,
              StartApplication, NothingToMap
<1>4. ASSUME NEW q \in Pids, ProcessEffect(q) PROVE NothingToMap'
  <2>1. mapping' = mapping \/ mapping' = [mapping EXCEPT ![q] = {}]
    BY <1>4 DEF ProcessEffect, Ending, Exits, Enrolls, Spawn, MapsOwn, MapsOthers, ReferenceMemory,
              agnocast_ioctl_get_exit_process, agnocast_commit_exit, ShmUnlink, ResignsAsManager,
              ClaimsDomain, DiscoveryAgentShouldExit, DiscoveryAgentCommitExit
  <2> QED BY <1>0, <2>1 DEF NothingToMap
<1> QED BY <1>1, <1>2, <1>3, <1>4 DEF Effect

\* A manager that works ends only by resigning.
LEMMA ManagerStays ==
  ASSUME NothingToMap, ~DaemonsKilled, NEW x \in Pids, pc[x] \in WorkingManager
  PROVE  ~Ending(x)
BY DEF Ending, Refused, NothingToMap, WorkingManager

\* A manager in the registry has just been entered, or was there before.
LEMMA ManagerEntries ==
  ASSUME Lifecycle, [Next]_vars, NEW p \in DOMAIN info', info'[p].role = "bridge_manager", ~info'[p].exited
  PROVE  \/ p \in DOMAIN info /\ info[p].role = "bridge_manager" /\ ~info[p].exited /\ ~ResignsAsManager(p)
         \/ \E s : Enrolls(p, "bridge_manager", s)
<1>0. DOMAIN info \subseteq Pids /\ info \in [DOMAIN info -> Info]
  BY DEF Lifecycle, TypeOK
<1>1. Next => Effect
  BY NextIsEffect
<1>2. ASSUME ResignsAsManager(p), p \in DOMAIN info PROVE FALSE
  BY <1>0, <1>2 DEF ResignsAsManager, agnocast_ioctl_notify_bridge_shutdown, Info
<1>3. CASE info' = info
  BY <1>2, <1>3
<1>4. CASE agnocast_process_exit_cleanup
  BY <1>2, <1>4, CleanupInfo
<1>5. ASSUME NEW q \in Pids, NEW role, NEW s, Enrolls(q, role, s)
      PROVE  \/ p \in DOMAIN info /\ info[p] = info'[p]
             \/ Enrolls(p, "bridge_manager", s)
  BY <1>5 DEF Enrolls, agnocast_ioctl_add_process
<1>6. ASSUME NEW q \in Pids, agnocast_commit_exit(q) PROVE p \in DOMAIN info /\ info[p] = info'[p]
  BY <1>6 DEF agnocast_commit_exit
<1>7. ASSUME NEW q \in Pids, ResignsAsManager(q)
      PROVE  p \in DOMAIN info /\ info[p].role = "bridge_manager" /\ ~info[p].exited
  <2>1. info' = [info EXCEPT ![q].role = "application"]
    BY <1>7 DEF ResignsAsManager, agnocast_ioctl_notify_bridge_shutdown
  <2>2. p \in DOMAIN info /\ (p = q => info'[p].role = "application") /\ (p # q => info'[p] = info[p])
    BY <1>0, <2>1 DEF Info
  <2> QED BY <2>2
<1>8. ASSUME NEW q \in Pids, ProcessEffect(q), ~ResignsAsManager(q), ~agnocast_commit_exit(q),
             ~ \E role, s : Enrolls(q, role, s)
      PROVE  info' = info
  BY <1>8 DEF ProcessEffect, Ending, Exits, Spawn, MapsOwn, MapsOthers, ReferenceMemory,
              agnocast_ioctl_get_exit_process, ShmUnlink,
              ClaimsDomain, DiscoveryAgentShouldExit, DiscoveryAgentCommitExit, kernelVars
<1>9. CASE UNCHANGED vars \/ WorkerWakes \/ WorkerDequeues \/ \E d \in Domains : StartApplication(d)
  BY <1>3, <1>9 DEF vars, WorkerWakes, WorkerDequeues, StartApplication, kernelVars
<1> QED BY <1>1, <1>2, <1>3, <1>4, <1>5, <1>6, <1>7, <1>8, <1>9 DEF Effect, WorkerStep

\* Managers keep working until they resign.
LEMMA ManagersWorkNext ==
  ASSUME Lifecycle, Lifecycle', NothingToMap, ManagersWork, ~DaemonsKilled, [Next]_vars
  PROVE  ManagersWork'
<1> SUFFICES ASSUME NEW p \in DOMAIN info', info'[p].role = "bridge_manager", ~info'[p].exited
             PROVE  pc'[p] \in WorkingManager
  BY DEF ManagersWork
<1>0. pc \in [Pids -> AppStates \cup DaemonStates \cup {"unborn", "dead"}] /\ p \in Pids
  BY DEF Lifecycle, TypeOK
<1>1. CASE \E s : Enrolls(p, "bridge_manager", s)
  BY <1>0, <1>1 DEF Enrolls, Goto, WorkingManager
<1>2. CASE p \in DOMAIN info /\ info[p].role = "bridge_manager" /\ ~info[p].exited /\ ~ResignsAsManager(p)
  <2>1. pc[p] \in WorkingManager /\ ~Ending(p)
    BY <1>0, <1>2, ManagerStays DEF ManagersWork
  <2>2. pc[p] \in AtWork("bridge") /\ "bridge" \in Kinds
    BY <2>1 DEF AtWork, Kinds, WorkingManager
  <2>3. pc'[p] \in AtWork("bridge")
    BY <1>0, <1>2, <2>1, <2>2, WorkStep
  <2>4. pc'[p] # "bm_add"
    BY DEF Lifecycle, RegistryFollows, RegStates
  <2> QED BY <2>3, <2>4 DEF AtWork, WorkingManager
<1> QED BY <1>1, <1>2, ManagerEntries

\* A bridge manager that is known is at work in its domain.
LEMMA KnownManager ==
  ASSUME Lifecycle, ManagersWork, NEW d, has_alive_bridge_manager(d)
  PROVE  \E b \in Pids : pc[b] \in WorkingManager /\ dom[b] = d
BY DEF has_alive_bridge_manager, Registered, Lifecycle, TypeOK, ManagersWork

\* A manager does not find its domain empty while an application is there.
LEMMA DomainHasTwo ==
  ASSUME Lifecycle, Roles, NEW b \in Pids, pc[b] \in WorkingManager, NEW q \in Pids, pc[q] \in Serving,
         dom[b] = dom[q]
  PROVE  ~DomainEmpty(dom[b])
<1> DEFINE S == {p \in DOMAIN info : info[p].role # "unlink_daemon" /\ dom[p] = dom[b]}
<1>1. b \in S /\ q \in S /\ b # q
  <2>1. q \in DOMAIN info /\ info[q].role = "application"
    BY ServedRegistered
  <2>2. b \in DOMAIN info /\ info[b].role = "bridge_manager"
    BY DEF Lifecycle, RegistryFollows, RegStates, WorkingManager, Roles, RolesFollow
  <2> QED BY <2>1, <2>2
<1>2. IsFiniteSet(S)
  BY FinitePids
<1> HIDE DEF S
<1>3. IsFiniteSet({b}) /\ Cardinality({b}) = 1
  BY FS_Singleton
<1>4. IsFiniteSet({b} \cup {q}) /\ Cardinality({b} \cup {q}) = 1 + 1
  BY <1>1, <1>3, FS_AddElement
<1>5. Cardinality({b} \cup {q}) <= Cardinality(S)
  BY <1>1, <1>2, FS_Subset
<1>6. Cardinality(S) \in Nat
  BY <1>2, FS_CardinalityType
<1>7. ~(Cardinality(S) <= 1)
  BY <1>4, <1>5, <1>6
<1>8. process_num_in_domain(dom[b]) = Cardinality(S)
  BY DEF process_num_in_domain, S
<1> QED BY <1>7, <1>8 DEF DomainEmpty

\* No step leaves an application without its bridge manager: the manager counts the
\* processes of its domain in the step that takes it off the registry as a manager.
LEMMA ManagerServesNext ==
  ASSUME Lifecycle, Roles, PoolsCounted, NothingToMap, ManagersWork, ManagerServes,
         ~DaemonsKilled, "bridge" \in Daemons, MaxPid <= MempoolNum, [Next]_vars
  PROVE  ManagerServes'
<1> SUFFICES ASSUME NEW q \in Pids, Served(q, "bridge")' PROVE There("bridge", dom[q])'
  BY DEF ManagerServes
<1>0. /\ pc \in [Pids -> AppStates \cup DaemonStates \cup {"unborn", "dead"}] /\ "bridge" \in Kinds
      /\ AtWork("bridge") = WorkingManager \cup {"bm_add"}
  BY DEF Lifecycle, TypeOK, Kinds, AtWork, WorkingManager
<1>1. /\ dom'[q] = dom[q]
      /\ \/ Served(q, "bridge")
         \/ There("bridge", dom[q])'
         \/ Known("bridge", dom[q]) /\ (\E role, s : Enrolls(q, role, s))
  BY <1>0, ServedStep
<1>2. CASE Served(q, "bridge")
  <2>1. PICK x \in Pids : pc[x] \in AtWork("bridge") /\ dom[x] = dom[q]
    BY <1>2 DEF ManagerServes, There
  <2>2. CASE pc'[x] \in AtWork("bridge") /\ dom'[x] = dom[x]
    BY <1>1, <2>1, <2>2 DEF There
  <2>3. CASE Ending(x)
    <3>1. pc[x] = "bm_add"
      BY <1>0, <2>1, <2>3, ManagerStays
    <3>2. has_alive_bridge_manager(dom[x])
      BY <2>3, <3>1, PoolLeft DEF Ending, Refused, Enrolled
    <3>3. PICK b \in Pids : pc[b] \in WorkingManager /\ dom[b] = dom[x]
      BY <3>2, KnownManager
    <3>4. pc'[b] = pc[b] /\ dom'[b] = dom[b]
      BY <1>0, <2>3, <3>1, <3>3 DEF Ending, Exits, WorkingManager
    <3> QED BY <1>0, <1>1, <2>1, <3>3, <3>4 DEF There
  <2>4. CASE ResignsAsManager(x) /\ (DaemonsKilled \/ DomainEmpty(dom[x]))
    <3>1. pc[x] \in WorkingManager
      BY <2>4 DEF ResignsAsManager, WorkingManager
    <3> QED BY <1>2, <2>1, <2>4, <3>1, DomainHasTwo DEF Served
  <2> QED BY <1>0, <2>1, <2>2, <2>3, <2>4, WorkStep
<1>3. CASE Known("bridge", dom[q]) /\ (\E role, s : Enrolls(q, role, s))
  <2>1. PICK b \in Pids : pc[b] \in WorkingManager /\ dom[b] = dom[q]
    BY <1>3, KnownManager DEF Known
  <2>2. pc[q] \in {"add", "ud_add", "bm_add"} /\ dom' = dom /\ \E s : pc' = [pc EXCEPT ![q] = s]
    BY <1>3 DEF Enrolls, Goto
  <2>3. pc'[b] = pc[b] /\ dom'[b] = dom[b]
    BY <1>0, <2>1, <2>2 DEF WorkingManager
  <2> QED BY <1>0, <1>1, <2>1, <2>3 DEF There
<1> QED BY <1>1, <1>2, <1>3

\* As long as no daemon is killed, pools do not run out and no manager fails to map what it
\* subscribes to, every running application has a bridge manager in its domain that has not
\* resigned, whoever registered while it was about to (check_and_request_shutdown).
THEOREM ManagersCover ==
  ASSUME ~DaemonsKilled, ~Subscribing, "bridge" \in Daemons, MaxPid <= MempoolNum
  PROVE  Spec => []BridgeManagerCovers
<1> DEFINE Inv == /\ Lifecycle /\ PoolsInv /\ Roles /\ PoolsCounted
                  /\ NothingToMap /\ ManagersWork /\ ManagerServes
<1>1. Init => Inv
  <2>1. Init => NothingToMap /\ ManagersWork /\ ManagerServes
    BY DEF Init, NothingToMap, ManagersWork, ManagerServes, Served, Serving
  <2> QED BY <2>1, LifecycleInit, PoolsAtFirst, RolesInit, CountedAtFirst
<1>2. Inv /\ [Next]_vars => Inv'
  <2>1. ASSUME Inv, [Next]_vars PROVE Inv'
    BY <2>1, LifecycleNext, PoolsKept, RolesNext, PoolsCountedNext, NothingToMapNext,
       ManagersWorkNext, ManagerServesNext
  <2> QED BY <2>1
<1>3. Inv => BridgeManagerCovers
  BY DEF BridgeManagerCovers, ManagerServes, Served, Serving, Before, There, AtWork, ManagerStates
<1> HIDE DEF Inv
<1> QED BY <1>1, <1>2, <1>3, PTL DEF Spec


-----------------------------------------------------------------------------
(* Part 9: the kernel module is loaded and removed (ModuleLoad).           *)

\* What is left to release when the module is removed, and when a load has failed.
ExitPlans ==
  {<<"probe", "synchronize", "stop", "join", "tables", "pools", "device">>,
   <<"synchronize", "stop", "join", "tables", "pools", "device">>,
   <<"stop", "join", "tables", "pools", "device">>,
   <<"join", "tables", "pools", "device">>,
   <<"tables", "pools", "device">>, <<"pools", "device">>, <<"device">>}
UndoPlans ==
  {<<"probe", "synchronize", "stop", "join", "device">>,
   <<"synchronize", "stop", "join", "device">>,
   <<"stop", "join", "device">>, <<"join", "device">>, <<"device">>}

\* A part that is released leaves the rest of the plan.
LEMMA ExitPlan ==
  ASSUME NEW t \in ExitPlans
  PROVE  /\ t # <<>> /\ Head(t) \in {"probe", "synchronize", "stop", "join", "tables", "pools", "device"}
         /\ Head(t) # "device" => Tail(t) \in ExitPlans
         /\ Head(t) = "probe" => Head(Tail(t)) = "synchronize"
         /\ Head(t) = "synchronize" => Head(Tail(t)) = "stop"
         /\ Head(t) = "stop" => Head(Tail(t)) = "join"
         /\ Head(t) = "join" => Head(Tail(t)) = "tables"
         /\ Head(t) = "tables" => Head(Tail(t)) = "pools"
         /\ Head(t) = "pools" => Head(Tail(t)) = "device"
<1>1. CASE t = <<"probe", "synchronize", "stop", "join", "tables", "pools", "device">>
  <2>1. Tail(t) = <<"synchronize", "stop", "join", "tables", "pools", "device">>
    BY <1>1
  <2> QED BY <1>1, <2>1 DEF ExitPlans
<1>2. CASE t = <<"synchronize", "stop", "join", "tables", "pools", "device">>
  <2>1. Tail(t) = <<"stop", "join", "tables", "pools", "device">>
    BY <1>2
  <2> QED BY <1>2, <2>1 DEF ExitPlans
<1>3. CASE t = <<"stop", "join", "tables", "pools", "device">>
  <2>1. Tail(t) = <<"join", "tables", "pools", "device">>
    BY <1>3
  <2> QED BY <1>3, <2>1 DEF ExitPlans
<1>4. CASE t = <<"join", "tables", "pools", "device">>
  <2>1. Tail(t) = <<"tables", "pools", "device">>
    BY <1>4
  <2> QED BY <1>4, <2>1 DEF ExitPlans
<1>5. CASE t = <<"tables", "pools", "device">>
  <2>1. Tail(t) = <<"pools", "device">>
    BY <1>5
  <2> QED BY <1>5, <2>1 DEF ExitPlans
<1>6. CASE t = <<"pools", "device">>
  <2>1. Tail(t) = <<"device">>
    BY <1>6
  <2> QED BY <1>6, <2>1 DEF ExitPlans
<1>7. CASE t = <<"device">>
  BY <1>7
<1> QED BY <1>1, <1>2, <1>3, <1>4, <1>5, <1>6, <1>7 DEF ExitPlans

\* ... the same for a load that failed.
LEMMA UndoPlan ==
  ASSUME NEW t \in UndoPlans
  PROVE  /\ t # <<>> /\ Head(t) \in {"probe", "synchronize", "stop", "join", "device"}
         /\ Head(t) # "device" => Tail(t) \in UndoPlans
         /\ Head(t) = "probe" => Head(Tail(t)) = "synchronize"
         /\ Head(t) = "synchronize" => Head(Tail(t)) = "stop"
         /\ Head(t) = "stop" => Head(Tail(t)) = "join"
         /\ Head(t) = "join" => Head(Tail(t)) = "device"
<1>1. CASE t = <<"probe", "synchronize", "stop", "join", "device">>
  <2>1. Tail(t) = <<"synchronize", "stop", "join", "device">>
    BY <1>1
  <2> QED BY <1>1, <2>1 DEF UndoPlans
<1>2. CASE t = <<"synchronize", "stop", "join", "device">>
  <2>1. Tail(t) = <<"stop", "join", "device">>
    BY <1>2
  <2> QED BY <1>2, <2>1 DEF UndoPlans
<1>3. CASE t = <<"stop", "join", "device">>
  <2>1. Tail(t) = <<"join", "device">>
    BY <1>3
  <2> QED BY <1>3, <2>1 DEF UndoPlans
<1>4. CASE t = <<"join", "device">>
  <2>1. Tail(t) = <<"device">>
    BY <1>4
  <2> QED BY <1>4, <2>1 DEF UndoPlans
<1>5. CASE t = <<"device">>
  BY <1>5
<1> QED BY <1>1, <1>2, <1>3, <1>4, <1>5 DEF UndoPlans

\* The part that is released next.
Part == Head(teardown)

\* Types, and a plan that fits the occasion.
LoadTypes ==
  /\ stage \in {"absent", "device", "worker", "probe", "pools", "live", "leaving"}
  /\ going \in BOOLEAN /\ stopping \in BOOLEAN
  /\ thread \in {"none", "wait", "drain", "clean"}
  /\ exitQueue \in Seq(Procs)
  /\ registry \subseteq Procs
  /\ proc \in [Procs -> {"out", "open", "closed", "probe", "dead"}]
  /\ stage = "leaving" => teardown \in IF going THEN ExitPlans ELSE UndoPlans

\* What is held follows the order of acquisition and of release.
Device == {"chrdev", "class", "device"}
HeldInOrder ==
  /\ stage \in {"absent", "device"} => held = {}
  /\ stage = "worker" => held = Device
  /\ stage = "probe" => held = Device \cup {"worker"}
  /\ stage = "pools" => held = Device \cup {"worker", "probe"}
  /\ stage = "live" => held = Device \cup {"worker", "probe", "pools"}
  /\ stage = "leaving" =>
       /\ held \subseteq Device \cup {"worker", "probe", "pools"}
       /\ "probe" \in held <=> Part = "probe"
       /\ "worker" \in held <=> Part \in {"probe", "synchronize", "stop", "join"}
       /\ "pools" \in held <=> going /\ Part # "device"
  /\ going => stage = "leaving" /\ \A p \in Procs : proc[p] # "open"

\* The worker is told to stop when no probe runs any more.
WorkerStays ==
  /\ "worker" \in held /\ ~stopping => thread # "none"
  /\ "worker" \notin held => thread = "none"
  /\ stopping => \/ stage = "absent"
                 \/ stage = "leaving" /\ Part \in {"join", "tables", "pools", "device"}
  /\ (\E p \in Procs : proc[p] = "probe") =>
       "probe" \in held \/ (stage = "leaving" /\ Part = "synchronize")

\* Who registers while the module loads is early; the tables are emptied by its removal.
TablesEmptied ==
  /\ stage # "live" /\ ~going => registry \subseteq early
  /\ stage = "leaving" /\ going /\ Part \in {"pools", "device"} => registry = {}

\* In use, who is dead and not early is queued or in the worker's hands.
ExitsQueued ==
  stage = "live" =>
    \A p \in registry \ (exited \cup early) :
      proc[p] = "dead" => p \in L!ToSet(exitQueue) \/ (thread = "clean" /\ taken = p)

\* The invariant of the module's life.
LoadInv ==
  LoadTypes /\ HeldInOrder /\ WorkerStays /\ TablesEmptied /\ ExitsQueued /\ L!FaultsOnlyEarly

\* There is no module at first.
LEMMA LoadStarts == L!Init => LoadInv
<1>1. L!Init => LoadTypes
  <2>1. <<>> \in Seq(Procs)
    OBVIOUS
  <2>2. L!Init => proc \in [Procs -> {"out", "open", "closed", "probe", "dead"}]
    BY DEF L!Init
  <2> QED BY <2>1, <2>2 DEF L!Init, LoadTypes
<1>2. L!Init => HeldInOrder /\ WorkerStays
  BY DEF L!Init, HeldInOrder, WorkerStays
<1>3. L!Init => TablesEmptied /\ ExitsQueued /\ L!FaultsOnlyEarly
  BY DEF L!Init, TablesEmptied, ExitsQueued, L!FaultsOnlyEarly
<1> QED BY <1>1, <1>2, <1>3 DEF LoadInv

\* ... and its life stands still with it.
LEMMA LoadStutters == LoadInv /\ UNCHANGED loadVars => LoadInv'
BY DEF loadVars, LoadInv, LoadTypes, HeldInOrder, WorkerStays, TablesEmptied, ExitsQueued,
       L!FaultsOnlyEarly, Part, L!ToSet

\* The data of a module that is loaded are laid out anew.
LEMMA InsmodKeeps ==
  ASSUME LoadInv, ~fault, L!Insmod
  PROVE  LoadInv'
<1>1. LoadTypes'
  <2>1. <<>> \in Seq(Procs)
    OBVIOUS
  <2> QED BY <2>1 DEF L!Insmod, LoadInv, LoadTypes
<1>2. HeldInOrder'
  BY DEF L!Insmod, LoadInv, HeldInOrder
<1>3. WorkerStays'
  BY DEF L!Insmod, LoadInv, HeldInOrder, WorkerStays
<1>4. (TablesEmptied /\ ExitsQueued /\ L!FaultsOnlyEarly)'
  BY DEF L!Insmod, LoadInv, TablesEmptied, ExitsQueued, L!FaultsOnlyEarly
<1> QED BY <1>1, <1>2, <1>3, <1>4 DEF LoadInv

\* Each part is acquired on top of the others.
LEMMA AcquireKeeps ==
  ASSUME LoadInv, ~fault,
         \/ L!agnocast_init_device \/ L!agnocast_init_kthread \/ L!agnocast_init_exit_hook
         \/ L!init_memory_allocator
  PROVE  LoadInv'
<1>1. CASE L!agnocast_init_device
  BY <1>1 DEF L!agnocast_init_device, L!workerVars, L!tableVars, LoadInv, LoadTypes, HeldInOrder,
     WorkerStays, TablesEmptied, ExitsQueued, L!FaultsOnlyEarly, Device
<1>2. CASE L!agnocast_init_kthread
  BY <1>2 DEF L!agnocast_init_kthread, L!tableVars, LoadInv, LoadTypes, HeldInOrder,
     WorkerStays, TablesEmptied, ExitsQueued, L!FaultsOnlyEarly, Device
<1>3. CASE L!agnocast_init_exit_hook
  BY <1>3 DEF L!agnocast_init_exit_hook, L!workerVars, L!tableVars, LoadInv, LoadTypes, HeldInOrder,
     WorkerStays, TablesEmptied, ExitsQueued, L!FaultsOnlyEarly, Device
<1>4. CASE L!init_memory_allocator
  BY <1>4 DEF L!init_memory_allocator, L!workerVars, L!tableVars, LoadInv, LoadTypes, HeldInOrder,
     WorkerStays, TablesEmptied, ExitsQueued, L!FaultsOnlyEarly, Device
<1> QED BY <1>1, <1>2, <1>3, <1>4

\* A load that fails releases what it has.
LEMMA FailsKeeps ==
  ASSUME LoadInv, ~fault, NEW acquired \in {"worker", "probe", "pools"}, L!Fails(acquired)
  PROVE  LoadInv'
<1>0. /\ stage = acquired /\ stage' = "leaving" /\ ~going
      /\ UNCHANGED <<going, held, thread, stopping, exitQueue, taken, registry, pooled, exited,
                     fault, early, proc>>
  BY DEF L!Fails, L!workerVars, L!tableVars, LoadInv, HeldInOrder
<1>1. /\ teardown' \in UndoPlans
      /\ Part' = (CASE acquired = "worker" -> "device" [] acquired = "probe" -> "stop"
                    [] acquired = "pools" -> "probe")
  BY DEF L!Fails, L!Undo, UndoPlans, Part
<1>2. LoadTypes'
  BY <1>0, <1>1 DEF LoadInv, LoadTypes
<1>3. HeldInOrder'
  BY <1>0, <1>1 DEF LoadInv, HeldInOrder, Device
<1>4. WorkerStays'
  BY <1>0, <1>1 DEF LoadInv, HeldInOrder, WorkerStays, Device
<1>5. (TablesEmptied /\ ExitsQueued /\ L!FaultsOnlyEarly)'
  BY <1>0 DEF LoadInv, TablesEmptied, ExitsQueued, L!FaultsOnlyEarly
<1> QED BY <1>2, <1>3, <1>4, <1>5 DEF LoadInv

\* A module is removed when nobody has the device open.
LEMMA RmmodKeeps ==
  ASSUME LoadInv, ~fault, L!Rmmod
  PROVE  LoadInv'
<1>0. /\ stage = "live" /\ stage' = "leaving" /\ going' = TRUE /\ \A p \in Procs : proc[p] # "open"
      /\ UNCHANGED <<held, thread, stopping, exitQueue, taken, registry, pooled, exited,
                     fault, early, proc>>
  BY DEF L!Rmmod, L!workerVars, L!tableVars
<1>1. teardown' \in ExitPlans /\ Part' = "probe"
  BY DEF L!Rmmod, L!agnocast_exit, ExitPlans, Part
<1>2. LoadTypes'
  BY <1>0, <1>1 DEF LoadInv, LoadTypes
<1>3. HeldInOrder'
  BY <1>0, <1>1 DEF LoadInv, HeldInOrder, Device
<1>4. WorkerStays'
  BY <1>0, <1>1 DEF LoadInv, HeldInOrder, WorkerStays, Device
<1>5. (TablesEmptied /\ ExitsQueued /\ L!FaultsOnlyEarly)'
  BY <1>0, <1>1 DEF LoadInv, TablesEmptied, ExitsQueued, L!FaultsOnlyEarly
<1> QED BY <1>2, <1>3, <1>4, <1>5 DEF LoadInv

\* The steps of a removal, up to the device.
LEMMA ReleaseKeeps ==
  ASSUME LoadInv, ~fault,
         \/ L!tracepoint_probe_unregister \/ L!tracepoint_synchronize_unregister
         \/ L!kthread_stop \/ L!agnocast_exit_free_data \/ L!cleanup_memory_allocator
  PROVE  LoadInv'
<1>0. /\ stage = "leaving" /\ stage' = "leaving" /\ teardown' = Tail(teardown)
      /\ Part # "device" /\ UNCHANGED <<going, early, proc, fault, thread, exitQueue, taken>>
  BY DEF L!tracepoint_probe_unregister, L!tracepoint_synchronize_unregister, L!kthread_stop,
     L!agnocast_exit_free_data, L!cleanup_memory_allocator, L!Step, L!workerVars, L!tableVars, Part
<1>1. /\ teardown' \in IF going THEN ExitPlans ELSE UndoPlans
      /\ Part = "probe" => Part' = "synchronize"
      /\ Part = "synchronize" => Part' = "stop"
      /\ Part = "stop" => Part' = "join"
      /\ Part = "join" => Part' = IF going THEN "tables" ELSE "device"
      /\ Part = "tables" => Part' = "pools" /\ going
      /\ Part = "pools" => Part' = "device" /\ going
  <2>1. CASE going
    BY <1>0, <2>1, ExitPlan DEF LoadInv, LoadTypes, Part
  <2>2. CASE ~going
    BY <1>0, <2>2, UndoPlan DEF LoadInv, LoadTypes, Part
  <2> QED BY <2>1, <2>2
<1>2. CASE L!tracepoint_probe_unregister
  <2>0. Part = "probe" /\ held' = held \ {"probe"} /\ UNCHANGED <<stopping, registry, exited>>
    BY <1>2 DEF L!tracepoint_probe_unregister, L!Step, L!workerVars, L!tableVars, Part
  <2> QED BY <1>0, <1>1, <2>0 DEF LoadInv, LoadTypes, HeldInOrder, WorkerStays, TablesEmptied,
             ExitsQueued, L!FaultsOnlyEarly, Device
<1>3. CASE L!tracepoint_synchronize_unregister
  <2>0. /\ Part = "synchronize" /\ \A p \in Procs : proc[p] # "probe"
        /\ UNCHANGED <<held, stopping, registry, exited>>
    BY <1>3 DEF L!tracepoint_synchronize_unregister, L!Step, L!workerVars, L!tableVars, Part
  <2> QED BY <1>0, <1>1, <2>0 DEF LoadInv, LoadTypes, HeldInOrder, WorkerStays, TablesEmptied,
             ExitsQueued, L!FaultsOnlyEarly, Device
<1>4. CASE Part = "stop" /\ stopping' = TRUE /\ UNCHANGED <<held, registry, exited>>
  BY <1>0, <1>1, <1>4 DEF LoadInv, LoadTypes, HeldInOrder, WorkerStays, TablesEmptied,
             ExitsQueued, L!FaultsOnlyEarly, Device
<1>5. CASE Part = "join" /\ thread = "none" /\ held' = held \ {"worker"}
           /\ UNCHANGED <<stopping, registry, exited>>
  BY <1>0, <1>1, <1>5 DEF LoadInv, LoadTypes, HeldInOrder, WorkerStays, TablesEmptied,
             ExitsQueued, L!FaultsOnlyEarly, Device
<1>6. CASE L!agnocast_exit_free_data
  <2>0. Part = "tables" /\ registry' = {} /\ UNCHANGED <<held, stopping>>
    BY <1>6 DEF L!agnocast_exit_free_data, L!Step, L!workerVars, Part
  <2> QED BY <1>0, <1>1, <2>0 DEF LoadInv, LoadTypes, HeldInOrder, WorkerStays, TablesEmptied,
             ExitsQueued, L!FaultsOnlyEarly, Device
<1>7. CASE L!cleanup_memory_allocator
  <2>0. Part = "pools" /\ held' = held \ {"pools"} /\ UNCHANGED <<stopping, registry, exited>>
    BY <1>7 DEF L!cleanup_memory_allocator, L!Step, L!workerVars, L!tableVars, Part
  <2> QED BY <1>0, <1>1, <2>0 DEF LoadInv, LoadTypes, HeldInOrder, WorkerStays, TablesEmptied,
             ExitsQueued, L!FaultsOnlyEarly, Device
<1> QED BY <1>2, <1>3, <1>4, <1>5, <1>6, <1>7 DEF L!kthread_stop, L!Step, L!workerVars, L!tableVars, Part

\* The device goes last, and nothing is held any more.
LEMMA DeviceKeeps ==
  ASSUME LoadInv, ~fault, L!agnocast_exit_device
  PROVE  LoadInv'
<1>0. /\ stage = "leaving" /\ Part = "device" /\ stage' = "absent" /\ going' = FALSE
      /\ held' = held \ Device
      /\ proc' = [p \in Procs |-> IF proc[p] \in {"open", "closed"} THEN "out" ELSE proc[p]]
      /\ UNCHANGED <<thread, stopping, exitQueue, taken, registry, exited, fault, early>>
  BY DEF L!agnocast_exit_device, L!Step, L!workerVars, L!tableVars, Part, Device
<1>1. LoadTypes'
  BY <1>0 DEF LoadInv, LoadTypes
<1>2. held' = {} /\ HeldInOrder'
  BY <1>0 DEF LoadInv, LoadTypes, HeldInOrder, Device
<1>3. WorkerStays'
  <2>1. thread = "none" /\ \A p \in Procs : proc[p] # "probe"
    BY <1>0 DEF LoadInv, HeldInOrder, WorkerStays
  <2> QED BY <1>0, <1>2, <2>1
          DEF LoadInv, LoadTypes, WorkerStays
<1>4. (TablesEmptied /\ ExitsQueued /\ L!FaultsOnlyEarly)'
  BY <1>0 DEF LoadInv, TablesEmptied, ExitsQueued, L!FaultsOnlyEarly
<1> QED BY <1>1, <1>2, <1>3, <1>4 DEF LoadInv

\* Nobody opens the device of a module that is going.
LEMMA OpenKeeps ==
  ASSUME LoadInv, ~fault, NEW p \in Procs, L!Open(p) \/ L!Close(p)
  PROVE  LoadInv'
<1>0. /\ \/ proc[p] = "out" /\ ~going /\ proc' = [proc EXCEPT ![p] = "open"]
         \/ proc[p] = "open" /\ proc' = [proc EXCEPT ![p] = "closed"]
      /\ UNCHANGED <<stage, going, teardown, held, thread, stopping, exitQueue, taken,
                     registry, exited, fault, early>>
  BY DEF L!Open, L!Close, L!moduleVars, L!workerVars, L!tableVars
<1>1. LoadTypes'
  BY <1>0 DEF LoadInv, LoadTypes
<1>2. HeldInOrder' /\ WorkerStays'
  BY <1>0 DEF LoadInv, LoadTypes, HeldInOrder, WorkerStays, Part
<1>3. (TablesEmptied /\ L!FaultsOnlyEarly)'
  BY <1>0 DEF LoadInv, TablesEmptied, L!FaultsOnlyEarly, Part
<1>4. ExitsQueued'
  BY <1>0 DEF LoadInv, LoadTypes, ExitsQueued, L!ToSet
<1> QED BY <1>1, <1>2, <1>3, <1>4 DEF LoadInv

\* Who registers has the device open: the module is not going.
LEMMA RegisterKeeps ==
  ASSUME LoadInv, ~fault, NEW p \in Procs, NEW pool \in BOOLEAN, L!Register(p, pool)
  PROVE  LoadInv'
<1>0. /\ proc[p] = "open" /\ registry' = registry \cup {p}
      /\ fault' = (pool /\ "pools" \notin held)
      /\ early' = IF stage = "live" THEN early ELSE early \cup {p}
      /\ UNCHANGED <<stage, going, teardown, held, thread, stopping, exitQueue, taken,
                     exited, proc>>
  BY DEF L!Register, L!moduleVars, L!workerVars
<1>1. ~going
  BY <1>0 DEF LoadInv, HeldInOrder
<1>2. LoadTypes'
  BY <1>0 DEF LoadInv, LoadTypes
<1>3. HeldInOrder' /\ WorkerStays'
  BY <1>0 DEF LoadInv, HeldInOrder, WorkerStays, Part
<1>4. TablesEmptied'
  BY <1>0, <1>1 DEF LoadInv, TablesEmptied
<1>5. L!FaultsOnlyEarly'
  BY <1>0, <1>1 DEF LoadInv, HeldInOrder, L!FaultsOnlyEarly
<1>6. ExitsQueued'
  BY <1>0 DEF LoadInv, LoadTypes, ExitsQueued, L!ToSet
<1> QED BY <1>2, <1>3, <1>4, <1>5, <1>6 DEF LoadInv

\* Whoever exits while the module is in use runs the probe.
LEMMA ExitKeeps ==
  ASSUME LoadInv, ~fault, NEW p \in Procs, L!Exit(p)
  PROVE  LoadInv'
<1>0. /\ proc' = [proc EXCEPT ![p] = IF "probe" \in held THEN "probe" ELSE "dead"]
      /\ UNCHANGED <<stage, going, teardown, held, thread, stopping, exitQueue, taken,
                     registry, exited, fault, early>>
  BY DEF L!Exit, L!moduleVars, L!workerVars, L!tableVars
<1>1. LoadTypes'
  BY <1>0 DEF LoadInv, LoadTypes
<1>2. HeldInOrder' /\ WorkerStays'
  BY <1>0 DEF LoadInv, LoadTypes, HeldInOrder, WorkerStays, Part
<1>3. (TablesEmptied /\ L!FaultsOnlyEarly)'
  BY <1>0 DEF LoadInv, TablesEmptied, L!FaultsOnlyEarly, Part
<1>4. ExitsQueued'
  BY <1>0 DEF LoadInv, LoadTypes, HeldInOrder, ExitsQueued, L!ToSet
<1> QED BY <1>1, <1>2, <1>3, <1>4 DEF LoadInv

\* The probe queues whom it finds registered.
LEMMA ProbeKeeps ==
  ASSUME LoadInv, ~fault, NEW p \in Procs, L!agnocast_process_exit(p)
  PROVE  LoadInv'
<1>0. /\ proc[p] = "probe" /\ proc' = [proc EXCEPT ![p] = "dead"]
      /\ exitQueue' = IF p \in registry THEN Append(exitQueue, p) ELSE exitQueue
      /\ UNCHANGED <<stage, going, teardown, held, thread, stopping, taken,
                     registry, exited, fault, early>>
  BY DEF L!agnocast_process_exit, L!moduleVars, L!tableVars
<1>1. LoadTypes'
  BY <1>0 DEF LoadInv, LoadTypes
<1>2. HeldInOrder' /\ WorkerStays'
  BY <1>0 DEF LoadInv, LoadTypes, HeldInOrder, WorkerStays, Part
<1>3. (TablesEmptied /\ L!FaultsOnlyEarly)'
  BY <1>0 DEF LoadInv, TablesEmptied, L!FaultsOnlyEarly, Part
<1>4. L!ToSet(exitQueue') = L!ToSet(exitQueue) \cup (IF p \in registry THEN {p} ELSE {})
  BY <1>0 DEF LoadInv, LoadTypes, L!ToSet
<1>5. ExitsQueued'
  BY <1>0, <1>4 DEF LoadInv, LoadTypes, ExitsQueued
<1> QED BY <1>1, <1>2, <1>3, <1>5 DEF LoadInv

\* An exited process leaves the registry.
LEMMA CollectKeeps ==
  ASSUME LoadInv, ~fault, NEW p \in Procs, L!Collect(p)
  PROVE  LoadInv'
<1>0. /\ registry' = registry \ {p} /\ exited' = exited \ {p}
      /\ UNCHANGED <<stage, going, teardown, held, thread, stopping, exitQueue, taken,
                     proc, fault, early>>
  BY DEF L!Collect, L!moduleVars, L!workerVars
<1>1. LoadTypes'
  BY <1>0 DEF LoadInv, LoadTypes
<1>2. HeldInOrder' /\ WorkerStays'
  BY <1>0 DEF LoadInv, HeldInOrder, WorkerStays, Part
<1>3. (TablesEmptied /\ L!FaultsOnlyEarly)'
  BY <1>0 DEF LoadInv, TablesEmptied, L!FaultsOnlyEarly, Part
<1>4. ExitsQueued'
  BY <1>0 DEF LoadInv, LoadTypes, ExitsQueued, L!ToSet
<1> QED BY <1>1, <1>2, <1>3, <1>4 DEF LoadInv

\* The worker takes from the queue what it cleans, and cleans what it has taken.
LEMMA WorkerKeeps ==
  ASSUME LoadInv, ~fault, L!exit_worker_thread
  PROVE  LoadInv'
<1>0. UNCHANGED <<stage, going, teardown, held, stopping, early, proc>>
  BY DEF L!exit_worker_thread, L!moduleVars
<1>1. ASSUME thread = "wait", thread' = IF stopping THEN "none" ELSE "drain",
             UNCHANGED <<exitQueue, taken, registry, exited, fault>>
      PROVE  LoadInv'
  BY <1>0, <1>1 DEF LoadInv, LoadTypes, HeldInOrder, WorkerStays, TablesEmptied, ExitsQueued,
     L!FaultsOnlyEarly, L!ToSet, Part
<1>2. ASSUME thread = "drain", thread' = "wait", UNCHANGED <<exitQueue, taken, registry, exited, fault>>
      PROVE  LoadInv'
  BY <1>0, <1>2 DEF LoadInv, LoadTypes, HeldInOrder, WorkerStays, TablesEmptied, ExitsQueued,
     L!FaultsOnlyEarly, L!ToSet, Part
<1>3. ASSUME thread = "drain", exitQueue # <<>>, thread' = "clean", taken' = Head(exitQueue),
             exitQueue' = Tail(exitQueue), UNCHANGED <<registry, exited, fault>>
      PROVE  LoadInv'
  <2>1. /\ exitQueue' \in Seq(Procs)
        /\ L!ToSet(exitQueue) \subseteq L!ToSet(exitQueue') \cup {taken'}
    <3>1. ASSUME NEW i \in DOMAIN exitQueue PROVE exitQueue[i] \in L!ToSet(exitQueue') \cup {taken'}
      <4>1. CASE i = 1
        BY <1>3, <4>1
      <4>2. CASE i # 1
        <5>1. exitQueue \in Seq(Procs) /\ i \in 2 .. Len(exitQueue)
          BY <3>1, <4>2 DEF LoadInv, LoadTypes
        <5>2. i - 1 \in DOMAIN exitQueue' /\ exitQueue'[i - 1] = exitQueue[i]
          BY <1>3, <5>1
        <5> QED BY <5>2 DEF L!ToSet
      <4> QED BY <4>1, <4>2
    <3> QED BY <1>3, <3>1 DEF LoadInv, LoadTypes, L!ToSet
  <2>2. LoadTypes'
    BY <1>0, <1>3, <2>1 DEF LoadInv, LoadTypes
  <2>3. (HeldInOrder /\ WorkerStays /\ TablesEmptied /\ L!FaultsOnlyEarly)'
    BY <1>0, <1>3 DEF LoadInv, HeldInOrder, WorkerStays, TablesEmptied, L!FaultsOnlyEarly, Part
  <2>4. ExitsQueued'
    BY <1>0, <1>3, <2>1 DEF LoadInv, ExitsQueued
  <2> QED BY <2>2, <2>3, <2>4 DEF LoadInv
<1>4. ASSUME thread = "clean", thread' = "drain", UNCHANGED exitQueue,
             exited' = IF taken \in pooled THEN exited \cup {taken} ELSE exited,
             registry' = IF taken \in pooled THEN registry ELSE registry \ {taken},
             fault' = (taken \in pooled /\ "pools" \notin held)
      PROVE  LoadInv'
  <2>1. LoadTypes'
    BY <1>0, <1>4 DEF LoadInv, LoadTypes
  <2>2. (HeldInOrder /\ WorkerStays /\ TablesEmptied)'
    BY <1>0, <1>4 DEF LoadInv, HeldInOrder, WorkerStays, TablesEmptied, Part
  <2>3. L!FaultsOnlyEarly'
    BY <1>0, <1>4 DEF LoadInv, HeldInOrder, WorkerStays, LoadTypes, L!FaultsOnlyEarly
  <2>4. ExitsQueued'
    BY <1>0, <1>4 DEF LoadInv, ExitsQueued, L!ToSet
  <2> QED BY <2>1, <2>2, <2>3, <2>4 DEF LoadInv
<1> QED BY <1>1, <1>2, <1>3, <1>4 DEF L!exit_worker_thread

\* Every step keeps the invariant.
LEMMA LoadSteps == LoadInv /\ L!Next => LoadInv'
BY InsmodKeeps, AcquireKeeps, FailsKeeps, RmmodKeeps, ReleaseKeeps, DeviceKeeps, OpenKeeps,
   RegisterKeeps, ExitKeeps, ProbeKeeps, CollectKeeps, WorkerKeeps DEF L!Next

\* The invariant says what is promised.
LEMMA LoadSays ==
  LoadInv => L!NothingStays /\ L!ProbeHasWorker /\ L!ExitAttended /\ L!FaultsOnlyEarly
<1> SUFFICES ASSUME LoadInv PROVE L!NothingStays /\ L!ProbeHasWorker /\ L!ExitAttended
  BY DEF LoadInv
<1>1. L!NothingStays
  BY DEF LoadInv, HeldInOrder, WorkerStays, TablesEmptied, L!NothingStays
<1>2. L!ProbeHasWorker
  BY DEF LoadInv, LoadTypes, HeldInOrder, WorkerStays, Device, L!ProbeHasWorker
<1>3. L!ExitAttended
  BY DEF LoadInv, HeldInOrder, TablesEmptied, ExitsQueued, L!ExitAttended, L!Loading
<1> QED BY <1>1, <1>2, <1>3

\* Every running application has a bridge manager and a discovery agent; while the module
\* is in use, the exit of every registered process is on its way to the worker; the worker
\* outlives the probes that hand exits to it, a failed load and a removal leave nothing
\* behind, and the worker finds the pool table as long as it runs (agnocast_init,
\* agnocast_exit, exit_worker_thread).  The second instance of Processes in this run (part
\* "pools") has other constants: for it, TypeCorrect and SingleDaemons say the same.
THEOREM Attended ==
  ASSUME ~DaemonsKilled, ~Subscribing, {"bridge", "agent"} \subseteq Daemons, MaxPid <= MempoolNum
  PROVE  PoolsSpec => [](part # "pools" => NoneUnattended)
<1> DEFINE Inv == /\ Lifecycle /\ PoolsInv /\ Roles /\ PoolsCounted
                  /\ AgentsAlive /\ AgentServes /\ NothingToMap /\ ManagersWork /\ ManagerServes
           Both == (part # "pools" => Inv) /\ LoadInv
<1>1. Init => Inv
  <2>1. Init => /\ AgentsAlive /\ AgentServes
                /\ NothingToMap /\ ManagersWork /\ ManagerServes
    BY DEF Init, AgentsAlive, AgentServes, NothingToMap, ManagersWork, ManagerServes, Served, Serving
  <2> QED BY <2>1, LifecycleInit, PoolsAtFirst, RolesInit, CountedAtFirst
<1>2. ASSUME Inv, [Next]_vars PROVE Inv'
  BY <1>2, LifecycleNext, PoolsKept, RolesNext, PoolsCountedNext, AgentsAliveNext, AgentServesNext,
     NothingToMapNext, ManagersWorkNext, ManagerServesNext
<1>3. Inv => TypeOK /\ BridgeManagerCovers /\ AgentCovers /\ Singletons
  <2> SUFFICES ASSUME Inv PROVE TypeOK /\ BridgeManagerCovers /\ AgentCovers /\ Singletons
    OBVIOUS
  <2>1. TypeOK
    BY DEF Lifecycle
  <2>2. BridgeManagerCovers
    BY DEF BridgeManagerCovers, ManagerServes, Served, Serving, Before, There, AtWork, ManagerStates
  <2>3. AgentCovers
    BY DEF AgentCovers, AgentServes, Served, Serving, Before, There, AtWork, AgentStates
  <2>4. Singletons
    BY RolesSay
  <2> QED BY <2>1, <2>2, <2>3, <2>4
<1> HIDE DEF Inv
<1>4. PoolsInit => Both
  BY <1>1, LoadStarts DEF PoolsInit
<1>5. Both /\ [PoolsNext]_<<part, vars, loadVars>> => Both'
  BY <1>2, LoadSteps, LoadStutters DEF PoolsNext
<1>6. Both => (part # "pools" => NoneUnattended)
  BY <1>3, LoadSays DEF NoneUnattended
<1> QED BY <1>4, <1>5, <1>6, PTL DEF PoolsSpec

=============================================================================
