------------------------------- MODULE Bridge -------------------------------
(***************************************************************************)
(* The bridges between Agnocast and ROS 2: the bridge manager of each IPC  *)
(* namespace (agnocast_bridge_manager.cpp, agnocast_service_bridge.cpp),   *)
(* the discovery agents that compare namespaces over gossip and lease      *)
(* bridges (agent.py, bridge_decider.py), and the kernel's counts the      *)
(* managers decide on.  One channel is modelled: a topic, or a service,    *)
(* whose Agnocast side is its request topic.  A service is a subscriber    *)
(* of the request topic and a client a publisher, on the ROS 2 side too,   *)
(* so "pub" and "sub" name the roles of both kinds of channel.             *)
(*                                                                         *)
(* Time passes in rounds of one second: in a round every agent ticks once  *)
(* and every manager makes at least one sweep.                             *)
(***************************************************************************)
EXTENDS Naturals, FiniteSets, Sequences, SequencesExt

CONSTANTS
  Namespaces,   \* IPC namespaces, each with a manager and an agent
  Kinds,        \* the kinds of channel looked at: "topic", "service"
  MaxId,        \* bound: endpoints created in one life of the kernel's topic
  MaxChurn,     \* bound: endpoints and ROS 2 nodes that come or go
  ForceTTL,     \* DAEMON_FORCE_TTL in rounds
  StaleAfter,   \* REMOTE_STATE_STALE_SEC in rounds
  Settle,       \* rounds without a change after which bridges are in place
  None

ASSUME BridgeConstants ==
  /\ ForceTTL \in Nat \ {0, 1}
  /\ StaleAfter \in Nat \ {0}
  /\ Kinds \subseteq {"topic", "service"}

VARIABLES
  kind,      \* what the channel is
  loadable,  \* the type's plugin or generic bridge can be created
  ros,       \* roles played by plain ROS 2 nodes on the channel
  app,       \* Agnocast endpoints of applications: [id, role]
  nextId,
  pending,   \* pending_msgs_, the datagrams of the socket included
  pc,        \* the worker waits, or has dispatched and is about to sweep
  cache,     \* request_cache_
  forced,    \* daemon_forced_r2a_, daemon_forced_a2r_: rounds left
  item,      \* active_service_bridges_: the item of the service
  active,    \* directions with a bridge
  rosNum,    \* ros2_publisher_num, ros2_subscriber_num of the kernel's topic
  gossip,    \* the last snapshot each agent has published
  remote,    \* _remote_states: snapshot and age
  ticked, swept,
  churn,     \* changes of the environment so far
  quiet      \* rounds since the last one, up to Settle

envVars == <<kind, loadable, ros, churn, quiet>>
kernelVars == <<app, nextId, rosNum>>
agentVars == <<gossip, remote, ticked>>
managerVars == <<pc, cache, forced, item, active, swept>>
vars == <<kind, loadable, ros, app, nextId, rosNum, pending, pc, cache,
          forced, item, active, swept, gossip, remote, ticked, churn, quiet>>

Directions == {"r2a", "a2r"}
Roles == {"pub", "sub"}
Opposite(role) == IF role = "pub" THEN "sub" ELSE "pub"

\* The local Agnocast endpoints a direction serves; the bridge itself is an
\* Agnocast endpoint of the opposite role, and a ROS 2 endpoint of this one.
Serves(dir) == IF dir = "r2a" THEN "sub" ELSE "pub"
DirectionOf(role) == IF role = "sub" THEN "r2a" ELSE "a2r"

Endpoint == [id : 1..MaxId, role : Roles]
Message == [type : {"request"}, id : 1..MaxId, role : Roles]
             \cup [type : {"daemon"}, dir : Directions]
Item == [r2a : BOOLEAN, a2r : BOOLEAN, shadow : BOOLEAN, lease : 0..ForceTTL]
Snapshot == SUBSET [role : Roles, bridge : BOOLEAN]

TypeOK ==
  /\ kind \in Kinds /\ loadable \in BOOLEAN /\ ros \subseteq Roles
  /\ churn \in 0..MaxChurn /\ quiet \in 0..Settle
  /\ app \in [Namespaces -> SUBSET Endpoint]
  /\ nextId \in [Namespaces -> 1..MaxId + 1]
  /\ rosNum \in [Namespaces -> [Roles -> Nat]]
  /\ pending \in [Namespaces -> Seq(Message)]
  /\ pc \in [Namespaces -> {"wait", "sweep"}]
  /\ cache \in [Namespaces -> SUBSET Endpoint]
  /\ forced \in [Namespaces -> [Directions -> 0..ForceTTL]]
  /\ item \in [Namespaces -> Item \cup {None}]
  /\ active \in [Namespaces -> SUBSET Directions]
  /\ kind = "service" => \A n \in Namespaces : item[n] = None => active[n] = {}
  /\ gossip \in [Namespaces -> Snapshot \cup {None}]
  /\ remote \in [Namespaces -> [Namespaces ->
                   [snap : Snapshot, age : 0..StaleAfter] \cup {None}]]
  /\ ticked \in [Namespaces -> BOOLEAN] /\ swept \in [Namespaces -> BOOLEAN]

Registration(e) == [type |-> "request", id |-> e.id, role |-> e.role]

\* A namespace starts with at most one endpoint, whose registration is on its
\* way to the manager; plain ROS 2 nodes may be there before a namespace is.
Init ==
  /\ kind \in Kinds
  /\ loadable \in BOOLEAN
  /\ churn = 0 /\ quiet = 0
  /\ app \in [Namespaces -> {{}} \cup {{[id |-> 1, role |-> r]} : r \in Roles}]
  /\ ros \in SUBSET Roles
  /\ \E n \in Namespaces : app[n] = {} \/ ros = {}
  /\ nextId = [n \in Namespaces |-> IF app[n] = {} THEN 1 ELSE 2]
  /\ rosNum = [n \in Namespaces |-> [r \in Roles |-> 0]]
  /\ pending = [n \in Namespaces |-> SetToSeq({Registration(e) : e \in app[n]})]
  /\ pc = [n \in Namespaces |-> "wait"]
  /\ cache = [n \in Namespaces |-> {}]
  /\ forced = [n \in Namespaces |-> [d \in Directions |-> 0]]
  /\ item = [n \in Namespaces |-> None]
  /\ active = [n \in Namespaces |-> {}]
  /\ gossip = [n \in Namespaces |-> None]
  /\ remote = [n \in Namespaces |-> [m \in Namespaces |-> None]]
  /\ ticked = [n \in Namespaces |-> FALSE]
  /\ swept = [n \in Namespaces |-> FALSE]

-----------------------------------------------------------------------------
(* What the kernel and the ROS 2 graph answer.  The worker of a manager     *)
(* changes its own state step by step within one iteration, so what it     *)
(* asks is asked of w, its state so far: cache, forced, item, active and   *)
(* the two counts it has told the kernel.                                  *)

Worker(n) == [cache |-> cache[n], forced |-> forced[n], item |-> item[n],
              active |-> active[n], rosNum |-> rosNum[n]]

\* Agnocast endpoints of a role, the bridge's own included.
BridgeEnd(w, role) == IF DirectionOf(Opposite(role)) \in w.active THEN 1 ELSE 0
subscriber_num(n, w) == Cardinality({e \in app[n] : e.role = "sub"}) + BridgeEnd(w, "sub")
publisher_num(n, w) == Cardinality({e \in app[n] : e.role = "pub"}) + BridgeEnd(w, "pub")
EndpointNum(n, w, role) == IF role = "sub" THEN subscriber_num(n, w) ELSE publisher_num(n, w)

\* get_agnocast_subscriber_count, get_agnocast_publisher_count.
agnocast_count(n, w, dir) ==
  LET total == EndpointNum(n, w, Serves(dir))
  IN  IF BridgeEnd(w, Serves(dir)) = 1 /\ total > 0 THEN total - 1 ELSE total

\* get_subscriber_qos, get_publisher_qos: an endpoint is asked for by its id.
qos_found(n, request) == request \in app[n]

\* Mutant: the bridge's ROS 2 endpoint is not left out.
without_bridge_all(num, bridged) == num

\* A bridge's endpoint is left out of what users count.
without_bridge(num, bridged) == IF bridged /\ num > 0 THEN num - 1 ELSE num

\* get_subscription_count_core, get_publisher_count_core: the bridge of one
\* direction is the Agnocast endpoint, the other's the ROS 2 endpoint.
count_core(n, role) ==
  without_bridge(EndpointNum(n, Worker(n), role), DirectionOf(Opposite(role)) \in active[n])
    + without_bridge(rosNum[n][role], DirectionOf(role) \in active[n])

\* Other managers whose bridge plays a role on the ROS 2 side.
BridgesElsewhere(n, role) ==
  {m \in Namespaces \ {n} : DirectionOf(role) \in active[m]}

\* has_external_ros2_publisher, has_external_ros2_subscriber, and
\* ros2_client_exists: somebody other than this manager's node.
has_external_ros2(n, w, role) == role \in ros \/ BridgesElsewhere(n, role) # {}

\* ros2_service_exists does not leave out this manager's own node.
ros2_service_exists(n, w) ==
  "sub" \in ros \/ BridgesElsewhere(n, "sub") # {} \/ "r2a" \in w.active

Demanded(n, w, dir) == has_external_ros2(n, w, Opposite(Serves(dir)))

\* What update_ros2_publisher_num and update_ros2_subscriber_num tell.
RosCount(n, w, role) ==
  Cardinality(BridgesElsewhere(n, role))
    + (IF DirectionOf(role) \in w.active THEN 1 ELSE 0)
    + (IF role \in ros THEN 1 ELSE 0)

update_ros2_num(n, w, dir) ==
  LET role == Opposite(Serves(dir))
  IN  [w EXCEPT !.rosNum[role] = RosCount(n, w, role)]

\* The probe reads one entry at most, so two services look like none.
agno_service_exists(n, w) == EndpointNum(n, w, "sub") = 1

agno_client_exists(n, w) == agnocast_count(n, w, "a2r") # 0

\* The kernel frees a topic, its ids and its counts, with its last endpoint.
TopicFreed(ends, act) == ends = {} /\ act = {}

-----------------------------------------------------------------------------
(* Applications and plain ROS 2 nodes come and go.                         *)

Churns == churn < MaxChurn /\ churn' = churn + 1 /\ quiet' = 0

\* The constructor of a publisher, subscription, client or service registers
\* with the kernel and sends the manager a registration.
CreateEndpoint(n, role) ==
  /\ Churns
  /\ nextId[n] <= MaxId
  /\ LET e == [id |-> nextId[n], role |-> role]
     IN  /\ app' = [app EXCEPT ![n] = @ \cup {e}]
         /\ pending' = [pending EXCEPT ![n] = Append(@, Registration(e))]
  /\ nextId' = [nextId EXCEPT ![n] = @ + 1]
  /\ UNCHANGED <<kind, loadable, ros, rosNum, managerVars, agentVars>>

RemoveEndpoint(n, e) ==
  /\ Churns
  /\ e \in app[n]
  /\ app' = [app EXCEPT ![n] = @ \ {e}]
  /\ IF TopicFreed(app[n] \ {e}, active[n])
     THEN /\ nextId' = [nextId EXCEPT ![n] = 1]
          /\ rosNum' = [rosNum EXCEPT ![n] = [r \in Roles |-> 0]]
     ELSE UNCHANGED <<nextId, rosNum>>
  /\ UNCHANGED <<kind, loadable, ros, pending, managerVars, agentVars>>

RosNode(role) ==
  /\ Churns
  /\ ros' = IF role \in ros THEN ros \ {role} ELSE ros \cup {role}
  /\ UNCHANGED <<kind, loadable, kernelVars, pending, managerVars, agentVars>>

-----------------------------------------------------------------------------
(* The worker of a manager: worker_loop.  Operators take the worker's      *)
(* state w and give the state after the step.                              *)

should_create_pubsub_bridge(n, w, dir) ==
  /\ dir \notin w.active
  /\ agnocast_count(n, w, dir) > 0
  /\ Demanded(n, w, dir)

\* The kernel is told the ROS 2 count and the bridge is entered.
Activates(n, w, dir) ==
  LET created == [w EXCEPT !.active = @ \cup {dir}] IN update_ros2_num(n, created, dir)

\* The QoS is asked of the first endpoint in the order of an unordered map:
\* first says whether that is one that is gone.  A request whose endpoint is
\* gone or whose type cannot be loaded is dropped.
create_pubsub_bridge_if_needed(n, w, dir, first) ==
  LET sources == {r \in w.cache : r.role = Serves(dir)}
      gone == sources \ app[n]
      source == CHOOSE r \in sources : (first /\ gone # {}) => r \in gone
  IN  CASE ~should_create_pubsub_bridge(n, w, dir) \/ sources = {} -> w
        [] OTHER -> IF qos_found(n, source) /\ loadable THEN Activates(n, w, dir)
                    ELSE [w EXCEPT !.cache = @ \ {source}]

\* ServiceBridgeItem::handle_request and update_configuration.
handle_request(w, role) ==
  LET old == IF w.item = None
             THEN [r2a |-> FALSE, a2r |-> FALSE, shadow |-> FALSE, lease |-> 0]
             ELSE w.item
  IN  [old EXCEPT !.r2a = @ \/ role = "sub", !.a2r = @ \/ role = "pub"]

\* The cache is keyed by id: a request replaces an older one of its id.
dispatch_bridge_message(n, w, m, first) ==
  CASE m.type = "request" /\ kind = "topic" ->
         create_pubsub_bridge_if_needed(n,
           [w EXCEPT !.cache = {r \in @ : r.id # m.id}
                                 \cup {[id |-> m.id, role |-> m.role]}],
           DirectionOf(m.role), first)
    [] m.type = "request" /\ kind = "service" ->
         [w EXCEPT !.item = handle_request(w, m.role)]
    [] m.type = "daemon" /\ kind = "topic" ->
         [w EXCEPT !.forced[m.dir] = ForceTTL]
    [] m.type = "daemon" /\ kind = "service" ->
         IF w.item = None THEN w ELSE [w EXCEPT !.item.lease = ForceTTL]

check_and_create_pubsub_bridges(n, w, first) ==
  create_pubsub_bridge_if_needed(n,
    create_pubsub_bridge_if_needed(n, w, "r2a", first), "a2r", first)

\* A lease needs no counterpart in this ROS graph, but a local endpoint.
forceable(n, w, dir) ==
  /\ w.forced[dir] > 0
  /\ dir \notin w.active
  /\ agnocast_count(n, w, dir) > 0
  /\ loadable

create_daemon_forced_bridges(n, w) ==
  LET step(v, dir) == IF forceable(n, v, dir) THEN Activates(n, v, dir) ELSE v
  IN  step(step(w, "r2a"), "a2r")

\* Mutant: a lease does not protect a bridge from the sweep.
Keeps_only_on_demand(n, w, dir) == agnocast_count(n, w, dir) > 0 /\ Demanded(n, w, dir)

\* Mutant: demand on the ROS 2 side is enough.
Keeps_without_endpoint(n, w, dir) == Demanded(n, w, dir) \/ w.forced[dir] > 0

Keeps(n, w, dir) ==
  /\ agnocast_count(n, w, dir) > 0
  /\ Demanded(n, w, dir) \/ w.forced[dir] > 0

\* A bridge that goes leaves the count it told the kernel as it is.
check_and_remove_pubsub_bridges(n, w) ==
  LET step(v, dir) == CASE dir \notin v.active -> v
                        [] Keeps(n, v, dir) -> update_ros2_num(n, v, dir)
                        [] OTHER -> [v EXCEPT !.active = @ \ {dir}]
  IN  step(step(w, "r2a"), "a2r")

\* remove_invalid_requests for the topic.
check_and_remove_request_cache(n, w) == [w EXCEPT !.cache = @ \cap app[n]]

-----------------------------------------------------------------------------
(* ServiceBridgeItem::check_and_update, by the state the item is in.       *)

\* Mutant: a lease of the agent is not looked at.
R2aWanted_on_demand(n, w) == has_external_ros2(n, w, "pub")

R2aWanted(n, w) == has_external_ros2(n, w, "pub") \/ w.item.lease > 0

StaysR2a(n, w) == agno_service_exists(n, w) /\ R2aWanted(n, w)

\* In A2R the probe finds the bridge's own service, which is a subscriber of
\* the request topic like any other.
StaysA2r(n, w) ==
  /\ ~(w.item.r2a /\ agno_service_exists(n, w))
  /\ ros2_service_exists(n, w) /\ agno_client_exists(n, w)

\* start_r2a_bridge: a service under the shadow node of the Agnocast service.
start_r2a_bridge(n, w) ==
  [w EXCEPT !.item.shadow = TRUE,
            !.active = IF loadable /\ R2aWanted(n, w) THEN {"r2a"} ELSE {}]

start_a2r_bridge(n, w) ==
  [w EXCEPT !.item.shadow = FALSE, !.active = IF loadable THEN {"a2r"} ELSE {}]

\* Mutant: the shadow node is not released.
pending_keeps_shadow(n, w) ==
  IF w.item.r2a /\ agno_service_exists(n, w) THEN start_r2a_bridge(n, w)
  ELSE IF w.item.a2r /\ ros2_service_exists(n, w) /\ agno_client_exists(n, w)
       THEN [w EXCEPT !.active = IF loadable THEN {"a2r"} ELSE {}] ELSE w

\* From no bridge, or with only the shadow node of a service; an item without
\* an endpoint of either kind goes.
check_and_update_pending(n, w) ==
  IF w.item.r2a /\ agno_service_exists(n, w) THEN start_r2a_bridge(n, w)
  ELSE CASE w.item.a2r /\ ros2_service_exists(n, w) /\ agno_client_exists(n, w) ->
              start_a2r_bridge(n, w)
         [] ~agno_client_exists(n, w) -> [w EXCEPT !.item = None]
         [] OTHER -> [w EXCEPT !.item.shadow = FALSE]

\* Mutant: every item is taken for one without a bridge.
always_pending(n, w) == IF w.item = None THEN w ELSE check_and_update_pending(n, w)

check_and_update_service_bridges(n, w) ==
  CASE w.item = None -> w
    [] w.active = {"r2a"} -> IF StaysR2a(n, w) THEN w ELSE [w EXCEPT !.active = {}]
    [] w.active = {"a2r"} -> IF StaysA2r(n, w) THEN w ELSE [w EXCEPT !.active = {}]
    [] OTHER -> check_and_update_pending(n, w)

-----------------------------------------------------------------------------
(* One iteration of worker_loop: what has come is dispatched, then comes   *)
(* the sweep.  The exit gate that ends it is a step of Processes.          *)

Installs(n, w) ==
  /\ cache' = [cache EXCEPT ![n] = w.cache]
  /\ forced' = [forced EXCEPT ![n] = w.forced]
  /\ item' = [item EXCEPT ![n] = w.item]
  /\ active' = [active EXCEPT ![n] = w.active]
  /\ IF TopicFreed(app[n], w.active)
     THEN /\ nextId' = [nextId EXCEPT ![n] = 1]
          /\ rosNum' = [rosNum EXCEPT ![n] = [r \in Roles |-> 0]]
     ELSE /\ rosNum' = [rosNum EXCEPT ![n] = w.rosNum]
          /\ UNCHANGED nextId

\* The condition variable is signalled, or the wait times out.
WorkerDispatches(n, first) ==
  /\ pc[n] = "wait"
  /\ pending[n] # <<>> \/ ~swept[n]
  /\ Installs(n, FoldLeft(LAMBDA w, m : dispatch_bridge_message(n, w, m, first),
                          Worker(n), pending[n]))
  /\ pending' = [pending EXCEPT ![n] = <<>>]
  /\ pc' = [pc EXCEPT ![n] = "sweep"]
  /\ UNCHANGED <<envVars, app, swept, agentVars>>

SweepPubsub(n, first) ==
  LET created == check_and_create_pubsub_bridges(n, Worker(n), first)
      forcedToo == create_daemon_forced_bridges(n, created)
      kept == check_and_remove_pubsub_bridges(n, forcedToo)
  IN  check_and_remove_request_cache(n, kept)

WorkerSweeps(n, first) ==
  /\ pc[n] = "sweep"
  /\ Installs(n, IF kind = "topic" THEN SweepPubsub(n, first)
                 ELSE check_and_update_service_bridges(n, Worker(n)))
  /\ swept' = [swept EXCEPT ![n] = TRUE]
  /\ pc' = [pc EXCEPT ![n] = "wait"]
  /\ UNCHANGED <<envVars, app, pending, agentVars>>

-----------------------------------------------------------------------------
(* The discovery agents.                                                   *)

LocalSnapshot(n) ==
  {[role |-> e.role, bridge |-> FALSE] : e \in app[n]}
    \cup {[role |-> Opposite(Serves(d)), bridge |-> TRUE] : d \in active[n]}

\* Bridge endpoints stand for the other side and are left out.
PlaysRole(snap, role) == [role |-> role, bridge |-> FALSE] \in snap

\* decide_bridges and decide_service_bridges; only the service's side of a
\* service is leased.
Decides(n, local, states) ==
  {d \in Directions :
     /\ kind = "service" => d = "r2a"
     /\ PlaysRole(local, Serves(d))
     /\ \E m \in Namespaces \ {n} :
          /\ states[m] # None
          /\ PlaysRole(states[m].snap, Opposite(Serves(d)))}

\* _dispatch_requests: one datagram per direction, in a fixed order.
Requests(dirs) ==
  SelectSeq(<<[type |-> "daemon", dir |-> "r2a"], [type |-> "daemon", dir |-> "a2r"]>>,
            LAMBDA m : m.dir \in dirs)

\* _on_remote_state for what has arrived, then _on_tick: prune, publish a
\* snapshot, dispatch the requests.  lost: namespaces whose latest snapshot
\* has not come through.
AgentTicks(n, lost) ==
  /\ ~ticked[n]
  /\ IF lost = {} THEN UNCHANGED <<churn, quiet>> ELSE Churns
  /\ LET heard == [m \in Namespaces |->
                     IF m # n /\ m \notin lost /\ gossip[m] # None
                     THEN [snap |-> gossip[m], age |-> 0] ELSE remote[n][m]]
         fresh == [m \in Namespaces |->
                     IF heard[m] # None /\ heard[m].age >= StaleAfter
                     THEN None ELSE heard[m]]
         local == LocalSnapshot(n)
     IN  /\ remote' = [remote EXCEPT ![n] = fresh]
         /\ gossip' = [gossip EXCEPT ![n] = local]
         /\ pending' = [pending EXCEPT ![n] =
                          @ \o Requests(Decides(n, local, fresh))]
  /\ ticked' = [ticked EXCEPT ![n] = TRUE]
  /\ UNCHANGED <<kind, loadable, ros, kernelVars, managerVars>>

Down(k) == IF k = 0 THEN 0 ELSE k - 1

\* A second passes.
RoundEnds ==
  /\ \A n \in Namespaces : ticked[n] /\ swept[n] /\ pc[n] = "wait"
  /\ ticked' = [n \in Namespaces |-> FALSE]
  /\ swept' = [n \in Namespaces |-> FALSE]
  /\ forced' = [n \in Namespaces |-> [d \in Directions |-> Down(forced[n][d])]]
  /\ item' = [n \in Namespaces |-> IF item[n] = None THEN None
                ELSE [item[n] EXCEPT !.lease = Down(@)]]
  /\ remote' = [n \in Namespaces |-> [m \in Namespaces |->
                  IF remote[n][m] = None \/ remote[n][m].age >= StaleAfter
                  THEN remote[n][m] ELSE [remote[n][m] EXCEPT !.age = @ + 1]]]
  /\ quiet' = IF quiet < Settle THEN quiet + 1 ELSE quiet
  /\ UNCHANGED <<kind, loadable, ros, churn, kernelVars, pending, pc, cache,
                 active, gossip>>

-----------------------------------------------------------------------------
WorkerStep(n) ==
  \E first \in BOOLEAN : WorkerDispatches(n, first) \/ WorkerSweeps(n, first)

Next ==
  \/ \E n \in Namespaces :
       \/ \E role \in Roles : CreateEndpoint(n, role)
       \/ \E e \in app[n] : RemoveEndpoint(n, e)
       \/ WorkerStep(n)
       \/ \E lost \in SUBSET (Namespaces \ {n}) : AgentTicks(n, lost)
  \/ \E role \in Roles : RosNode(role)
  \/ RoundEnds

Spec == Init /\ [][Next]_vars

-----------------------------------------------------------------------------
(* Properties.                                                             *)

Has(n, role) == \E e \in app[n] : e.role = role
Only(n, role) == Has(n, role) /\ ~Has(n, Opposite(role))

Settled == quiet = Settle

\* A publisher in one namespace and a subscription in another are connected
\* through ROS 2 by the managers of the two once nothing has changed for Settle
\* rounds (create_daemon_forced_bridges, check_and_remove_pubsub_bridges,
\* decide_bridges), and stay so: no lease runs out between two agent ticks.
CrossConnects ==
  \A n, m \in Namespaces :
    (Settled /\ n # m /\ kind = "topic" /\ loadable /\ Has(n, "pub") /\ Has(m, "sub"))
      => "a2r" \in active[n] /\ "r2a" \in active[m]

\* Somebody on the other side: a plain ROS 2 node, or an endpoint of another
\* namespace, for the bridge of n to talk to.
Counterpart(n, dir) ==
  \/ Opposite(Serves(dir)) \in ros
  \/ \E m \in Namespaces \ {n} : Has(m, Opposite(Serves(dir)))

\* A bridge does not outlive its endpoints or its counterparts: bridges of two
\* namespaces do not keep each other alive, through demand or through leases
\* (check_and_remove_pubsub_bridges, ServiceBridgeItem::check_and_update).
NoZombieBridges ==
  \A n \in Namespaces : \A dir \in active[n] :
    Settled => Has(n, Serves(dir)) /\ Counterpart(n, dir)

\* The node that stands for an Agnocast service in the ROS graph goes with the
\* service (acquire_shadow_node, release_shadow_node).
NoOrphanShadow ==
  \A n \in Namespaces :
    (Settled /\ item[n] # None) => (item[n].shadow => Has(n, "sub"))

\* One service in n and clients in m, apart from each other: m reaches n
\* (decide_service_bridges leases the service's side, the client's side follows
\* the ROS 2 service that appears).
ServiceConnects ==
  \A n, m \in Namespaces :
    ( /\ Settled /\ n # m /\ kind = "service" /\ loadable
      /\ Only(n, "sub") /\ Cardinality(app[n]) = 1 /\ item[n] # None
      /\ Only(m, "pub") /\ item[m] # None /\ ~item[m].r2a )
      => "r2a" \in active[n] /\ "a2r" \in active[m]

\* What a user counts on a topic is right while the bridge that reports the ROS 2
\* side is up: the application's endpoints, the plain ROS 2 nodes and the bridges
\* of other namespaces, never this namespace's own bridges, whatever order the
\* bridge came up and the counts were told in (get_publisher_count_core,
\* update_ros2_publisher_num).
CountsSettle ==
  \A n \in Namespaces : \A dir \in active[n] :
    LET role == Opposite(Serves(dir))
    IN  (Settled /\ kind = "topic" /\ swept[n]) =>
          count_core(n, role) = Cardinality({e \in app[n] : e.role = role})
                                  + Cardinality(BridgesElsewhere(n, role))
                                  + (IF role \in ros THEN 1 ELSE 0)

=============================================================================
