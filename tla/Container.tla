----------------------------- MODULE Container ------------------------------
(***************************************************************************)
(* The component container that gives every callback group of every loaded *)
(* node an executor and a thread of its own                                *)
(* (agnocast_component_container_cie.cpp).  Loading and unloading are      *)
(* service callbacks in one mutually exclusive group; the monitor timer,   *)
(* in another, may run between any two of their steps; the main thread     *)
(* destroys the container once the context has been shut down.  Load and   *)
(* unload themselves are rclcpp's: a node is entered into node_wrappers_   *)
(* before it is added to an executor, and taken out after it is removed.   *)
(***************************************************************************)
EXTENDS Naturals, FiniteSets, FiniteSetsExt

CONSTANTS
    Nodes,      \* node ids: each is loaded at most once
    Groups,     \* callback groups: [node, number]; number 1 comes with the node
    MaxExecs    \* bound: executors made

VARIABLES
    ok,         \* the context has not been shut down
    main,       \* the main thread: "spin", "destroy", "gone" or "aborted"
    service,    \* the load or unload in progress: [step, node]
    used,       \* node ids given out
    nodes,      \* node_wrappers_
    groups,     \* groups that exist
    clockOnly,  \* of them, those with a subscription of /clock and nothing else
    assoc,      \* groups associated with an executor
    execs,      \* node_id_to_executor_wrappers_: {[k, group]}
    thread,     \* k -> "none", "starting", "spinning" or "exited"
    called,     \* the executors on which cancel() has been called
    told,       \* of them, those whose spin() it has reached
    todo,       \* executors the holder of executor_wrappers_mutex_ has yet to join
    raced       \* ghost: the monitor has looked at a node between its removal from the
                \* executors and its removal from node_wrappers_

vars == <<ok, main, service, used, nodes, groups, clockOnly, assoc, execs, thread, called, told, todo, raced>>
groupVars == <<groups, clockOnly>>

Idle == [step |-> "idle", node |-> 0]
At(step) == service.step = step
Of(n) == {x \in execs : x.group.node = n}

Init ==
    /\ ok = TRUE /\ main = "spin" /\ service = Idle /\ used = {}
    /\ nodes = {} /\ groups = {} /\ clockOnly = {} /\ assoc = {}
    /\ execs = {} /\ thread = [k \in 1..MaxExecs |-> "none"] /\ called = {} /\ told = {} /\ todo = {}
    /\ raced = FALSE

\* executor_wrappers_mutex_ is held while executors are cancelled and joined.
Locked == At("removing") \/ main = "destroy"

-----------------------------------------------------------------------------
\* The nodes that are loaded

CreateGroup(g, isClock) ==
    /\ g.node \in nodes /\ g \notin groups
    /\ groups' = groups \cup {g}
    /\ clockOnly' = IF isClock THEN clockOnly \cup {g} ELSE clockOnly
    /\ UNCHANGED <<ok, main, service, used, nodes, assoc, execs, thread, called, told, todo, raced>>

CreateEntity(g) ==
    /\ g \in clockOnly
    /\ clockOnly' = clockOnly \ {g}
    /\ UNCHANGED <<ok, main, service, used, nodes, groups, assoc, execs, thread, called, told, todo, raced>>

-----------------------------------------------------------------------------
\* Executors

Made == Cardinality({k \in DOMAIN thread : thread[k] # "none"})

\* Mutant: a group that has an executor is given one more.
Unserved_all(n) == {g \in groups : g.node = n /\ g \notin clockOnly}

is_clock_callback_group(g) == g \in clockOnly
Unserved(n) == {g \in groups : g.node = n /\ ~is_clock_callback_group(g) /\ g \notin assoc}

\* An executor, its list entry and its thread for each of the groups gs
start_executors(gs) ==
    /\ Made + Cardinality(gs) <= MaxExecs
    /\ \E number \in [gs -> (Made + 1)..(Made + Cardinality(gs))] :
         /\ \A g, h \in gs : g # h => number[g] # number[h]
         /\ execs' = execs \cup {[k |-> number[g], group |-> g] : g \in gs}
         /\ thread' = [k \in DOMAIN thread |->
                         IF \E g \in gs : number[g] = k THEN "starting" ELSE thread[k]]
    /\ assoc' = assoc \cup gs

\* The thread announces itself to the thread configurator and calls spin().
ThreadSpins(k) ==
    /\ thread[k] = "starting"
    /\ thread' = [thread EXCEPT ![k] = "spinning"]
    /\ UNCHANGED <<ok, main, service, used, nodes, groupVars, assoc, execs, called, told, todo, raced>>

ThreadExits(k) ==
    /\ thread[k] = "spinning" /\ (k \in told \/ ~ok)
    /\ thread' = [thread EXCEPT ![k] = "exited"]
    /\ UNCHANGED <<ok, main, service, used, nodes, groupVars, assoc, execs, called, told, todo, raced>>

\* Mutant: cancel() does not wait for the thread to spin.
MayCancel_at_once(k) == TRUE

MayCancel(k) == thread[k] = "spinning" \/ ~ok

\* One executor after the other; cancel() has an effect on one that spins only.
cancel_executor(x) ==
    /\ Locked /\ x \in todo /\ MayCancel(x.k) /\ \A y \in todo : y.k \notin called
    /\ called' = called \cup {x.k}
    /\ told' = IF thread[x.k] = "spinning" THEN told \cup {x.k} ELSE told
    /\ UNCHANGED <<ok, main, service, used, nodes, groupVars, assoc, execs, thread, todo, raced>>

Join(x) ==
    /\ Locked /\ x \in todo /\ x.k \in called /\ thread[x.k] = "exited"
    /\ todo' = todo \ {x}
    /\ UNCHANGED <<ok, main, service, used, nodes, groupVars, assoc, execs, thread, called, told, raced>>

-----------------------------------------------------------------------------
\* Loading, the monitor and unloading

Load(n) ==
    /\ main = "spin" /\ ok /\ service = Idle /\ n \notin used
    /\ used' = used \cup {n}
    /\ nodes' = nodes \cup {n}
    /\ groups' = groups \cup {g \in Groups : g.node = n /\ g.number = 1}
    /\ service' = [step |-> "adding", node |-> n]
    /\ UNCHANGED <<ok, main, clockOnly, assoc, execs, thread, called, told, todo, raced>>

add_node_to_executor(n) ==
    /\ service = [step |-> "adding", node |-> n]
    /\ start_executors(Unserved(n))
    /\ service' = Idle
    /\ UNCHANGED <<ok, main, used, nodes, groupVars, called, told, todo, raced>>

AllUnserved == UNION {Unserved(n) : n \in nodes}

check_for_new_callback_groups ==
    /\ main = "spin" /\ ~Locked /\ AllUnserved # {}
    /\ start_executors(AllUnserved)
    /\ raced' = (raced \/ (At("erasing") /\ Unserved(service.node) # {}))
    /\ UNCHANGED <<ok, main, service, used, nodes, groupVars, called, told, todo>>

remove_node_from_executor(n) ==
    /\ main = "spin" /\ ok /\ service = Idle /\ n \in nodes
    /\ todo' = Of(n)
    /\ service' = [step |-> "removing", node |-> n]
    /\ UNCHANGED <<ok, main, used, nodes, groupVars, assoc, execs, thread, called, told, raced>>

\* The executors go, and with them their groups' association.
EraseExecutors ==
    /\ At("removing") /\ todo = {}
    /\ execs' = execs \ Of(service.node)
    /\ assoc' = {g \in assoc : g.node # service.node}
    /\ service' = [service EXCEPT !.step = "erasing"]
    /\ UNCHANGED <<ok, main, used, nodes, groupVars, thread, called, told, todo, raced>>

Unload ==
    /\ At("erasing")
    /\ nodes' = nodes \ {service.node}
    /\ groups' = {g \in groups : g.node # service.node}
    /\ clockOnly' = {g \in clockOnly : g.node # service.node}
    /\ service' = Idle
    /\ UNCHANGED <<ok, main, used, assoc, execs, thread, called, told, todo, raced>>

-----------------------------------------------------------------------------
\* The end of the container

Shutdown ==
    /\ ok /\ ok' = FALSE
    /\ UNCHANGED <<main, service, used, nodes, groupVars, assoc, execs, thread, called, told, todo, raced>>

\* The main thread leaves spin() when no callback runs.  The destructor returns at
\* once without nodes, and std::thread aborts if it goes without having been joined.
Destroy ==
    /\ main = "spin" /\ ~ok /\ service = Idle
    /\ IF nodes = {}
       THEN main' = (IF execs = {} THEN "gone" ELSE "aborted") /\ UNCHANGED todo
       ELSE main' = "destroy" /\ todo' = execs
    /\ UNCHANGED <<ok, service, used, nodes, groupVars, assoc, execs, thread, called, told, raced>>

DestroyEnds ==
    /\ main = "destroy" /\ todo = {}
    /\ main' = "gone" /\ nodes' = {} /\ execs' = {} /\ assoc' = {}
    /\ groups' = {} /\ clockOnly' = {}
    /\ UNCHANGED <<ok, service, used, thread, called, told, todo, raced>>

ThreadSteps == \E k \in 1..MaxExecs : ThreadSpins(k) \/ ThreadExits(k)
HolderSteps == EraseExecutors \/ Unload \/ DestroyEnds \/ \E x \in todo : cancel_executor(x) \/ Join(x)

Next ==
    \/ \E g \in Groups : CreateEntity(g) \/ \E isClock \in BOOLEAN : CreateGroup(g, isClock)
    \/ \E n \in Nodes : Load(n) \/ add_node_to_executor(n) \/ remove_node_from_executor(n)
    \/ check_for_new_callback_groups
    \/ Shutdown \/ Destroy
    \/ ThreadSteps \/ HolderSteps

\* Threads run, the timer fires, and a callback that has begun goes on.
Fairness ==
    /\ \A k \in 1..MaxExecs : WF_vars(ThreadSpins(k) \/ ThreadExits(k))
    /\ WF_vars(HolderSteps)
    /\ WF_vars(check_for_new_callback_groups) /\ WF_vars(Destroy)
    /\ \A n \in Nodes : WF_vars(add_node_to_executor(n))

Spec == Init /\ [][Next]_vars /\ Fairness

-----------------------------------------------------------------------------
Runs(x) == thread[x.k] \in {"starting", "spinning"}

\* A callback group, whose callbacks exclude each other, never has two threads, when
\* load, monitor and unload meet; and every thread that runs is one that the container
\* can still join (start_executor_for_callback_group, remove_node_from_executor).
OneThreadPerGroup ==
    /\ \A x, y \in execs : (x # y /\ Runs(x) /\ Runs(y)) => x.group # y.group
    /\ \A k \in 1..MaxExecs : thread[k] \in {"starting", "spinning"} => \E x \in execs : x.k = k

\* The container does not abort, and threads of an unloaded node are not left, but when
\* the monitor came between the two removals of a node.
CleanUnlessRaced ==
    ~raced => main # "aborted" /\ \A x \in execs : x.group.node \in nodes

\* An unload that has begun, and the destructor, return: no cancel() is lost, whether the
\* thread had begun to spin or the context was shut down (cancel_executor).
UnloadReturns ==
    /\ (service.step = "removing") ~> (service = Idle)
    /\ (~ok) ~> (main \in {"gone", "aborted"})

\* A group of a loaded node gets a thread though it was created, or got its first entity
\* other than the clock's, after the node was loaded (check_for_new_callback_groups).
GroupGetsThread ==
    \A g \in Groups :
      (g \in groups /\ g \notin clockOnly) ~>
        (g \notin groups \/ ~ok \/ \E x \in execs : x.group = g /\ thread[x.k] = "spinning")

=============================================================================
