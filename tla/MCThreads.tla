----------------------------- MODULE MCThreads ------------------------------
(***************************************************************************)
(* Threads that are started, told to stop and joined: the callback         *)
(* isolated executors, and the component container that isolates callback  *)
(* groups.  The two share no state: a behaviour exercises one of them, the *)
(* other rests.                                                            *)
(***************************************************************************)
EXTENDS CallbackIsolated

CONSTANTS Nodes, NodesGroups, MaxExecs

ASSUME ContainerAssumption == IsFiniteSet(NodesGroups) /\ MaxExecs \in Nat

VARIABLES
    part,   \* the part this behaviour exercises
    ok, main, service, used, nodes, groups, clockOnly, associated, execs, thread, called,
    reached, todo, raced

containerVars == <<ok, main, service, used, nodes, groups, clockOnly, associated, execs, thread,
    called, reached, todo, raced>>

C == INSTANCE Container WITH Groups <- NodesGroups, assoc <- associated, told <- reached

ThreadsInit ==
    /\ part \in {"isolated", "container"} /\ Init /\ C!Init
    /\ part = "container" => kind = "only"

ThreadsNext ==
    \/ part = "isolated" /\ Next /\ UNCHANGED <<part, containerVars>>
    \/ part = "container" /\ C!Next /\ UNCHANGED <<part, vars>>

\* The fairness of each part, for the behaviours that exercise it.
IsolatedFairness ==
    /\ WF_vars(part = "isolated" /\ ~fatal /\ SpinStep)
    /\ WF_vars(part = "isolated" /\ ~fatal /\ CancelChildren)
    /\ \A g \in Groups : WF_vars(part = "isolated" /\ ~fatal /\ ChildStep(g))

ContainerFairness ==
    /\ \A k \in 1..MaxExecs : WF_containerVars(part = "container" /\ (C!ThreadSpins(k) \/ C!ThreadExits(k)))
    /\ WF_containerVars(part = "container" /\ C!HolderSteps)
    /\ WF_containerVars(part = "container" /\ C!check_for_new_callback_groups)
    /\ WF_containerVars(part = "container" /\ C!Destroy)
    /\ \A n \in Nodes : WF_containerVars(part = "container" /\ C!add_node_to_executor(n))

ThreadsSpec ==
    /\ ThreadsInit /\ [][ThreadsNext]_<<part, vars, containerVars>>
    /\ IsolatedFairness /\ ContainerFairness

\* Every executor is joined, and none is left to a node that is gone
\* (CallbackIsolated, Container).
NothingLeftBehind == NoThreadLeftBehind /\ C!CleanUnlessRaced

\* No callback group has two executors at once (CallbackIsolated, Container).
OneExecutorPerGroup == NeverTwoExecutors /\ AssociationTracksChild /\ C!OneThreadPerGroup

\* What has been told to stop does stop (CallbackIsolated, Container).
StopReturns == CancelReturns /\ C!UnloadReturns

\* A callback group that appears late is served (CallbackIsolated, Container).
LateGroupsServed == GroupsServed /\ C!GroupGetsThread

MCGroups == {[node |-> 1, number |-> 1], [node |-> 1, number |-> 2], [node |-> 2, number |-> 1]}
=============================================================================
