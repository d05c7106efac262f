-------------------------- MODULE CallbackIsolated --------------------------
(***************************************************************************)
(* The callback isolated executors: spin() gives every callback group a    *)
(* child executor on a thread of its own and watches for groups that       *)
(* appear later; cancel() and stop_callback_group() come from other        *)
(* threads.  Kind "mixed" is CallbackIsolatedAgnocastExecutor, whose       *)
(* children are rclcpp executors that forget a cancel() made before their  *)
(* spin(); kind "only" is AgnocastOnlyCallbackIsolatedExecutor, whose      *)
(* children and itself remember it.  The worker stands for the bridge      *)
(* manager, which removes, stops and destroys groups it has added.         *)
(***************************************************************************)
EXTENDS Naturals, FiniteSets

CONSTANTS
    Groups,
    Automatic   \* the groups added with their node; the others are added by hand

ASSUME GroupsAssumption == Automatic \subseteq Groups

VARIABLES
    kind,
    node,       \* the node has been added
    created,    \* the groups that exist
    manual,     \* weak_groups_to_nodes_: the groups added by hand
    agno,       \* the groups that own an agnocast subscription or timer
    assoc,      \* associated_with_executor_ of each group
    spinning, cancelled,
    mon, seen,  \* the thread in spin(): where it is and its snapshot of groups
    child,      \* the life of each group's child thread
    capable,    \* the groups whose child can run agnocast callbacks
    told,       \* the children with a pending cancel()
    listed,     \* the children in weak_child_executors_ and child_threads_
    cancelling, \* cancel() has set the flags and not yet reached the children
    worker, target,     \* the bridge manager's worker and the group it takes down
    dead,       \* the groups whose owner has been destroyed
    fatal

groupVars == <<node, created, manual, agno, dead>>
spinVars == <<spinning, cancelled, mon, seen>>
childVars == <<child, capable, told, listed, assoc>>
otherVars == <<cancelling, worker, target>>
vars == <<kind, fatal, groupVars, spinVars, childVars, otherVars>>

Lives == {"none", "starting", "started", "spinning", "exited"}

Init ==
    /\ kind \in {"only", "mixed"}
    /\ node = FALSE /\ created = {} /\ manual = {} /\ agno = {} /\ dead = {}
    /\ spinning = FALSE /\ cancelled = FALSE /\ mon = "out" /\ seen = {}
    /\ child = [g \in Groups |-> "none"]
    /\ capable = {} /\ told = {} /\ listed = {} /\ assoc = {}
    /\ cancelling = FALSE /\ worker = "idle" /\ target = {} /\ fatal = FALSE

Stop == ~spinning \/ cancelled

-----------------------------------------------------------------------------
(* The application and the bridge manager's worker.                        *)

AddNode ==
    /\ ~node
    /\ node' = TRUE
    /\ UNCHANGED <<kind, fatal, created, manual, agno, dead, spinVars, childVars, otherVars>>

CreateGroup(g) ==
    /\ g \notin created \cup dead
    /\ created' = created \cup {g}
    /\ UNCHANGED <<kind, fatal, node, manual, agno, dead, spinVars, childVars, otherVars>>

CreateEntity(g) ==
    /\ g \in created \ agno
    /\ agno' = agno \cup {g}
    /\ UNCHANGED <<kind, fatal, node, created, manual, dead, spinVars, childVars, otherVars>>

\* The agnocast-only executor inherits add_callback_group from its base class,
\* which claims the group for itself.
AddCallbackGroup(g) ==
    /\ g \in created \ (Automatic \cup manual \cup target)
    /\ manual' = manual \cup {g}
    /\ IF kind = "only"
       THEN fatal' = (g \in assoc) /\ assoc' = assoc \cup {g}
       ELSE UNCHANGED <<fatal, assoc>>
    /\ UNCHANGED <<kind, node, created, agno, dead, spinVars, child, capable, told, listed, otherVars>>

\* remove_callback_group, the first half of taking a bridge down.
RemoveCallbackGroup(g) ==
    /\ kind = "mixed" /\ worker = "idle" /\ g \in manual
    /\ manual' = manual \ {g}
    /\ worker' = "removed" /\ target' = {g}
    /\ UNCHANGED <<kind, fatal, node, created, agno, dead, spinVars, childVars, cancelling>>

\* stop_callback_group: a child that is listed is cancelled and unlisted; its
\* thread is joined after the lock has been let go.
StopCallbackGroup ==
    /\ worker = "removed"
    /\ worker' = IF target \subseteq listed THEN "joining" ELSE "destroying"
    /\ told' = told \cup (target \cap listed)
    /\ listed' = listed \ target
    /\ UNCHANGED <<kind, fatal, groupVars, spinVars, child, capable, assoc, cancelling, target>>

JoinStopped ==
    /\ worker = "joining" /\ \A g \in target : child[g] = "exited"
    /\ worker' = "destroying"
    /\ child' = [g \in Groups |-> IF g \in target THEN "none" ELSE child[g]]
    /\ UNCHANGED <<kind, fatal, groupVars, spinVars, capable, told, listed, assoc, cancelling, target>>

\* The bridge and its group are destroyed.
DestroyGroup ==
    /\ worker = "destroying"
    /\ worker' = "idle" /\ target' = {}
    /\ dead' = dead \cup target /\ created' = created \ target /\ agno' = agno \ target
    /\ UNCHANGED <<kind, fatal, node, manual, spinVars, childVars, cancelling>>

-----------------------------------------------------------------------------
(* spin().                                                                 *)

SpinEnter ==
    /\ mon = "out" /\ ~spinning
    /\ ~cancelled
    /\ spinning' = TRUE /\ mon' = "collect"
    /\ UNCHANGED <<kind, fatal, cancelled, seen, groupVars, childVars, otherVars>>

NodeGroups == IF node THEN created \cap Automatic ELSE {}

Collect ==
    /\ mon = "collect"
    /\ seen' = manual \cup NodeGroups
    /\ mon' = "spawn"
    /\ UNCHANGED <<kind, fatal, spinning, cancelled, groupVars, childVars, otherVars>>

\* Mutant: the monitoring loop looks only at the groups added by hand.
NewGroups_manualOnly == manual \ assoc

\* The monitoring loop's scan for groups nobody serves.  Only the mixed executor
\* looks at the groups added by hand again.
NewGroups == (IF kind = "mixed" THEN manual \cup NodeGroups ELSE NodeGroups) \ assoc

Wake ==
    /\ mon = "watch"
    /\ IF Stop
       THEN mon' = "stop" /\ seen' = {}
       ELSE /\ seen' = NewGroups
            /\ mon' = IF NewGroups = {} THEN "watch" ELSE "respawn"
    /\ UNCHANGED <<kind, fatal, spinning, cancelled, groupVars, childVars, otherVars>>

\* spawn_child_executor for each group: a group that already has an executor
\* aborts the process.
Spawned(S) ==
    /\ fatal' = (S \cap assoc # {})
    /\ child' = [g \in Groups |-> IF g \in S THEN "starting" ELSE child[g]]
    /\ capable' = (capable \ S) \cup (IF kind = "only" THEN S ELSE S \cap agno)
    /\ listed' = listed \cup S
    /\ assoc' = assoc \cup S
    /\ told' = told \ S

\* Under child_resources_mutex_, the flags are looked at once more.
SpawnFirst ==
    /\ mon = "spawn"
    /\ seen' = {}
    /\ IF Stop
       THEN /\ mon' = "out" /\ spinning' = FALSE
            /\ UNCHANGED <<fatal, childVars>>
       ELSE /\ mon' = "watch"
            /\ Spawned(seen)
            /\ UNCHANGED spinning
    /\ UNCHANGED <<kind, cancelled, groupVars, otherVars>>

SpawnNew ==
    /\ mon = "respawn"
    /\ seen' = {}
    /\ IF Stop
       THEN /\ mon' = "stop"
            /\ UNCHANGED <<fatal, childVars>>
       ELSE /\ mon' = "watch"
            /\ Spawned(seen \ assoc)
    /\ UNCHANGED <<kind, spinning, cancelled, groupVars, otherVars>>

\* The listed children are cancelled and their threads moved out under the lock ...
StopChildren ==
    /\ mon = "stop"
    /\ told' = told \cup listed
    /\ seen' = listed /\ listed' = {}
    /\ mon' = "join"
    /\ UNCHANGED <<kind, fatal, spinning, cancelled, groupVars, child, capable, assoc, otherVars>>

\* Mutant: the threads are detached instead of joined.
SpinReturn_detached ==
    /\ mon = "join"
    /\ seen' = {} /\ mon' = "out" /\ spinning' = FALSE
    /\ UNCHANGED <<kind, fatal, cancelled, groupVars, childVars, otherVars>>

\* ... and joined outside it.
SpinReturn ==
    /\ mon = "join" /\ \A g \in seen : child[g] = "exited"
    /\ child' = [g \in Groups |-> IF g \in seen THEN "none" ELSE child[g]]
    /\ seen' = {} /\ mon' = "out" /\ spinning' = FALSE
    /\ UNCHANGED <<kind, fatal, cancelled, groupVars, capable, told, listed, assoc, otherVars>>

-----------------------------------------------------------------------------
(* cancel(), which may come from any thread.                               *)

Cancel ==
    /\ ~cancelling
    /\ cancelling' = TRUE
    /\ spinning' = FALSE
    /\ cancelled' = (cancelled \/ kind = "only")
    /\ UNCHANGED <<kind, fatal, mon, seen, groupVars, childVars, worker, target>>

\* Mutant: cancel() forgets the children it has cancelled.
CancelChildren_forgets ==
    /\ cancelling
    /\ cancelling' = FALSE
    /\ told' = told \cup listed /\ listed' = {}
    /\ UNCHANGED <<kind, fatal, groupVars, spinVars, child, capable, assoc, worker, target>>

CancelChildren ==
    /\ cancelling
    /\ cancelling' = FALSE
    /\ told' = told \cup listed
    /\ UNCHANGED <<kind, fatal, groupVars, spinVars, child, capable, listed, assoc, worker, target>>

-----------------------------------------------------------------------------
(* A child thread tells the thread configurator who it is, then spins.     *)

ChildPublishes(g) ==
    /\ child[g] = "starting"
    /\ child' = [child EXCEPT ![g] = "started"]
    /\ UNCHANGED <<kind, fatal, groupVars, spinVars, capable, told, listed, assoc, otherVars>>

\* Mutant: the child executor of either kind starts with a clean flag.
ChildSpins_forgets(g) ==
    /\ child[g] = "started"
    /\ child' = [child EXCEPT ![g] = "spinning"]
    /\ told' = told \ {g}
    /\ UNCHANGED <<kind, fatal, groupVars, spinVars, capable, listed, assoc, otherVars>>

\* spinning.exchange(true): an rclcpp executor's earlier cancel() is lost here.
ChildSpins(g) ==
    /\ child[g] = "started"
    /\ child' = [child EXCEPT ![g] = "spinning"]
    /\ told' = IF kind = "only" THEN told ELSE told \ {g}
    /\ UNCHANGED <<kind, fatal, groupVars, spinVars, capable, listed, assoc, otherVars>>

\* Mutant: the group stays claimed when its executor is gone.
ChildExits_keeps(g) ==
    /\ child[g] = "spinning" /\ g \in told
    /\ child' = [child EXCEPT ![g] = "exited"]
    /\ told' = told \ {g} /\ capable' = capable \ {g}
    /\ UNCHANGED <<kind, fatal, groupVars, spinVars, listed, assoc, otherVars>>

\* The loop ends; the child executor dies with its thread and frees the group.
ChildExits(g) ==
    /\ child[g] = "spinning" /\ g \in told
    /\ child' = [child EXCEPT ![g] = "exited"]
    /\ told' = told \ {g} /\ capable' = capable \ {g}
    /\ assoc' = assoc \ {g}
    /\ UNCHANGED <<kind, fatal, groupVars, spinVars, listed, otherVars>>

SpinStep == Collect \/ Wake \/ SpawnFirst \/ SpawnNew \/ StopChildren \/ SpinReturn
ChildStep(g) == ChildPublishes(g) \/ ChildSpins(g) \/ ChildExits(g)

Next ==
    /\ ~fatal
    /\ \/ AddNode \/ \E g \in Groups : CreateGroup(g) \/ CreateEntity(g) \/ AddCallbackGroup(g)
       \/ \E g \in Groups : RemoveCallbackGroup(g)
       \/ StopCallbackGroup \/ JoinStopped \/ DestroyGroup
       \/ SpinEnter \/ SpinStep
       \/ Cancel \/ CancelChildren
       \/ \E g \in Groups : ChildStep(g)

\* Threads that have something to do are scheduled.
Fairness ==
    /\ WF_vars(~fatal /\ SpinStep)
    /\ WF_vars(~fatal /\ CancelChildren)
    /\ \A g \in Groups : WF_vars(~fatal /\ ChildStep(g))

Spec == Init /\ [][Next]_vars /\ Fairness

-----------------------------------------------------------------------------
(* Properties.                                                             *)

\* spin() returns only when the threads it started are gone, but for one that
\* stop_callback_group has taken over and is joining itself.
NoThreadLeftBehind ==
    mon = "out" => \A g \in Groups : child[g] = "none" \/ (worker = "joining" /\ g \in target)

\* No group is ever given to two executors: a group is free again only once the
\* thread that served it is done, so the mixed executor never aborts in spawn.
NeverTwoExecutors == kind = "mixed" => ~fatal

\* A group is free exactly when no thread serves it.
AssociationTracksChild ==
    kind = "mixed" => \A g \in Groups :
        g \in assoc <=> child[g] \in {"starting", "started", "spinning"}

\* A cancelled agnocast-only executor leaves spin(), whatever its children were
\* doing when the request came.
CancelReturns == (kind = "only" /\ cancelled) ~> (mon = "out" \/ fatal)

\* A group that appears while the executor spins gets a thread of its own.
GroupsServed ==
    \A g \in Automatic : (g \in created /\ node /\ spinning /\ mon = "watch") ~>
        (child[g] = "spinning" \/ Stop \/ fatal)

=============================================================================
