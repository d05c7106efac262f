--------------------------- MODULE ThreadsProofs ----------------------------
(***************************************************************************)
(* Threads are joined and never doubled, in the callback isolated          *)
(* executors and in the component container, for every set of callback     *)
(* groups, of nodes and every number of executors.                         *)
(*                                                                         *)
(* IsolatedInv says whose duty each child thread is; ContainerInv says     *)
(* that the list of executors holds every thread that runs, one per group, *)
(* and what the holder of executor_wrappers_mutex_ has yet to join.        *)
(***************************************************************************)
EXTENDS MCThreads, FiniteSetTheorems, FunctionTheorems, TLAPS

-----------------------------------------------------------------------------
\* The callback isolated executors

\* The types the argument needs.
IsolatedTypes ==
  /\ kind \in {"only", "mixed"}
  /\ child \in [Groups -> Lives] /\ seen \subseteq Groups /\ manual \subseteq Groups
  /\ target \subseteq Groups /\ listed \subseteq Groups

\* Between its children spin() has none listed.
ListedOnWatch == mon \in {"out", "collect", "spawn", "join"} => listed = {}

\* Every thread is somebody's to join: spin()'s, or the worker's.
Tracked ==
  \A g \in Groups : child[g] # "none" =>
    g \in listed \/ (mon = "join" /\ g \in seen) \/ (worker = "joining" /\ g \in target)

\* The group the worker takes down is nobody else's.
TargetFree ==
  /\ \A g, h \in target : g = h
  /\ manual \cap Automatic = {} /\ target \cap (manual \cup Automatic) = {}
  /\ mon = "spawn" /\ worker = "joining" => seen \cap target = {}

\* The inductive invariant of the isolated executors.
IsolatedInv ==
  IsolatedTypes /\ ListedOnWatch /\ Tracked /\ TargetFree /\ NeverTwoExecutors /\ AssociationTracksChild

\* Threads for groups that nobody serves keep the invariant (spawn_child_executor).
LEMMA SpawnedAll ==
  ASSUME IsolatedInv, NEW S \in SUBSET Groups, Spawned(S), UNCHANGED <<kind, manual, target, worker>>,
         mon' = "watch", seen' = {}, kind = "mixed" => S \cap assoc = {},
         mon # "join"
  PROVE  IsolatedInv'
<1> USE DEF IsolatedInv, Spawned
<1>1. IsolatedTypes'
  BY DEF IsolatedTypes, Lives
<1>2. ListedOnWatch'
  BY DEF ListedOnWatch
<1>3. Tracked'
  BY DEF Tracked, IsolatedTypes
<1>4. TargetFree'
  BY DEF TargetFree
<1>5. NeverTwoExecutors'
  BY DEF NeverTwoExecutors
<1>6. AssociationTracksChild'
  BY DEF AssociationTracksChild, IsolatedTypes
<1> QED BY <1>1, <1>2, <1>3, <1>4, <1>5, <1>6

\* Every step of the isolated executors keeps their invariant.
LEMMA IsolatedSteps == IsolatedInv /\ Next => IsolatedInv'
<1> USE DEF IsolatedInv, IsolatedTypes, ListedOnWatch, Tracked, TargetFree, NeverTwoExecutors,
            AssociationTracksChild, groupVars, spinVars, childVars, otherVars, Lives
<1> SUFFICES ASSUME IsolatedInv, Next PROVE IsolatedInv'
  OBVIOUS
<1>1. ASSUME AddNode PROVE IsolatedInv'
  BY <1>1 DEF AddNode
<1>2. ASSUME NEW g \in Groups, CreateGroup(g) PROVE IsolatedInv'
  BY <1>2 DEF CreateGroup
<1>3. ASSUME NEW g \in Groups, CreateEntity(g) PROVE IsolatedInv'
  BY <1>3 DEF CreateEntity
<1>4. ASSUME NEW g \in Groups, AddCallbackGroup(g) PROVE IsolatedInv'
  <2>1. /\ g \notin Automatic /\ g \notin target /\ manual' = manual \cup {g}
        /\ UNCHANGED <<kind, child, seen, target, listed, mon, worker>>
    BY <1>4 DEF AddCallbackGroup
  <2>2. kind = "mixed" => UNCHANGED <<fatal, assoc>>
    BY <1>4 DEF AddCallbackGroup
  <2>3. NeverTwoExecutors' /\ AssociationTracksChild'
    BY <2>1, <2>2
  <2>4. IsolatedTypes' /\ ListedOnWatch' /\ Tracked'
    BY <1>4, <2>1
  <2>5. TargetFree'
    BY <2>1
  <2> QED BY <2>3, <2>4, <2>5
<1>5. ASSUME NEW g \in Groups, RemoveCallbackGroup(g) PROVE IsolatedInv'
  BY <1>5 DEF RemoveCallbackGroup
<1>6. ASSUME StopCallbackGroup PROVE IsolatedInv'
  <2>1. /\ worker' = IF target \subseteq listed THEN "joining" ELSE "destroying"
        /\ listed' = listed \ target /\ worker = "removed"
        /\ UNCHANGED <<kind, fatal, child, seen, manual, target, mon, assoc>>
    BY <1>6 DEF StopCallbackGroup
  <2>2. Tracked'
    <3>1. CASE target \subseteq listed
      BY <2>1, <3>1
    <3>2. CASE ~(target \subseteq listed)
      BY <2>1, <3>2
    <3> QED BY <3>1, <3>2
  <2>3. TargetFree'
    BY <2>1
  <2>4. IsolatedTypes' /\ ListedOnWatch' /\ NeverTwoExecutors' /\ AssociationTracksChild'
    BY <2>1
  <2> QED BY <2>2, <2>3, <2>4
<1>7. ASSUME JoinStopped PROVE IsolatedInv'
  BY <1>7 DEF JoinStopped
<1>8. ASSUME DestroyGroup PROVE IsolatedInv'
  BY <1>8 DEF DestroyGroup
<1>9. ASSUME SpinEnter PROVE IsolatedInv'
  BY <1>9 DEF SpinEnter
<1>10. ASSUME Collect PROVE IsolatedInv'
  <2>1. NodeGroups \subseteq Automatic /\ NodeGroups \subseteq Groups
    <3>1. NodeGroups = created \cap Automatic \/ NodeGroups = {}
      BY DEF NodeGroups
    <3> QED BY <3>1, GroupsAssumption
  <2> QED BY <1>10, <2>1 DEF Collect
<1>11. ASSUME Wake PROVE IsolatedInv'
  BY <1>11, GroupsAssumption DEF Wake, NewGroups, NodeGroups
<1>12. ASSUME SpawnFirst PROVE IsolatedInv'
  <2>1. CASE Stop
    BY <1>12, <2>1 DEF SpawnFirst
  <2>2. CASE ~Stop
    <3>1. /\ Spawned(seen) /\ UNCHANGED <<kind, manual, target, worker>>
          /\ mon' = "watch" /\ seen' = {} /\ mon = "spawn"
      BY <1>12, <2>2 DEF SpawnFirst
    <3>2. kind = "mixed" => seen \cap assoc = {}
      BY <3>1
    <3> QED BY <3>1, <3>2, SpawnedAll
  <2> QED BY <2>1, <2>2
<1>13. ASSUME SpawnNew PROVE IsolatedInv'
  <2>1. CASE Stop
    BY <1>13, <2>1 DEF SpawnNew
  <2>2. CASE ~Stop
    <3>1. /\ Spawned(seen \ assoc) /\ UNCHANGED <<kind, manual, target, worker>>
          /\ mon' = "watch" /\ seen' = {} /\ mon = "respawn"
      BY <1>13, <2>2 DEF SpawnNew
    <3> QED BY <3>1, SpawnedAll
  <2> QED BY <2>1, <2>2
<1>14. ASSUME StopChildren PROVE IsolatedInv'
  BY <1>14 DEF StopChildren
<1>15. ASSUME SpinReturn PROVE IsolatedInv'
  BY <1>15 DEF SpinReturn
<1>16. ASSUME Cancel PROVE IsolatedInv'
  BY <1>16 DEF Cancel
<1>17. ASSUME CancelChildren PROVE IsolatedInv'
  BY <1>17 DEF CancelChildren
<1>18. ASSUME NEW g \in Groups, ChildPublishes(g) PROVE IsolatedInv'
  BY <1>18 DEF ChildPublishes
<1>19. ASSUME NEW g \in Groups, ChildSpins(g) PROVE IsolatedInv'
  BY <1>19 DEF ChildSpins
<1>20. ASSUME NEW g \in Groups, ChildExits(g) PROVE IsolatedInv'
  BY <1>20 DEF ChildExits
<1> QED BY <1>1, <1>2, <1>3, <1>4, <1>5, <1>6, <1>7, <1>8, <1>9, <1>10, <1>11, <1>12, <1>13, <1>14,
           <1>15, <1>16, <1>17, <1>18, <1>19, <1>20 DEF Next, SpinStep, ChildStep

\* The invariant holds before spin() is entered.
LEMMA IsolatedStarts == Init => IsolatedInv
BY DEF Init, IsolatedInv, IsolatedTypes, ListedOnWatch, Tracked, TargetFree, NeverTwoExecutors,
       AssociationTracksChild, Lives

\* Steps of the container leave the isolated executors alone.
LEMMA IsolatedStutters == IsolatedInv /\ UNCHANGED vars => IsolatedInv'
<1> SUFFICES ASSUME IsolatedInv, UNCHANGED vars PROVE IsolatedInv'
  OBVIOUS
<1>1. UNCHANGED <<kind, fatal, child, seen, manual, target, listed, mon, worker, assoc>>
  BY DEF vars, groupVars, spinVars, childVars, otherVars
<1> QED BY <1>1 DEF IsolatedInv, IsolatedTypes, ListedOnWatch, Tracked, TargetFree, NeverTwoExecutors,
                    AssociationTracksChild

\* The invariant implies what the run checks of the isolated executors.
LEMMA IsolatedSays == IsolatedInv => NoThreadLeftBehind /\ NeverTwoExecutors /\ AssociationTracksChild
BY DEF IsolatedInv, ListedOnWatch, Tracked, NoThreadLeftBehind

-----------------------------------------------------------------------------
\* The component container

ThreadStates == {"none", "starting", "spinning", "exited"}

\* The types the argument needs.
ContainerTypes ==
  /\ main \in {"spin", "destroy", "gone", "aborted"}
  /\ service \in [step : {"idle", "adding", "removing", "erasing"}, node : Nodes \cup {0}]
  /\ thread \in [1 .. MaxExecs -> ThreadStates]
  /\ groups \subseteq NodesGroups
  /\ execs \subseteq [k : 1 .. MaxExecs, group : NodesGroups]

\* Threads are numbered in the order in which they are made.
Numbered == \E m \in 0 .. MaxExecs : \A k \in 1 .. MaxExecs : thread[k] # "none" <=> k <= m

\* A group has one executor at most, and is associated as long as it has one.
ExecsByGroup ==
  /\ \A x, y \in execs : x.group = y.group => x = y
  /\ \A x \in execs : x.group \in associated /\ thread[x.k] # "none"

\* Every thread that runs is in the list.
AllListed == \A k \in 1 .. MaxExecs : thread[k] \in {"starting", "spinning"} => \E x \in execs : x.k = k

\* What the holder of the mutex need not join any more has ended.
Joined ==
  /\ service.step = "removing" => \A x \in execs : x.group.node = service.node => x \in todo \/ thread[x.k] = "exited"
  /\ main = "destroy" => \A x \in execs : x \in todo \/ thread[x.k] = "exited"
  /\ main # "spin" => service.step = "idle"

\* Executors are those of loaded nodes, but for the race of the monitor.
Clean ==
  /\ service.step \in {"adding", "removing", "erasing"} => service.node \in nodes
  /\ ~raced =>
       /\ main # "aborted" /\ \A x \in execs : x.group.node \in nodes
       /\ service.step = "erasing" => \A x \in execs : x.group.node # service.node

\* The inductive invariant of the container.
ContainerInv == ContainerTypes /\ Numbered /\ ExecsByGroup /\ AllListed /\ Joined /\ Clean

\* The instance counts as the module that instantiates it does.
LEMMA CardinalityOfC == \A S : C!Cardinality(S) = Cardinality(S)
BY DEF C!Cardinality, Cardinality

\* With threads numbered in order, Made is the last number given.
LEMMA MadeIs ==
  ASSUME ContainerTypes, NEW m \in 0 .. MaxExecs, \A k \in 1 .. MaxExecs : thread[k] # "none" <=> k <= m
  PROVE  C!Made = m
<1>1. {k \in DOMAIN thread : thread[k] # "none"} = 1 .. m
  BY ContainerAssumption DEF ContainerTypes
<1>2. Cardinality(1 .. m) = m
  <2>1. 1 \in Int /\ m \in Int /\ (1 > m => m = 0) /\ m - 1 + 1 = m
    BY ContainerAssumption
  <2> QED BY <2>1, FS_Interval
<1> QED BY <1>1, <1>2, CardinalityOfC DEF C!Made

\* New executors: new threads, each of a group of its own, numbered on.
Started(gs) ==
  \E number \in [gs -> 1 .. MaxExecs] :
    /\ \A g \in gs : thread[number[g]] = "none"
    /\ \A g, h \in gs : number[g] = number[h] => g = h
    /\ execs' = execs \cup {[k |-> number[g], group |-> g] : g \in gs}
    /\ thread' = [k \in 1 .. MaxExecs |-> IF \E g \in gs : number[g] = k THEN "starting" ELSE thread[k]]
    /\ associated' = associated \cup gs

\* The numbers that start_executors gives are new, used up and keep the order: as many
\* numbers as groups, so that the injection is onto.
LEMMA StartsExecutors ==
  ASSUME ContainerTypes, Numbered, NEW gs \in SUBSET NodesGroups, C!start_executors(gs)
  PROVE  Started(gs) /\ Numbered'
<1>1. PICK m \in 0 .. MaxExecs : \A k \in 1 .. MaxExecs : thread[k] # "none" <=> k <= m
  BY DEF Numbered
<1>2. C!Made = m /\ m \in Nat
  BY <1>1, MadeIs, ContainerAssumption
<1> DEFINE n == Cardinality(gs)
<1>3. IsFiniteSet(gs) /\ n \in Nat /\ C!Cardinality(gs) = n
  BY ContainerAssumption, FS_Subset, FS_CardinalityType, CardinalityOfC
<1> HIDE DEF n
<1>4. /\ m + n <= MaxExecs
      /\ \E number \in [gs -> (m + 1) .. (m + n)] :
           /\ \A g, h \in gs : g # h => number[g] # number[h]
           /\ execs' = execs \cup {[k |-> number[g], group |-> g] : g \in gs}
           /\ thread' = [k \in DOMAIN thread |->
                           IF \E g \in gs : number[g] = k THEN "starting" ELSE thread[k]]
      /\ associated' = associated \cup gs
  BY <1>2, <1>3 DEF C!start_executors
<1>5. PICK number \in [gs -> (m + 1) .. (m + n)] :
           /\ \A g, h \in gs : g # h => number[g] # number[h]
           /\ execs' = execs \cup {[k |-> number[g], group |-> g] : g \in gs}
           /\ thread' = [k \in DOMAIN thread |->
                           IF \E g \in gs : number[g] = k THEN "starting" ELSE thread[k]]
  BY <1>4
<1>6. DOMAIN thread = 1 .. MaxExecs /\ MaxExecs \in Nat
  BY ContainerAssumption DEF ContainerTypes
<1>7. \A g \in gs : number[g] \in 1 .. MaxExecs /\ number[g] > m
  BY <1>2, <1>3, <1>4, <1>5, <1>6
<1>8. number \in [gs -> 1 .. MaxExecs]
  BY <1>5, <1>7
<1>9. \A g \in gs : thread[number[g]] = "none"
  BY <1>1, <1>2, <1>6, <1>7
<1>10. Started(gs)
  BY <1>4, <1>5, <1>6, <1>8, <1>9 DEF Started
<1>11. number \in Surjection(gs, (m + 1) .. (m + n))
  <2>1. number \in Injection(gs, (m + 1) .. (m + n))
    BY <1>5, Fun_IsInj
  <2>2. m + 1 \in Int /\ m + n \in Int /\ (m + 1 > m + n => n = 0) /\ (m + n) - (m + 1) + 1 = n
    BY <1>2, <1>3
  <2>3. IsFiniteSet((m + 1) .. (m + n)) /\ Cardinality((m + 1) .. (m + n)) = n
    BY <2>2, FS_Interval
  <2> QED BY <2>1, <2>3, FS_Injection DEF n
<1>12. \A k \in (m + 1) .. (m + n) : \E g \in gs : number[g] = k
  BY <1>11 DEF Surjection
<1>13. Numbered'
  <2>1. m + n \in 0 .. MaxExecs
    BY <1>2, <1>3, <1>4, <1>6
  <2>2. ASSUME NEW k \in 1 .. MaxExecs PROVE thread'[k] # "none" <=> k <= m + n
    <3>1. CASE \E g \in gs : number[g] = k
      <4>1. thread'[k] = "starting" /\ k \in (m + 1) .. (m + n)
        BY <1>5, <1>6, <3>1
      <4> QED BY <1>2, <1>3, <4>1
    <3>2. CASE ~ \E g \in gs : number[g] = k
      <4>1. thread'[k] = thread[k] /\ k \notin (m + 1) .. (m + n)
        BY <1>5, <1>6, <1>12, <3>2
      <4> QED BY <1>1, <1>2, <1>3, <1>6, <4>1
    <3> QED BY <3>1, <3>2
  <2> QED BY <2>1, <2>2 DEF Numbered
<1> QED BY <1>10, <1>13

\* New executors of groups that had none keep the list right.
LEMMA StartedKeeps ==
  ASSUME ContainerInv, NEW gs \in SUBSET NodesGroups, Started(gs), gs \cap associated = {}
  PROVE  /\ thread' \in [1 .. MaxExecs -> ThreadStates]
         /\ execs' \subseteq [k : 1 .. MaxExecs, group : NodesGroups]
         /\ ExecsByGroup' /\ AllListed'
         /\ \A x \in execs' : x \in execs \/ x.group \in gs
         /\ \A k \in 1 .. MaxExecs : thread[k] # "none" => thread'[k] = thread[k]
<1>1. PICK number \in [gs -> 1 .. MaxExecs] :
        /\ \A g \in gs : thread[number[g]] = "none"
        /\ \A g, h \in gs : number[g] = number[h] => g = h
        /\ execs' = execs \cup {[k |-> number[g], group |-> g] : g \in gs}
        /\ thread' = [k \in 1 .. MaxExecs |-> IF \E g \in gs : number[g] = k THEN "starting" ELSE thread[k]]
        /\ associated' = associated \cup gs
  BY DEF Started
<1>2. thread' \in [1 .. MaxExecs -> ThreadStates]
  BY <1>1 DEF ContainerInv, ContainerTypes, ThreadStates
<1>3. \A x \in execs' : x \in execs \/ \E g \in gs : x = [k |-> number[g], group |-> g]
  BY <1>1
<1>4. \A k \in 1 .. MaxExecs : thread[k] # "none" => thread'[k] = thread[k]
  BY <1>1
<1>5. execs' \subseteq [k : 1 .. MaxExecs, group : NodesGroups]
  BY <1>1, <1>3 DEF ContainerInv, ContainerTypes
<1>6. \A x \in execs' : x \in execs \/ (x.group \in gs /\ x.k = number[x.group] /\ x.k \in 1 .. MaxExecs)
  BY <1>1, <1>3
<1>7. ExecsByGroup'
  <2>1. ASSUME NEW x \in execs', NEW y \in execs', x.group = y.group PROVE x = y
    <3>1. CASE x \in execs /\ y \in execs
      BY <2>1, <3>1 DEF ContainerInv, ExecsByGroup
    <3>2. CASE x \in execs /\ y \notin execs
      BY <1>6, <2>1, <3>2 DEF ContainerInv, ExecsByGroup
    <3>3. CASE x \notin execs /\ y \in execs
      BY <1>6, <2>1, <3>3 DEF ContainerInv, ExecsByGroup
    <3>4. CASE x \notin execs /\ y \notin execs
      BY <1>3, <2>1, <3>4
    <3> QED BY <3>1, <3>2, <3>3, <3>4
  <2>2. ASSUME NEW x \in execs' PROVE x.group \in associated' /\ thread'[x.k] # "none"
    <3>1. CASE x \in execs
      BY <1>1, <1>4, <3>1 DEF ContainerInv, ContainerTypes, ExecsByGroup
    <3>2. CASE x \notin execs
      BY <1>1, <1>6, <3>2
    <3> QED BY <3>1, <3>2
  <2> QED BY <2>1, <2>2 DEF ExecsByGroup
<1>8. AllListed'
  <2> SUFFICES ASSUME NEW k \in 1 .. MaxExecs, thread'[k] \in {"starting", "spinning"}
               PROVE  \E x \in execs' : x.k = k
    BY DEF AllListed
  <2>1. CASE \E g \in gs : number[g] = k
    <3>1. PICK g \in gs : number[g] = k
      BY <2>1
    <3>2. [k |-> number[g], group |-> g] \in execs' /\ [k |-> number[g], group |-> g].k = k
      BY <1>1, <3>1
    <3> QED BY <3>2
  <2>2. CASE ~ \E g \in gs : number[g] = k
    <3>1. thread[k] \in {"starting", "spinning"}
      BY <1>1, <2>2
    <3>2. PICK x \in execs : x.k = k
      BY <3>1 DEF ContainerInv, AllListed
    <3> QED BY <1>1, <3>2
  <2> QED BY <2>1, <2>2
<1> QED BY <1>2, <1>4, <1>5, <1>6, <1>7, <1>8

\* The groups that are given executors had none; the monitor looks at loaded nodes only.
LEMMA UnservedFree ==
  ASSUME ContainerTypes
  PROVE  /\ \A n : C!Unserved(n) \in SUBSET NodesGroups /\ C!Unserved(n) \cap associated = {}
         /\ \A n : \A g \in C!Unserved(n) : g.node = n
         /\ C!AllUnserved \in SUBSET NodesGroups /\ C!AllUnserved \cap associated = {}
         /\ \A g \in C!AllUnserved : g.node \in nodes /\ g \in C!Unserved(g.node)
<1>1. \A n : C!Unserved(n) = {g \in groups : g.node = n /\ ~(g \in clockOnly) /\ g \notin associated}
  BY DEF C!Unserved, C!is_clock_callback_group
<1>2. \A g \in C!AllUnserved : \E n \in nodes : g \in C!Unserved(n)
  BY DEF C!AllUnserved
<1>3. groups \subseteq NodesGroups
  BY DEF ContainerTypes
<1>4. \A g \in C!AllUnserved : g \in groups /\ g \notin associated /\ g.node \in nodes /\ g \in C!Unserved(g.node)
  BY <1>1, <1>2
<1> QED BY <1>1, <1>3, <1>4

\* A step that starts executors and touches neither groups nor nodes.
LEMMA StartSteps ==
  ASSUME ContainerInv, NEW gs \in SUBSET NodesGroups, gs \cap associated = {}, C!start_executors(gs),
         UNCHANGED <<main, groups, nodes, todo>>, main = "spin", service.step # "removing",
         service' = service \/ service' = C!Idle,
         \A g \in gs : g.node \in nodes,
         ~raced' => ~raced /\ (service'.step = "erasing" => \A g \in gs : g.node # service.node)
  PROVE  ContainerInv'
<1>1. Started(gs) /\ Numbered'
  BY StartsExecutors DEF ContainerInv
<1>2. /\ thread' \in [1 .. MaxExecs -> ThreadStates]
      /\ execs' \subseteq [k : 1 .. MaxExecs, group : NodesGroups]
      /\ ExecsByGroup' /\ AllListed'
      /\ \A x \in execs' : x \in execs \/ x.group \in gs
  BY <1>1, StartedKeeps
<1>3. /\ service' \in [step : {"idle", "adding", "removing", "erasing"}, node : Nodes \cup {0}]
      /\ service'.step \in {"idle", service.step} /\ (service'.step # "idle" => service' = service)
  BY DEF ContainerInv, ContainerTypes, C!Idle
<1>4. ContainerTypes'
  BY <1>2, <1>3 DEF ContainerInv, ContainerTypes
<1>5. Joined'
  BY <1>3 DEF ContainerInv, Joined
<1>6. Clean'
  BY <1>2, <1>3 DEF ContainerInv, Clean
<1> QED BY <1>1, <1>2, <1>4, <1>5, <1>6 DEF ContainerInv

\* Steps that leave the executors, the threads and the associations as they are.
LEMMA RestingLists ==
  ASSUME ContainerInv, UNCHANGED <<execs, thread, associated>>
  PROVE  Numbered' /\ ExecsByGroup' /\ AllListed'
BY DEF ContainerInv, Numbered, ExecsByGroup, AllListed

\* Every step of the container keeps its invariant.
LEMMA ContainerSteps == ContainerInv /\ C!Next => ContainerInv'
<1> SUFFICES ASSUME ContainerInv, C!Next PROVE ContainerInv'
  OBVIOUS
<1>1. ASSUME NEW g \in NodesGroups, C!CreateEntity(g) PROVE ContainerInv'
  <2>1. UNCHANGED <<main, service, nodes, groups, associated, execs, thread, todo, raced>>
    BY <1>1 DEF C!CreateEntity
  <2> QED BY <2>1, RestingLists DEF ContainerInv, ContainerTypes, Joined, Clean
<1>2. ASSUME NEW g \in NodesGroups, NEW isClock \in BOOLEAN, C!CreateGroup(g, isClock) PROVE ContainerInv'
  <2>1. /\ groups' = groups \cup {g}
        /\ UNCHANGED <<main, service, nodes, associated, execs, thread, todo, raced>>
    BY <1>2 DEF C!CreateGroup
  <2> QED BY <2>1, RestingLists DEF ContainerInv, ContainerTypes, Joined, Clean
<1>3. ASSUME NEW n \in Nodes, C!Load(n) PROVE ContainerInv'
  <2>1. /\ nodes' = nodes \cup {n} /\ groups' \subseteq NodesGroups
        /\ service' = [step |-> "adding", node |-> n] /\ main = "spin"
        /\ UNCHANGED <<main, associated, execs, thread, todo, raced>>
    BY <1>3 DEF C!Load, ContainerInv, ContainerTypes
  <2>2. service'.step = "adding" /\ service'.node = n
        /\ service' \in [step : {"idle", "adding", "removing", "erasing"}, node : Nodes \cup {0}]
    BY <1>3, <2>1
  <2> QED BY <2>1, <2>2, RestingLists DEF ContainerInv, ContainerTypes, Joined, Clean
<1>4. ASSUME NEW n \in Nodes, C!add_node_to_executor(n) PROVE ContainerInv'
  <2>1. /\ service.step = "adding" /\ service.node = n /\ service' = C!Idle
        /\ UNCHANGED <<main, groups, nodes, todo, raced>> /\ C!start_executors(C!Unserved(n))
    BY <1>4 DEF C!add_node_to_executor, C!groupVars
  <2>2. main = "spin" /\ n \in nodes
    BY <2>1 DEF ContainerInv, Joined, Clean
  <2>3. C!Unserved(n) \in SUBSET NodesGroups /\ C!Unserved(n) \cap associated = {}
        /\ \A g \in C!Unserved(n) : g.node \in nodes
    BY <2>2, UnservedFree DEF ContainerInv
  <2>4. service'.step # "erasing"
    BY <2>1 DEF C!Idle
  <2> QED BY <2>1, <2>2, <2>3, <2>4, StartSteps
<1>5. ASSUME C!check_for_new_callback_groups PROVE ContainerInv'
  <2>1. /\ main = "spin" /\ service.step # "removing" /\ C!start_executors(C!AllUnserved)
        /\ raced' = (raced \/ (service.step = "erasing" /\ C!Unserved(service.node) # {}))
        /\ UNCHANGED <<main, service, groups, nodes, todo>>
    BY <1>5 DEF C!check_for_new_callback_groups, C!Locked, C!At, C!groupVars
  <2>2. /\ C!AllUnserved \in SUBSET NodesGroups /\ C!AllUnserved \cap associated = {}
        /\ \A g \in C!AllUnserved : g.node \in nodes /\ g \in C!Unserved(g.node)
    BY UnservedFree DEF ContainerInv
  <2>3. ~raced' => ~raced /\ (service'.step = "erasing" => \A g \in C!AllUnserved : g.node # service.node)
    BY <2>1, <2>2
  <2> QED BY <2>1, <2>2, <2>3, StartSteps
<1>6. ASSUME NEW n \in Nodes, C!remove_node_from_executor(n) PROVE ContainerInv'
  <2>1. /\ main = "spin" /\ n \in nodes
        /\ todo' = {x \in execs : x.group.node = n} /\ service' = [step |-> "removing", node |-> n]
        /\ UNCHANGED <<main, nodes, groups, associated, execs, thread, raced>>
    BY <1>6 DEF C!remove_node_from_executor, C!Of, C!groupVars
  <2>2. service'.step = "removing" /\ service'.node = n
        /\ service' \in [step : {"idle", "adding", "removing", "erasing"}, node : Nodes \cup {0}]
    BY <1>6, <2>1
  <2>3. Joined' /\ Clean' /\ ContainerTypes'
    BY <2>1, <2>2 DEF ContainerInv, ContainerTypes, Joined, Clean
  <2> QED BY <2>1, <2>3, RestingLists DEF ContainerInv
<1>7. ASSUME C!Shutdown PROVE ContainerInv'
  <2>1. UNCHANGED <<main, service, nodes, groups, associated, execs, thread, todo, raced>>
    BY <1>7 DEF C!Shutdown, C!groupVars
  <2> QED BY <2>1, RestingLists DEF ContainerInv, ContainerTypes, Joined, Clean
<1>8. ASSUME C!Destroy PROVE ContainerInv'
  <2>1. /\ service.step = "idle"
        /\ IF nodes = {}
           THEN main' = (IF execs = {} THEN "gone" ELSE "aborted") /\ UNCHANGED todo
           ELSE main' = "destroy" /\ todo' = execs
        /\ UNCHANGED <<service, nodes, groups, associated, execs, thread, raced>>
    BY <1>8 DEF C!Destroy, C!Idle, C!groupVars
  <2>2. ContainerTypes' /\ Joined'
    BY <2>1 DEF ContainerInv, ContainerTypes, Joined
  <2>3. Clean'
    BY <2>1 DEF ContainerInv, Clean
  <2> QED BY <2>1, <2>2, <2>3, RestingLists DEF ContainerInv
<1>9. ASSUME NEW k \in 1 .. MaxExecs, C!ThreadSpins(k) \/ C!ThreadExits(k) PROVE ContainerInv'
  <2>1. PICK state \in {"spinning", "exited"} :
          /\ thread[k] \in {"starting", "spinning"} /\ thread' = [thread EXCEPT ![k] = state]
          /\ UNCHANGED <<main, service, nodes, groups, associated, execs, todo, raced>>
    BY <1>9 DEF C!ThreadSpins, C!ThreadExits, C!groupVars
  <2>2. /\ thread' \in [1 .. MaxExecs -> ThreadStates] /\ thread'[k] = state
        /\ \A j \in 1 .. MaxExecs : j # k => thread'[j] = thread[j]
    BY <1>9, <2>1 DEF ContainerInv, ContainerTypes, ThreadStates
  <2>3. ContainerTypes' /\ Clean'
    BY <2>1, <2>2 DEF ContainerInv, ContainerTypes, Clean
  <2>4. \A j \in 1 .. MaxExecs : (thread'[j] # "none") <=> (thread[j] # "none")
    BY <2>1, <2>2
  <2>5. Numbered'
    BY <2>4 DEF ContainerInv, Numbered
  <2>6. \A x \in execs : x.k \in 1 .. MaxExecs
    BY DEF ContainerInv, ContainerTypes
  <2>7. ExecsByGroup'
    BY <2>1, <2>4, <2>6 DEF ContainerInv, ExecsByGroup
  <2>8. AllListed'
    BY <2>1, <2>2 DEF ContainerInv, AllListed
  <2>9. \A j \in 1 .. MaxExecs : thread[j] = "exited" => thread'[j] = "exited"
    BY <2>1, <2>2
  <2>10. Joined'
    BY <2>1, <2>6, <2>9 DEF ContainerInv, Joined
  <2> QED BY <2>3, <2>5, <2>7, <2>8, <2>10 DEF ContainerInv
<1>10. ASSUME C!EraseExecutors PROVE ContainerInv'
  <2>1. /\ service.step = "removing" /\ todo = {}
        /\ execs' = {x \in execs : x.group.node # service.node}
        /\ associated' = {g \in associated : g.node # service.node}
        /\ service' = [service EXCEPT !.step = "erasing"]
        /\ UNCHANGED <<main, nodes, groups, thread, todo, raced>>
    BY <1>10 DEF C!EraseExecutors, C!Of, C!At, C!groupVars
  <2>2. /\ service' \in [step : {"idle", "adding", "removing", "erasing"}, node : Nodes \cup {0}]
        /\ service'.step = "erasing" /\ service'.node = service.node
    BY <2>1 DEF ContainerInv, ContainerTypes
  <2>3. ContainerTypes' /\ Numbered'
    BY <2>1, <2>2 DEF ContainerInv, ContainerTypes, Numbered
  <2>4. ExecsByGroup'
    BY <2>1 DEF ContainerInv, ExecsByGroup
  <2>5. \A x \in execs : x \in execs' \/ thread[x.k] = "exited"
    BY <2>1 DEF ContainerInv, Joined
  <2>6. AllListed'
    BY <2>1, <2>5 DEF ContainerInv, AllListed
  <2>7. Joined' /\ Clean'
    BY <2>1, <2>2 DEF ContainerInv, Joined, Clean
  <2> QED BY <2>3, <2>4, <2>6, <2>7 DEF ContainerInv
<1>11. ASSUME C!Unload PROVE ContainerInv'
  <2>1. /\ service.step = "erasing" /\ nodes' = nodes \ {service.node}
        /\ groups' = {g \in groups : g.node # service.node} /\ service' = C!Idle
        /\ UNCHANGED <<main, associated, execs, thread, todo, raced>>
    BY <1>11 DEF C!Unload, C!At
  <2>2. /\ service' \in [step : {"idle", "adding", "removing", "erasing"}, node : Nodes \cup {0}]
        /\ service'.step = "idle"
    BY <2>1 DEF C!Idle
  <2>3. ContainerTypes' /\ Joined'
    BY <2>1, <2>2 DEF ContainerInv, ContainerTypes, Joined
  <2>4. Clean'
    BY <2>1, <2>2 DEF ContainerInv, Clean
  <2> QED BY <2>1, <2>3, <2>4, RestingLists DEF ContainerInv
<1>12. ASSUME C!DestroyEnds PROVE ContainerInv'
  <2>1. /\ main = "destroy" /\ todo = {} /\ main' = "gone" /\ execs' = {} /\ groups' = {}
        /\ UNCHANGED <<service, thread, todo, raced>>
    BY <1>12 DEF C!DestroyEnds
  <2>2. service.step = "idle" /\ \A x \in execs : thread[x.k] = "exited"
    BY <2>1 DEF ContainerInv, Joined
  <2>3. AllListed'
    BY <2>1, <2>2 DEF ContainerInv, AllListed
  <2>4. ContainerTypes' /\ Numbered' /\ ExecsByGroup'
    BY <2>1 DEF ContainerInv, ContainerTypes, Numbered, ExecsByGroup
  <2>5. Joined' /\ Clean'
    BY <2>1, <2>2 DEF Joined, Clean
  <2> QED BY <2>3, <2>4, <2>5 DEF ContainerInv
<1>13. ASSUME NEW x \in todo, C!cancel_executor(x) PROVE ContainerInv'
  <2>1. UNCHANGED <<main, service, nodes, groups, associated, execs, thread, todo, raced>>
    BY <1>13 DEF C!cancel_executor, C!groupVars
  <2> QED BY <2>1, RestingLists DEF ContainerInv, ContainerTypes, Joined, Clean
<1>14. ASSUME NEW x \in todo, C!Join(x) PROVE ContainerInv'
  <2>1. /\ thread[x.k] = "exited" /\ todo' = todo \ {x}
        /\ UNCHANGED <<main, service, nodes, groups, associated, execs, thread, raced>>
    BY <1>14 DEF C!Join, C!groupVars
  <2>2. Joined'
    BY <2>1 DEF ContainerInv, Joined
  <2>3. ContainerTypes' /\ Clean'
    BY <2>1 DEF ContainerInv, ContainerTypes, Clean
  <2> QED BY <2>1, <2>2, <2>3, RestingLists DEF ContainerInv
<1> QED BY <1>1, <1>2, <1>3, <1>4, <1>5, <1>6, <1>7, <1>8, <1>9, <1>10, <1>11, <1>12, <1>13, <1>14
        DEF C!Next, C!ThreadSteps, C!HolderSteps

\* The invariant holds of the empty container.
LEMMA ContainerStarts == C!Init => ContainerInv
<1> SUFFICES ASSUME C!Init PROVE ContainerInv
  OBVIOUS
<1>1. /\ main = "spin" /\ service = [step |-> "idle", node |-> 0]
      /\ groups = {} /\ execs = {} /\ thread = [k \in 1 .. MaxExecs |-> "none"]
  BY DEF C!Init, C!Idle
<1>2. ContainerTypes
  BY <1>1 DEF ContainerTypes, ThreadStates
<1>3. Numbered
  <2>1. 0 \in 0 .. MaxExecs /\ \A k \in 1 .. MaxExecs : thread[k] # "none" <=> k <= 0
    BY <1>1, ContainerAssumption
  <2> QED BY <2>1 DEF Numbered
<1>4. ExecsByGroup /\ AllListed /\ Joined /\ Clean
  BY <1>1 DEF ExecsByGroup, AllListed, Joined, Clean
<1> QED BY <1>2, <1>3, <1>4 DEF ContainerInv

\* Steps of the isolated executors leave the container alone.
LEMMA ContainerStutters == ContainerInv /\ UNCHANGED containerVars => ContainerInv'
<1> SUFFICES ASSUME ContainerInv, UNCHANGED containerVars PROVE ContainerInv'
  OBVIOUS
<1>1. UNCHANGED <<main, service, nodes, groups, associated, execs, thread, todo, raced>>
  BY DEF containerVars
<1> QED BY <1>1, RestingLists DEF ContainerInv, ContainerTypes, Joined, Clean

\* The invariant implies what the run checks of the container.
LEMMA ContainerSays == ContainerInv => C!OneThreadPerGroup /\ C!CleanUnlessRaced
BY DEF ContainerInv, ExecsByGroup, AllListed, Clean, C!OneThreadPerGroup, C!CleanUnlessRaced

-----------------------------------------------------------------------------
\* Both invariants hold throughout: a step is a step of one part.
LEMMA ThreadsKept == ThreadsSpec => [](IsolatedInv /\ ContainerInv)
<1>1. ThreadsInit => IsolatedInv /\ ContainerInv
  BY IsolatedStarts, ContainerStarts DEF ThreadsInit
<1>2. IsolatedInv /\ ContainerInv /\ [ThreadsNext]_<<part, vars, containerVars>> => (IsolatedInv /\ ContainerInv)'
  <2> SUFFICES ASSUME IsolatedInv, ContainerInv, [ThreadsNext]_<<part, vars, containerVars>>
               PROVE  IsolatedInv' /\ ContainerInv'
    OBVIOUS
  <2>1. CASE Next /\ UNCHANGED containerVars
    BY <2>1, IsolatedSteps, ContainerStutters
  <2>2. CASE C!Next /\ UNCHANGED vars
    BY <2>2, IsolatedStutters, ContainerSteps
  <2>3. CASE UNCHANGED <<vars, containerVars>>
    BY <2>3, IsolatedStutters, ContainerStutters
  <2> QED BY <2>1, <2>2, <2>3 DEF ThreadsNext
<1> QED BY <1>1, <1>2, PTL DEF ThreadsSpec

\* Every thread of an isolated executor is joined before spin() returns, whoever took its
\* group away meanwhile; and the container neither aborts on an unjoined thread nor keeps
\* executors of a node that is gone, unless its monitor came between the two removals of
\* an unload (CallbackIsolatedAgnocastExecutor::spin, stop_callback_group,
\* remove_node_from_executor).
THEOREM ThreadsJoined == ThreadsSpec => []NothingLeftBehind
<1>1. IsolatedInv /\ ContainerInv => NothingLeftBehind
  BY IsolatedSays, ContainerSays DEF NothingLeftBehind
<1> QED BY <1>1, ThreadsKept, PTL

\* No callback group of the mixed executor or of the container ever has two executors, so
\* that its callbacks exclude each other, though groups appear late and are taken away
\* while threads start; the mixed executor therefore never aborts when it spawns; and
\* every thread of the container that runs is in the list from which it is joined
\* (spawn_child_executor, start_executor_for_callback_group).
THEOREM ExecutorsExclusive == ThreadsSpec => []OneExecutorPerGroup
<1>1. IsolatedInv /\ ContainerInv => OneExecutorPerGroup
  BY IsolatedSays, ContainerSays DEF OneExecutorPerGroup
<1> QED BY <1>1, ThreadsKept, PTL

=============================================================================
