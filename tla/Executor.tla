------------------------------ MODULE Executor ------------------------------
(***************************************************************************)
(* The executors of one process.  Callback subscriptions and timers (the   *)
(* sources) are registered in process-wide tables; every executor owns an  *)
(* epoll set, a vector of ready executables and an update flag, and runs   *)
(* several threads over them.  Kind "only" is AgnocastOnlyExecutor, which  *)
(* polls the sources of the groups it owns; kind "mixed" is                *)
(* AgnocastExecutor beside rclcpp, which polls every source it finds and   *)
(* asks who owns the group when it picks an executable; "dedicated" is the *)
(* SingleThreadedAgnocastExecutor that serves one group for the callback   *)
(* isolated executor.                                                      *)
(***************************************************************************)
EXTENDS Integers, Sequences, FiniteSets

CONSTANTS
    Execs, Threads, Groups, Subs, Timers, Fds,
    NoSource,       \* a thread that holds no source
    ExecOf,         \* the executor each thread spins
    GroupOf,        \* the callback group of each source
    Exclusive,      \* the groups of type MutuallyExclusive
    AutoAdd,        \* the groups added to an executor with their node
    Transient,      \* the subscriptions with transient local durability
    Batch,          \* MAX_RECEIVE_NUM: entries one receive ioctl returns
    MaxSends,       \* bound: publications and timer expirations
    Orderly         \* sources are destroyed only once no executor can run them

\* What an executor looks after.
Sources == Subs \cup Timers

ASSUME ExecutorAssumption ==
    /\ ExecOf \in [Threads -> Execs] /\ GroupOf \in [Sources -> Groups]
    /\ Exclusive \subseteq Groups /\ AutoAdd \subseteq Groups /\ Transient \subseteq Subs
    /\ Subs \cap Timers = {} /\ NoSource \notin Sources
    /\ Batch \in Nat \ {0} /\ MaxSends \in Nat /\ Orderly \in BOOLEAN
    /\ IsFiniteSet(Sources)
    /\ 0 \notin Fds \cup Timers /\ Fds \cap Timers = {}   \* 0 stands for "closed"

VARIABLES
    kind,       \* the class of each executor
    stage,      \* how far each source is in its life: none, created, inserted,
                \* registered, erased, gone
    need,       \* need_epoll_update of each registered source
    fd,         \* the eventfd number of each subscription, 0 when closed
    event,      \* whether a read of an eventfd or timerfd would return a count
    unread,     \* messages the kernel holds for a subscription; a timer's expiry
    epoll,      \* the sources in each executor's epoll set
    update,     \* need_update of each executor's EpollUpdateTracker
    ready,      \* ready_agnocast_executables_ of each executor
    node,       \* the executors the process's node has been added to
    created,    \* the callback groups that exist
    assoc,      \* the groups each executor owns
    takeable,   \* can_be_taken_from of each group
    pc, hand,   \* where each thread is and the source it works on
    spinning, cancelled,
    fatal,      \* the process has called exit(EXIT_FAILURE)
    sends

sourceVars == <<stage, need, fd, event, unread, sends>>
ownVars == <<node, created, assoc>>
execVars == <<epoll, update, ready, takeable>>
threadVars == <<pc, hand>>
runVars == <<kind, spinning, cancelled, fatal>>
vars == <<sourceVars, ownVars, execVars, threadVars, runVars>>

ThreadsOf(x) == {t \in Threads : ExecOf[t] = x}
Registered(s) == stage[s] \in {"inserted", "registered"}
Queued(x) == {ready[x][i] : i \in DOMAIN ready[x]}
\* A subscription's wakeups arrive on its eventfd, a timer's on its timerfd.
Wakeup(s) == IF s \in Subs THEN fd[s] ELSE s
Readable(s) == Wakeup(s) # 0 /\ event[Wakeup(s)]

Init ==
    /\ kind \in [Execs -> {"only", "mixed", "dedicated"}]
    /\ stage = [s \in Sources |-> "none"]
    /\ need = [s \in Sources |-> FALSE]
    /\ fd = [s \in Subs |-> 0]
    /\ event = [f \in Fds \cup Timers |-> FALSE]
    /\ unread = [s \in Sources |-> 0]
    /\ epoll = [x \in Execs |-> {}]
    /\ update = [x \in Execs |-> TRUE]
    /\ ready = [x \in Execs |-> <<>>]
    /\ node = {} /\ created = {}
    /\ assoc = [x \in Execs |-> {}]
    /\ takeable = [g \in Groups |-> TRUE]
    /\ pc = [t \in Threads |-> "out"] /\ hand = [t \in Threads |-> NoSource]
    /\ spinning = [x \in Execs |-> FALSE] /\ cancelled = [x \in Execs |-> FALSE]
    /\ fatal = FALSE /\ sends = 0

-----------------------------------------------------------------------------
(* The application: groups, nodes, subscriptions and timers.               *)

CreateGroup(g) ==
    /\ g \notin created
    /\ created' = created \cup {g}
    /\ UNCHANGED <<node, assoc, sourceVars, execVars, threadVars, runVars>>

Owned == UNION {assoc[x] : x \in Execs}

\* add_node: the node's automatic groups go to the executor, which is asked to
\* look at its sources again.
AddNode(x) ==
    /\ node = {} /\ kind[x] # "dedicated"
    /\ node' = {x}
    /\ assoc' = [assoc EXCEPT ![x] = @ \cup ((created \cap AutoAdd) \ Owned)]
    /\ update' = IF kind[x] = "only" THEN [update EXCEPT ![x] = TRUE] ELSE update
    /\ UNCHANGED <<created, sourceVars, epoll, ready, takeable, threadVars, runVars>>

RemoveNode(x) ==
    /\ x \in node
    /\ node' = {}
    /\ assoc' = [assoc EXCEPT ![x] = @ \ AutoAdd]
    /\ update' = IF kind[x] = "only" THEN [update EXCEPT ![x] = TRUE] ELSE update
    /\ UNCHANGED <<created, sourceVars, epoll, ready, takeable, threadVars, runVars>>

AddCallbackGroup(x, g) ==
    /\ g \in created \ Owned
    /\ IF kind[x] = "dedicated" THEN assoc[x] = {} /\ update[x] ELSE g \notin AutoAdd
    /\ assoc' = [assoc EXCEPT ![x] = @ \cup {g}]
    /\ update' = IF kind[x] = "only" THEN [update EXCEPT ![x] = TRUE] ELSE update
    /\ UNCHANGED <<node, created, sourceVars, epoll, ready, takeable, threadVars, runVars>>

RemoveCallbackGroup(x, g) ==
    /\ g \in assoc[x] \ AutoAdd /\ kind[x] # "dedicated"
    /\ assoc' = [assoc EXCEPT ![x] = @ \ {g}]
    /\ update' = IF kind[x] = "only" THEN [update EXCEPT ![x] = TRUE] ELSE update
    /\ UNCHANGED <<node, created, sourceVars, epoll, ready, takeable, threadVars, runVars>>

\* SubscriptionBase::initialize: an eventfd and the kernel's subscriber.  A
\* transient local one may find messages for which nobody will wake it.
CreateSubscription(s) ==
    /\ stage[s] = "none" /\ GroupOf[s] \in created
    /\ stage' = [stage EXCEPT ![s] = "created"]
    /\ \E f \in Fds \ {fd[u] : u \in Subs} :
          /\ fd' = [fd EXCEPT ![s] = f]
          /\ event' = [event EXCEPT ![f] = FALSE]
    /\ \E n \in 0..(IF s \in Transient /\ sends < MaxSends THEN 1 ELSE 0) :
          /\ unread' = [unread EXCEPT ![s] = n]
          /\ sends' = sends + n
    /\ UNCHANGED <<need, ownVars, execVars, threadVars, runVars>>

\* register_callback and register_timer_info: into the table first ...
Insert(s) ==
    /\ stage[s] = IF s \in Subs THEN "created" ELSE "none"
    /\ GroupOf[s] \in created
    /\ stage' = [stage EXCEPT ![s] = "inserted"]
    /\ need' = [need EXCEPT ![s] = TRUE]
    /\ UNCHANGED <<fd, event, unread, sends, ownVars, execVars, threadVars, runVars>>

\* Mutant: the executors are not told.
RequestUpdateAll_silent(s) ==
    /\ stage[s] = "inserted"
    /\ stage' = [stage EXCEPT ![s] = "registered"]
    /\ UNCHANGED <<need, fd, event, unread, sends, ownVars, execVars, threadVars, runVars>>

\* ... and then every executor is asked to look at the tables again.
RequestUpdateAll(s) ==
    /\ stage[s] = "inserted"
    /\ stage' = [stage EXCEPT ![s] = "registered"]
    /\ update' = [x \in Execs |-> TRUE]
    /\ UNCHANGED <<need, fd, event, unread, sends, ownVars, epoll, ready, takeable,
                   threadVars, runVars>>

\* No executor has the source queued, in hand or could still pick it up.
Idle(s) ==
    /\ \A x \in Execs : s \notin Queued(x)
    /\ \A t \in Threads : hand[t] # s /\ pc[t] = "out"

\* ~Subscription erases the table's entry; ~TimerBase does that and is done.
Erase(s) ==
    /\ stage[s] = "registered"
    /\ Orderly => Idle(s)
    /\ stage' = [stage EXCEPT ![s] = IF s \in Subs THEN "erased" ELSE "gone"]
    /\ need' = [need EXCEPT ![s] = FALSE]
    /\ IF s \in Timers
       THEN /\ epoll' = [x \in Execs |-> epoll[x] \ {s}]
            /\ unread' = [unread EXCEPT ![s] = 0]
            /\ event' = [event EXCEPT ![s] = FALSE]
       ELSE UNCHANGED <<epoll, unread, event>>
    /\ UNCHANGED <<fd, sends, ownVars, update, ready, takeable, threadVars, runVars>>

\* ~SubscriptionBase removes the kernel's subscriber and closes the eventfd,
\* which leaves every epoll set with it.
CloseSubscription(s) ==
    /\ stage[s] = "erased"
    /\ stage' = [stage EXCEPT ![s] = "gone"]
    /\ fd' = [fd EXCEPT ![s] = 0]
    /\ unread' = [unread EXCEPT ![s] = 0]
    /\ epoll' = [x \in Execs |-> epoll[x] \ {s}]
    /\ UNCHANGED <<need, event, sends, ownVars, update, ready, takeable, threadVars, runVars>>

-----------------------------------------------------------------------------
(* Wakeups: the kernel module's publish, and the timerfd.                  *)

Publish(s) ==
    /\ stage[s] \in {"created", "inserted", "registered", "erased"}
    /\ sends < MaxSends
    /\ unread' = [unread EXCEPT ![s] = @ + 1]
    /\ event' = [event EXCEPT ![fd[s]] = TRUE]
    /\ sends' = sends + 1
    /\ UNCHANGED <<stage, need, fd, ownVars, execVars, threadVars, runVars>>

Expire(s) ==
    /\ Registered(s)
    /\ sends < MaxSends
    /\ unread' = [unread EXCEPT ![s] = 1]
    /\ event' = [event EXCEPT ![s] = TRUE]
    /\ sends' = sends + 1
    /\ UNCHANGED <<stage, need, fd, ownVars, execVars, threadVars, runVars>>

-----------------------------------------------------------------------------
(* Spinning.                                                               *)

Spin(x) ==
    /\ ~spinning[x] /\ \A t \in ThreadsOf(x) : pc[t] = "out"
    /\ ~cancelled[x]
    /\ spinning' = [spinning EXCEPT ![x] = TRUE]
    /\ pc' = [t \in Threads |-> IF ExecOf[t] = x THEN "top" ELSE pc[t]]
    /\ UNCHANGED <<hand, kind, cancelled, fatal, sourceVars, ownVars, execVars>>

\* AgnocastOnlyExecutor remembers the request, rclcpp's executors forget it.
\* agnocast::ok() turning false stops the loops at the same places.
Cancel(x) ==
    /\ spinning' = [spinning EXCEPT ![x] = FALSE]
    /\ cancelled' = IF kind[x] = "only" THEN [cancelled EXCEPT ![x] = TRUE] ELSE cancelled
    /\ UNCHANGED <<kind, fatal, sourceVars, ownVars, execVars, threadVars>>

KeepsSpinning(x) == spinning[x] /\ ~cancelled[x]

\* The loop's condition, and the exchange of the update flag.
Top(t) ==
    /\ pc[t] = "top"
    /\ LET x == ExecOf[t] IN
       IF ~KeepsSpinning(x)
       THEN /\ pc' = [pc EXCEPT ![t] = "out"]
            /\ spinning' = IF \A u \in ThreadsOf(x) \ {t} : pc[u] = "out"
                           THEN [spinning EXCEPT ![x] = FALSE] ELSE spinning
            /\ UNCHANGED update
       ELSE /\ pc' = [pc EXCEPT ![t] = IF update[x] THEN "prepare" ELSE "pick"]
            /\ update' = [update EXCEPT ![x] = FALSE]
            /\ UNCHANGED spinning
    /\ UNCHANGED <<hand, kind, cancelled, fatal, sourceVars, ownVars, epoll, ready, takeable>>

\* add_callback_groups_from_nodes_associated_to_executor: the groups the node
\* has got since it was added.
Adopted(x) == IF x \in node THEN assoc[x] \cup ((created \cap AutoAdd) \ Owned) ELSE assoc[x]

Validates(x, g, own) == kind[x] = "mixed" \/ g \in own

\* The order in which the iteration over an unordered_map meets a set.
Orders(S) ==
    {f \in [1..Cardinality(S) -> S] : \A i, j \in 1..Cardinality(S) : f[i] = f[j] => i = j}

\* prepare_epoll: the sources that still need it enter the epoll set; what a
\* transient local subscription missed is queued at once.
Prepare(t) ==
    LET x == ExecOf[t]
        own == IF kind[x] = "only" THEN Adopted(x) ELSE assoc[x]
        fresh == {s \in Sources : need[s] /\ Validates(x, GroupOf[s], own)}
    IN /\ pc[t] = "prepare"
       /\ assoc' = [assoc EXCEPT ![x] = own]
       /\ epoll' = [epoll EXCEPT ![x] = @ \cup fresh]
       /\ need' = [s \in Sources |-> need[s] /\ s \notin fresh]
       /\ \E order \in Orders(fresh \cap Transient) : ready' = [ready EXCEPT ![x] = @ \o order]
       /\ pc' = [pc EXCEPT ![t] = "pick"]
       /\ UNCHANGED <<hand, stage, fd, event, unread, sends, node, created, update, takeable, runVars>>

\* Mutant: a group that is being run is taken from all the same.
Runnable_shared(s, own) == GroupOf[s] \in own

\* The executor owns the group, and nobody runs it if it is exclusive.
Runnable(s, own) ==
    LET g == GroupOf[s] IN g \in own /\ (g \in Exclusive => takeable[g])

DropAt(q, i) == SubSeq(q, 1, i - 1) \o SubSeq(q, i + 1, Len(q))

\* get_next_ready_agnocast_executable: the first queued executable whose group
\* the executor owns and nobody runs.  The first try is followed by a wait.
Pick(t) ==
    LET x == ExecOf[t]
        own == IF kind[x] = "mixed" /\ ready[x] # <<>> THEN Adopted(x) ELSE assoc[x]
        runnable == {i \in DOMAIN ready[x] : Runnable(ready[x][i], own)}
    IN /\ pc[t] \in {"pick", "retry"}
       /\ assoc' = [assoc EXCEPT ![x] = own]
       /\ IF runnable = {}
          THEN /\ pc' = [pc EXCEPT ![t] = IF pc[t] = "pick" THEN "wait" ELSE "top"]
               /\ UNCHANGED <<hand, ready, takeable>>
          ELSE LET i == CHOOSE i \in runnable : \A j \in runnable : i <= j
                   s == ready[x][i]
               IN /\ pc' = [pc EXCEPT ![t] = "run"]
                  /\ hand' = [hand EXCEPT ![t] = s]
                  /\ ready' = [ready EXCEPT ![x] = DropAt(@, i)]
                  /\ takeable' = IF GroupOf[s] \in Exclusive
                                 THEN [takeable EXCEPT ![GroupOf[s]] = FALSE] ELSE takeable
       /\ UNCHANGED <<sourceVars, node, created, epoll, update, runVars>>

\* epoll_wait, level triggered and one event at a time.
WaitEvent(t, s) ==
    /\ pc[t] = "wait"
    /\ s \in epoll[ExecOf[t]] /\ Readable(s)
    /\ pc' = [pc EXCEPT ![t] = "handle"]
    /\ hand' = [hand EXCEPT ![t] = s]
    /\ UNCHANGED <<sourceVars, ownVars, execVars, runVars>>

\* The timeout, when no event is pending, or the shutdown event, which stays
\* pending for good once an AgnocastOnlyExecutor is told to stop.
WaitTimeout(t) ==
    LET x == ExecOf[t] IN
    /\ pc[t] = "wait"
    /\ \/ \A s \in epoll[x] : ~Readable(s)
       \/ cancelled[x]
    /\ pc' = [pc EXCEPT ![t] = "retry"]
    /\ UNCHANGED <<hand, sourceVars, ownVars, execVars, runVars>>

\* handle() looks the source up.  A subscription that has gone is normal, a
\* timer that has gone is an internal error.
Handle(t) ==
    LET s == hand[t] IN
    /\ pc[t] = "handle"
    /\ fatal' = (fatal \/ (s \in Timers /\ ~Registered(s)))
    /\ IF Registered(s)
       THEN pc' = [pc EXCEPT ![t] = "drain"] /\ UNCHANGED hand
       ELSE pc' = [pc EXCEPT ![t] = "retry"] /\ hand' = [hand EXCEPT ![t] = NoSource]
    /\ UNCHANGED <<kind, spinning, cancelled, sourceVars, ownVars, execVars>>

\* The descriptor copied under the mutex is read without it: it may be closed
\* by now, or be the number of another subscription's eventfd.
Drain(t) ==
    LET s == hand[t]
        x == ExecOf[t]
    IN /\ pc[t] = "drain"
       /\ \E f \in IF Wakeup(s) = 0 THEN {0} \cup {fd[u] : u \in Subs} ELSE {Wakeup(s)} :
             LET woken == f # 0 /\ event[f] IN
             /\ fatal' = (fatal \/ f = 0)
             /\ event' = IF woken THEN [event EXCEPT ![f] = FALSE] ELSE event
             /\ ready' = IF woken THEN [ready EXCEPT ![x] = Append(@, s)] ELSE ready
       /\ pc' = [pc EXCEPT ![t] = "retry"]
       /\ hand' = [hand EXCEPT ![t] = NoSource]
       /\ UNCHANGED <<stage, need, fd, unread, sends, kind, spinning, cancelled, ownVars,
                      epoll, update, takeable>>

\* What the kernel holds back for another receive.
Left(n) == IF n > Batch THEN n - Batch ELSE 0

\* receive_and_execute_message and handle_timer_event: the receive ioctl fails
\* for a subscriber the kernel has removed, a dead timer is skipped.
Run(t) ==
    LET s == hand[t] IN
    /\ pc[t] = "run"
    /\ fatal' = (fatal \/ (s \in Subs /\ stage[s] = "gone"))
    /\ unread' = [unread EXCEPT ![s] = Left(@)]
    /\ ready' = IF unread[s] > Batch THEN [ready EXCEPT ![ExecOf[t]] = Append(@, s)] ELSE ready
    /\ pc' = [pc EXCEPT ![t] = "called"]
    /\ UNCHANGED <<hand, stage, need, fd, event, sends, kind, spinning, cancelled, ownVars,
                   epoll, update, takeable>>

\* The callback has returned: an exclusive group is given back.
Release(t) ==
    LET g == GroupOf[hand[t]] IN
    /\ pc[t] = "called"
    /\ takeable' = IF g \in Exclusive THEN [takeable EXCEPT ![g] = TRUE] ELSE takeable
    /\ pc' = [pc EXCEPT ![t] = "top"]
    /\ hand' = [hand EXCEPT ![t] = NoSource]
    /\ UNCHANGED <<sourceVars, ownVars, epoll, update, ready, runVars>>

ThreadStep(t) ==
    /\ ~fatal
    /\ \/ Top(t) \/ Prepare(t) \/ Pick(t) \/ WaitTimeout(t) \/ Handle(t) \/ Drain(t)
       \/ Run(t) \/ Release(t)
       \/ \E s \in Sources : WaitEvent(t, s)

Application ==
    /\ ~fatal
    /\ \/ \E g \in Groups : CreateGroup(g)
       \/ \E x \in Execs : \/ AddNode(x) \/ RemoveNode(x) \/ Spin(x) \/ Cancel(x)
                           \/ \E g \in Groups : AddCallbackGroup(x, g) \/ RemoveCallbackGroup(x, g)
       \/ \E s \in Subs : CreateSubscription(s) \/ CloseSubscription(s) \/ Publish(s)
       \/ \E s \in Timers : Expire(s)
       \/ \E s \in Sources : Insert(s) \/ RequestUpdateAll(s) \/ Erase(s)

Next == Application \/ \E t \in Threads : ThreadStep(t)

Spec == Init /\ [][Next]_vars
-----------------------------------------------------------------------------
(* Properties.                                                             *)

Runners(g) == {t \in Threads : pc[t] \in {"run", "called"} /\ GroupOf[hand[t]] = g}

\* Two callbacks of a mutually exclusive group never run at once, and the group
\* is closed to others exactly while one of them runs: it is never left closed.
GroupsExclusive ==
    \A g \in Exclusive : IF takeable[g] THEN Runners(g) = {} ELSE Cardinality(Runners(g)) = 1

\* Executor x still has something that will make it run source s.
WillRun(x, s) ==
    \/ s \in Queued(x)
    \/ s \in epoll[x] /\ Readable(s)
    \/ \E t \in ThreadsOf(x) : hand[t] = s /\ pc[t] = "run"
    \/ /\ need[s]
       /\ \/ update[x]
          \/ \E t \in ThreadsOf(x) : pc[t] = "prepare"
          \/ GroupOf[s] \notin Adopted(x)

\* A message or an expiry of a registered source is never stranded: the executor
\* that owns its group has it queued, will be woken for it, or has yet to put the
\* source into its epoll set and has been told to.
NoLostCallback ==
    \A s \in Sources, x \in Execs :
        (~fatal /\ stage[s] = "registered" /\ unread[s] > 0 /\ GroupOf[s] \in Adopted(x))
            => WillRun(x, s)
=============================================================================
