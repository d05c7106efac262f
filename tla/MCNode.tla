------------------------------- MODULE MCNode -------------------------------
(***************************************************************************)
(* What an agnocast::Node is made of besides topics: parameters, timers    *)
(* with their time source, the process context with its signal handler,    *)
(* services and the service bridge, and message filters with two policies. *)
(* The parts share no state, so a step of one cannot disturb a property of *)
(* another: a behaviour exercises one part, the others rest.               *)
(***************************************************************************)
EXTENDS Parameters

CONSTANTS Timers, RosTimers, Periods, LastTime, MaxNext, Executors, Deliveries, MaxInstalls,
    Clients, Servers, Deferred, Depth, MaxRequests, MaxClients,
    N, QueueSize, MaxInterval, AgePenalty, LowerBound, MaxTime, MaxMessages,
    Inputs, TupleLimit, LastStamp,
    LibraryPaths, Provides, kMaxPendingRequests, MaxCalls, MaxR2aCalls

VARIABLES
    part,   \* the part this behaviour exercises
    sys, sim, active, state, canceled, period, next, last, fd, event, fdNew, eventNew,
    timerQueue, running, raced,
    installed, initialized, eventfds, signalfd, openfd, counter, received, stop, thread,
    handler, app, executor, woken, installs,
    nextId, client, up, queue, held, inbox, created, borrowed, lost,
    q, pc, again, topic, heads, moves, arrived, sent,
    tuples, lastSignal, delivered, signalled, dropped,
    present, loaded, factory, ready, deque, group, sending, wire, responses, calls, fate, order,
    callsArrived, forwarded, r2aFate, r2aArrived

timerVars == <<sys, sim, active, state, canceled, period, next, last, fd, event, fdNew,
    eventNew, timerQueue, running, raced>>
signalVars == <<installed, initialized, eventfds, signalfd, openfd, counter, received, stop,
    thread, handler, app, executor, woken, installs>>
callVars == <<nextId, client, up, queue, held, inbox, created, borrowed, lost>>
approximateVars == <<q, pc, again, topic, heads, moves, arrived, sent>>
exactVars == <<tuples, lastSignal, delivered, signalled, dropped>>
forwardVars == <<present, loaded, factory, ready, deque, group, sending, wire, responses, calls,
    fate, order, callsArrived, forwarded, r2aFate, r2aArrived>>
serviceVars == <<callVars, forwardVars>>
filterVars == <<approximateVars, exactVars>>

T == INSTANCE Timers WITH queue <- timerQueue, MaxTime <- LastTime
S == INSTANCE Signals
V == INSTANCE Services
A == INSTANCE ApproximateTime
X == INSTANCE ExactTime
F == INSTANCE ServiceForwarding WITH requests <- deque, arrived <- callsArrived

\* Clocks, periods and depths count from zero, the deque of a service bridge has room for a
\* request, and what is asked of the parameter services are lists of names with values.
ASSUME NodeAssumption ==
    /\ LastTime \in Int /\ Periods \subseteq Nat
    /\ Depth \in Nat /\ kMaxPendingRequests \in Nat \ {0}
    /\ Requests \subseteq Seq(Names \X AllValues)

NodeInit ==
    /\ part \in {"parameters", "timers", "signals", "services", "forwarding", "approximate", "exact"}
    /\ Init /\ T!Init /\ S!Init /\ V!Init /\ A!Init /\ X!Init /\ F!Init
    /\ part # "forwarding" => present = {}
    /\ part # "parameters" => overrides = <<>> /\ ~allowUndeclared

NodeNext ==
    \/ part = "parameters" /\ Next /\ UNCHANGED <<part, timerVars, signalVars, serviceVars, filterVars>>
    \/ part = "timers" /\ T!Next /\ UNCHANGED <<part, vars, signalVars, serviceVars, filterVars>>
    \/ part = "signals" /\ S!Next /\ UNCHANGED <<part, vars, timerVars, serviceVars, filterVars>>
    \/ part = "services" /\ V!Next
         /\ UNCHANGED <<part, vars, timerVars, signalVars, forwardVars, filterVars>>
    \/ part = "forwarding" /\ F!Next
         /\ UNCHANGED <<part, vars, timerVars, signalVars, callVars, filterVars>>
    \/ part = "approximate" /\ A!Next
         /\ UNCHANGED <<part, vars, timerVars, signalVars, serviceVars, exactVars>>
    \/ part = "exact" /\ X!Next
         /\ UNCHANGED <<part, vars, timerVars, signalVars, serviceVars, approximateVars>>

NodeSpec == NodeInit /\ [][NodeNext]_<<part, vars, timerVars, signalVars, serviceVars, filterVars>>

\* Parameters: a stored value fits its descriptor, and no value gets into the store past
\* a callback that rejects it.
ParametersLegal == []DescriptorsHold /\ VetoRespected

\* Timers: a timer whose time has passed on the simulated clock is woken, and none runs
\* on the wall clock and on simulated time at once.
TimersFire == T!NoStrandedTimer /\ T!OneSourceOfTime

\* Signals: no write to an eventfd that has been closed, and every executor is told of
\* a shutdown.
ShutdownDelivered == S!NoStrayWrite /\ S!NoOneLeftSpinning

\* Services: a response reaches the call it answers, and a call that waits has its
\* request or its response on the way, unless a queue or an exit is known to have lost it
\* (Services); a service bridge passes requests on in order, at most once, and accounts
\* for each of them (ServiceForwarding).
CallsAnswered ==
    V!NoCrossTalk /\ V!NoOrphanCall /\ F!ForwardedInOrder /\ F!CallsAccounted

\* Message filters: the approximate policy's own assertions hold, its sets keep the order
\* of each topic and each is the best one with its pivot (ApproximateTime); under the
\* exact policy every message waits, is signalled or reaches the drop callback (ExactTime).
SetsOptimal == A!AssertsHold /\ A!SetsInOrder /\ A!SetsOptimal /\ X!ExactAccounted

-----------------------------------------------------------------------------
MCValues == {<<"int", 1>>, <<"int", 3>>, <<"bool", 1>>}
MCDescriptors ==
    {Dynamic, [dynamic |-> FALSE, readOnly |-> FALSE, range |-> {1, 2}],
     [dynamic |-> TRUE, readOnly |-> TRUE, range |-> {}]}
MCOverrides ==
    LET P(v) == [n \in {"p"} |-> v]
    IN {<<<<>>, <<>>, <<>>>>, <<P(<<"int", 3>>), <<>>, P(<<"bool", 1>>)>>,
        <<P(<<"bool", 1>>), P(<<"int", 3>>), <<>>>>}
MCCallbacks == {{<<"p", <<"int", 1>>>>}}
MCRequests ==
    LET Set(n) == {<<n, v>> : v \in AllValues}
    IN {<<a>> : a \in Set("p") \cup Set("q")}
       \cup {<<a, b>> : a \in Set("p"),
                        b \in {<<"q", <<"int", 1>>>>, <<"p", NotSet>>, <<"p", <<"int", 1>>>>}}

MCLowerBound == <<0, 0, 1>>
MCLibraryPaths == <<"first", "second">>
=============================================================================
