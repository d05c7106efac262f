----------------------------- MODULE NodeProofs -----------------------------
(***************************************************************************)
(* The parts of a node, for every number of timers, executors, signal      *)
(* deliveries, clients, servers, requests and parameters.  Each part has   *)
(* an inductive invariant of its own; no step of one part touches the      *)
(* variables of another.                                                   *)
(***************************************************************************)
EXTENDS MCNode, WellFoundedInduction, TLAPS

-----------------------------------------------------------------------------
\* Signals

\* The types the argument needs.
SignalTypes ==
  /\ installed \in {"NotInstalled", "Installed", "Uninstalling"}
  /\ initialized \in BOOLEAN /\ received \in BOOLEAN /\ stop \in BOOLEAN /\ counter \in BOOLEAN
  /\ app \in {"out", "notify", "uninstall", "joining", "draining"}
  /\ thread \in {"none", "loop", "notify", "stop?", "wait"}
  /\ handler \in [Deliveries ->
       [at : {"idle", "dispatched", "counted", "flagged", "loaded", "written"}, fd : Nat]]
  /\ executor \in [Executors -> {"none", "checking", "waiting", "left"}]
  /\ eventfds \subseteq Executors /\ installs \in Nat /\ openfd \in Nat

\* Where install() and uninstall() are says what there is of thread and eventfd.
InstallStages ==
  /\ app = "out" => installed # "Uninstalling"
  /\ app \in {"notify", "uninstall"} => installed = "Installed"
  /\ app \in {"joining", "draining"} => installed = "Uninstalling"
  /\ app = "draining" => thread = "none" /\ signalfd = S!None
  /\ app # "out" => ~initialized
  /\ installed = "NotInstalled" => thread = "none"
  /\ installed = "Installed" => thread # "none" /\ ~stop /\ signalfd = openfd /\ openfd # S!None
  /\ signalfd \in {S!None, openfd}
  /\ installed = "NotInstalled" => openfd = S!None

\* A signal that was received is on its way to the thread: the handler has yet to
\* write, has written, or the thread is about to look.
SignalOnItsWay ==
  installed = "Installed" /\ received =>
    \/ thread = "loop" \/ counter
    \/ \E d \in Deliveries :
         handler[d].at = "flagged" \/ (handler[d].at = "loaded" /\ handler[d].fd = openfd)

\* Whoever waits for a context that is down has been woken, or will be by the thread
\* that took it down.
WakeupOnItsWay ==
  \A e \in eventfds :
    executor[e] = "waiting" /\ ~initialized =>
      e \in woken \/ app = "notify" \/ (thread = "notify" /\ app = "out")

\* The inductive invariant of the signal handler.
SignalInv ==
  SignalTypes /\ InstallStages /\ S!NoStrayWrite /\ SignalOnItsWay /\ WakeupOnItsWay

\* Nothing is registered and no handler runs at first.
LEMMA SignalsInit ==
  ASSUME S!Init
  PROVE  SignalInv
BY DEF S!Init, SignalInv, SignalTypes, InstallStages, SignalOnItsWay, WakeupOnItsWay,
       S!NoStrayWrite, S!Idle, S!None

\* init() and shutdown() keep the invariant (agnocast_signal_handler.cpp: install, uninstall).
LEMMA ContextKeeps ==
  ASSUME SignalInv,
         S!Start \/ S!Shutdown \/ S!NotifyFromShutdown \/ S!Uninstall \/ S!Invalidate
           \/ S!CloseEventfd
  PROVE  SignalInv'
<1> USE DEF SignalInv, S!None
<1>1. CASE S!Start
  <2> USE <1>1 DEF S!Start, S!executors, S!context, S!channel
  <2>1. SignalTypes'
    <3>1. CASE installed # "NotInstalled"
      BY <3>1 DEF SignalTypes
    <3>2. CASE installed = "NotInstalled"
      <4>1. installs' \in Nat /\ eventfds' \subseteq Executors
        BY <3>2 DEF SignalTypes
      <4>2. /\ installed' = "Installed" /\ thread' = "loop" /\ app' = app /\ handler' = handler
            /\ executor' = executor
        BY <3>2
      <4>3. initialized' \in BOOLEAN /\ received' \in BOOLEAN /\ stop' \in BOOLEAN
              /\ counter' \in BOOLEAN
        BY <3>2
      <4> QED BY <4>1, <4>2, <4>3 DEF SignalTypes
    <3> QED BY <3>1, <3>2
  <2>2. InstallStages'
    BY DEF InstallStages, SignalTypes
  <2>3. S!NoStrayWrite'
    BY DEF S!NoStrayWrite, InstallStages, SignalTypes
  <2>4. SignalOnItsWay'
    BY DEF SignalOnItsWay, SignalTypes
  <2>5. WakeupOnItsWay'
    BY DEF WakeupOnItsWay
  <2> QED BY <2>1, <2>2, <2>3, <2>4, <2>5
<1>2. CASE S!Shutdown
  <2> USE <1>2 DEF S!Shutdown, S!executors, S!context, S!channel
  <2>1. SignalTypes'
    BY DEF SignalTypes
  <2>2. InstallStages'
    BY DEF InstallStages, SignalTypes
  <2>3. S!NoStrayWrite'
    BY DEF S!NoStrayWrite
  <2>4. SignalOnItsWay' /\ WakeupOnItsWay'
    BY DEF SignalOnItsWay, WakeupOnItsWay
  <2> QED BY <2>1, <2>2, <2>3, <2>4
<1>3. CASE S!NotifyFromShutdown
  <2> USE <1>3 DEF S!NotifyFromShutdown, S!context, S!channel, S!Notified
  <2>1. SignalTypes' /\ InstallStages'
    BY DEF SignalTypes, InstallStages
  <2>2. S!NoStrayWrite' /\ SignalOnItsWay'
    BY DEF S!NoStrayWrite, SignalOnItsWay
  <2>3. WakeupOnItsWay'
    BY DEF WakeupOnItsWay, InstallStages
  <2> QED BY <2>1, <2>2, <2>3
<1>4. CASE S!Uninstall
  <2> USE <1>4 DEF S!Uninstall, S!executors
  <2>1. SignalTypes' /\ InstallStages'
    BY DEF SignalTypes, InstallStages
  <2>2. S!NoStrayWrite' /\ SignalOnItsWay'
    BY DEF S!NoStrayWrite, SignalOnItsWay
  <2>3. WakeupOnItsWay'
    BY DEF WakeupOnItsWay
  <2> QED BY <2>1, <2>2, <2>3
<1>5. CASE S!Invalidate
  <2> USE <1>5 DEF S!Invalidate, S!context, S!executors
  <2>1. SignalTypes' /\ InstallStages'
    BY DEF SignalTypes, InstallStages
  <2>2. S!NoStrayWrite' /\ SignalOnItsWay' /\ WakeupOnItsWay'
    BY DEF S!NoStrayWrite, SignalOnItsWay, WakeupOnItsWay, InstallStages
  <2> QED BY <2>1, <2>2
<1>6. CASE S!CloseEventfd
  <2> USE <1>6 DEF S!CloseEventfd, S!executors
  <2>1. SignalTypes' /\ InstallStages'
    BY DEF SignalTypes, InstallStages
  <2>2. S!NoStrayWrite'
    BY DEF S!NoStrayWrite, S!Inflight
  <2>3. SignalOnItsWay' /\ WakeupOnItsWay'
    BY DEF SignalOnItsWay, WakeupOnItsWay
  <2> QED BY <2>1, <2>2, <2>3
<1> QED BY <1>1, <1>2, <1>3, <1>4, <1>5, <1>6

\* A handler may take any step at any time: the descriptor it has loaded is none or the
\* one that is open, since uninstall() hides it and waits before closing it.
LEMMA HandlerKeeps ==
  ASSUME SignalInv, NEW d \in Deliveries, S!Handler(d)
  PROVE  SignalInv'
<1> USE DEF SignalInv, S!None, S!Idle
<1>1. PICK from, h :
        /\ handler[d].at = from /\ handler' = [handler EXCEPT ![d] = h]
        /\ \/ from = "idle" /\ h = [at |-> "dispatched", fd |-> 0]
           \/ from = "dispatched" /\ h = [at |-> "counted", fd |-> 0]
           \/ from = "counted" /\ h = [at |-> "flagged", fd |-> 0] /\ received'
           \/ from = "flagged" /\ h = [at |-> "loaded", fd |-> signalfd]
           \/ from = "loaded" /\ h = [at |-> "written", fd |-> 0]
                /\ counter' = (counter \/ (handler[d].fd # 0 /\ handler[d].fd = openfd))
           \/ from = "written" /\ h = [at |-> "idle", fd |-> 0]
        /\ from # "counted" => received' = received
        /\ from # "loaded" => counter' = counter
        /\ received' \in BOOLEAN
        /\ UNCHANGED <<installed, initialized, eventfds, signalfd, openfd, stop, thread, app,
                       executor, woken, installs>>
  <2>1. CASE S!Deliver(d)
    BY <2>1 DEF S!Deliver, S!At, S!executors, S!context, S!channel, SignalTypes
  <2>2. CASE S!Count(d)
    BY <2>2 DEF S!Count, S!At, S!executors, S!context, S!channel, SignalTypes
  <2>3. CASE S!Flag(d)
    BY <2>3 DEF S!Flag, S!At, S!executors, S!context, S!channel, SignalTypes
  <2>4. CASE S!LoadEventfd(d)
    BY <2>4 DEF S!LoadEventfd, S!At, S!executors, S!context, S!channel, SignalTypes
  <2>5. CASE S!WriteEventfd(d)
    BY <2>5 DEF S!WriteEventfd, S!At, S!executors, S!context, SignalTypes
  <2>6. CASE S!Return(d)
    BY <2>6 DEF S!Return, S!At, S!executors, S!context, S!channel, SignalTypes
  <2> QED BY <2>1, <2>2, <2>3, <2>4, <2>5, <2>6 DEF S!Handler
<1>2. SignalTypes'
  <2>1. signalfd \in Nat
    BY DEF InstallStages, SignalTypes
  <2>2. counter' \in BOOLEAN
    BY <1>1 DEF SignalTypes
  <2>3. h \in [at : {"idle", "dispatched", "counted", "flagged", "loaded", "written"}, fd : Nat]
    BY <1>1, <2>1
  <2>4. handler' \in [Deliveries ->
          [at : {"idle", "dispatched", "counted", "flagged", "loaded", "written"}, fd : Nat]]
    BY <1>1, <2>3 DEF SignalTypes
  <2> QED BY <1>1, <2>2, <2>4 DEF SignalTypes
<1>3. InstallStages'
  BY <1>1 DEF InstallStages
<1>4. \A x \in Deliveries : handler'[x] = IF x = d THEN h ELSE handler[x]
  BY <1>1 DEF SignalTypes
<1>5. S!NoStrayWrite'
  BY <1>1, <1>4 DEF S!NoStrayWrite, InstallStages
<1>6. SignalOnItsWay'
  <2>1. SUFFICES ASSUME installed = "Installed", received'
                 PROVE  \/ thread = "loop" \/ counter'
                        \/ \E x \in Deliveries :
                             \/ handler'[x].at = "flagged"
                             \/ handler'[x].at = "loaded" /\ handler'[x].fd = openfd
    BY <1>1 DEF SignalOnItsWay
  <2>2. CASE handler[d].at = "counted"
    BY <1>1, <1>4, <2>2
  <2>3. CASE handler[d].at = "flagged"
    BY <1>1, <1>4, <2>1, <2>3 DEF InstallStages
  <2>4. CASE handler[d].at = "loaded"
    <3>1. received /\ openfd # 0
      BY <1>1, <2>1, <2>4 DEF InstallStages
    <3>2. CASE handler[d].fd = openfd
      BY <1>1, <2>4, <3>1, <3>2
    <3>3. CASE handler[d].fd # openfd
      <4>1. thread = "loop" \/ counter \/ \E x \in Deliveries : x # d /\
              (handler[x].at = "flagged" \/ (handler[x].at = "loaded" /\ handler[x].fd = openfd))
        BY <2>1, <2>4, <3>1, <3>3 DEF SignalOnItsWay
      <4> QED BY <1>1, <1>4, <2>4, <4>1
    <3> QED BY <3>2, <3>3
  <2>5. CASE handler[d].at \notin {"counted", "flagged", "loaded"}
    <3>1. received /\ counter' = counter
      BY <1>1, <2>1, <2>5
    <3>2. thread = "loop" \/ counter \/ \E x \in Deliveries : x # d /\
            (handler[x].at = "flagged" \/ (handler[x].at = "loaded" /\ handler[x].fd = openfd))
      BY <2>1, <2>5, <3>1 DEF SignalOnItsWay
    <3> QED BY <1>4, <3>1, <3>2
  <2> QED BY <2>2, <2>3, <2>4, <2>5
<1>7. WakeupOnItsWay'
  BY <1>1 DEF WakeupOnItsWay
<1> QED BY <1>2, <1>3, <1>5, <1>6, <1>7

\* The signal thread takes the flag before it waits, and wakes the executors of a context
\* it took down itself; shutdown() has woken them before it hides what is installed.
LEMMA SignalThreadKeeps ==
  ASSUME SignalInv,
         S!TakeSignal \/ S!NotifyFromThread \/ S!CheckStop \/ S!WaitForEventfd
  PROVE  SignalInv'
<1> USE DEF SignalInv, S!None
<1>1. CASE S!TakeSignal
  <2> USE <1>1 DEF S!TakeSignal, S!executors, S!channel
  <2>1. SignalTypes'
    <3>1. CASE received
      BY <3>1 DEF SignalTypes
    <3>2. CASE ~received
      BY <3>2 DEF SignalTypes
    <3> QED BY <3>1, <3>2
  <2>2. InstallStages'
    BY DEF InstallStages
  <2>3. S!NoStrayWrite' /\ SignalOnItsWay'
    BY DEF S!NoStrayWrite, SignalOnItsWay
  <2>4. WakeupOnItsWay'
    BY DEF WakeupOnItsWay, InstallStages
  <2> QED BY <2>1, <2>2, <2>3, <2>4
<1>2. CASE S!NotifyFromThread
  <2> USE <1>2 DEF S!NotifyFromThread, S!context, S!channel, S!Notified
  <2>1. SignalTypes' /\ InstallStages'
    BY DEF SignalTypes, InstallStages
  <2>2. S!NoStrayWrite' /\ SignalOnItsWay'
    BY DEF S!NoStrayWrite, SignalOnItsWay
  <2>3. WakeupOnItsWay'
    BY DEF WakeupOnItsWay, InstallStages, SignalTypes
  <2> QED BY <2>1, <2>2, <2>3
<1>3. CASE S!CheckStop
  <2> USE <1>3 DEF S!CheckStop, S!context, S!channel, S!executors
  <2>1. SignalTypes' /\ InstallStages'
    BY DEF SignalTypes, InstallStages
  <2>2. S!NoStrayWrite' /\ SignalOnItsWay' /\ WakeupOnItsWay'
    BY DEF S!NoStrayWrite, SignalOnItsWay, WakeupOnItsWay
  <2> QED BY <2>1, <2>2
<1>4. CASE S!WaitForEventfd
  <2> USE <1>4 DEF S!WaitForEventfd, S!context, S!executors
  <2>1. SignalTypes' /\ InstallStages'
    BY DEF SignalTypes, InstallStages
  <2>2. S!NoStrayWrite' /\ SignalOnItsWay' /\ WakeupOnItsWay'
    BY DEF S!NoStrayWrite, SignalOnItsWay, WakeupOnItsWay
  <2> QED BY <2>1, <2>2
<1> QED BY <1>1, <1>2, <1>3, <1>4

\* An executor starts to wait only on a context that is up.
LEMMA ExecutorsKeep ==
  ASSUME SignalInv, NEW e \in Executors, S!Executor(e)
  PROVE  SignalInv'
<1> USE DEF SignalInv
<1>1. CASE S!Construct(e)
  <2> USE <1>1 DEF S!Construct, S!channel
  <2>1. SignalTypes' /\ InstallStages'
    BY DEF SignalTypes, InstallStages
  <2>2. S!NoStrayWrite' /\ SignalOnItsWay' /\ WakeupOnItsWay'
    BY DEF S!NoStrayWrite, SignalOnItsWay, WakeupOnItsWay, SignalTypes
  <2> QED BY <2>1, <2>2
<1>2. CASE S!CheckOk(e)
  <2> USE <1>2 DEF S!CheckOk, S!channel, S!context
  <2>1. SignalTypes' /\ InstallStages'
    BY DEF SignalTypes, InstallStages
  <2>2. S!NoStrayWrite' /\ SignalOnItsWay' /\ WakeupOnItsWay'
    BY DEF S!NoStrayWrite, SignalOnItsWay, WakeupOnItsWay, SignalTypes
  <2> QED BY <2>1, <2>2
<1>3. CASE S!Wake(e)
  <2> USE <1>3 DEF S!Wake, S!channel, S!context
  <2>1. SignalTypes' /\ InstallStages'
    BY DEF SignalTypes, InstallStages
  <2>2. S!NoStrayWrite' /\ SignalOnItsWay' /\ WakeupOnItsWay'
    BY DEF S!NoStrayWrite, SignalOnItsWay, WakeupOnItsWay, SignalTypes
  <2> QED BY <2>1, <2>2
<1>4. CASE S!Destruct(e)
  <2> USE <1>4 DEF S!Destruct, S!channel
  <2>1. SignalTypes' /\ InstallStages'
    BY DEF SignalTypes, InstallStages
  <2>2. S!NoStrayWrite' /\ SignalOnItsWay' /\ WakeupOnItsWay'
    BY DEF S!NoStrayWrite, SignalOnItsWay, WakeupOnItsWay, SignalTypes
  <2> QED BY <2>1, <2>2
<1> QED BY <1>1, <1>2, <1>3, <1>4 DEF S!Executor

\* Every step of the part keeps the invariant, and so do the steps of other parts.
LEMMA SignalsNext ==
  ASSUME SignalInv, S!Next \/ UNCHANGED signalVars
  PROVE  SignalInv'
<1>1. CASE UNCHANGED signalVars
  BY <1>1 DEF signalVars, SignalInv, SignalTypes, InstallStages, S!NoStrayWrite, SignalOnItsWay,
              WakeupOnItsWay
<1>2. CASE S!Next
  BY <1>2, ContextKeeps, HandlerKeeps, SignalThreadKeeps, ExecutorsKeep DEF S!Next
<1> QED BY <1>1, <1>2

\* The invariant implies what the run checks.
LEMMA SignalsImply ==
  ASSUME SignalInv
  PROVE  ShutdownDelivered
<1>1. ASSUME ~S!Underway
      PROVE  /\ installed = "Installed" => ~received
             /\ \A e \in eventfds : executor[e] = "waiting" /\ ~initialized => e \in woken
  <2>1. /\ app = "out" /\ thread \in {"none", "wait"} /\ ~(thread = "wait" /\ counter)
        /\ \A d \in Deliveries : handler[d].at = "idle"
    BY <1>1 DEF S!Underway, S!Idle
  <2>2. installed = "Installed" => thread = "wait" /\ ~counter
    BY <2>1 DEF SignalInv, InstallStages
  <2>3. installed = "Installed" => ~received
    BY <2>1, <2>2 DEF SignalInv, SignalOnItsWay
  <2> QED BY <2>1, <2>3 DEF SignalInv, WakeupOnItsWay
<1> QED BY <1>1 DEF SignalInv, ShutdownDelivered, S!NoOneLeftSpinning

-----------------------------------------------------------------------------
\* Timers

\* The types the argument needs; the executor's thread looks at descriptors only when its
\* queue is empty, so it holds one entry at most.
TimerTypes ==
  /\ sys \in Nat /\ sim \in Nat /\ active \in BOOLEAN
  /\ state \in [Timers -> {"none", "born", "live", "gone"}]
  /\ period \in [Timers -> Nat] /\ next \in [Timers -> Nat]
  /\ fd = [t \in Timers |-> fd[t]]
  /\ timerQueue = <<>> \/ \E t \in Timers : timerQueue = <<t>>
  /\ running = <<>> \/ \E t \in Timers, n \in Nat : running = <<t, n>>

\* A registration that no clock change fell into is as good as one on the clock of now.
BornInTime ==
  active => \A t \in (Timers \cap RosTimers) \ raced :
              state[t] = "born" => next[t] >= sim /\ fd[t] = T!Closed

\* So is the call that a callback under way has computed.
CallAhead ==
  active /\ running # <<>> /\ running[1] \in RosTimers \ raced => running[2] >= sim

\* The inductive invariant of the timers.
TimerInv ==
  TimerTypes /\ BornInTime /\ CallAhead /\ T!NoStrandedTimer /\ T!OneSourceOfTime

\* The next call is never in the past (agnocast_timer_info.cpp: handle_timer_event).
LEMMA NextCallAhead ==
  ASSUME NEW t, next[t] \in Nat, period[t] \in Nat, NEW now \in Nat
  PROVE  T!NextCall(t, now) \in Nat /\ T!NextCall(t, now) >= now
<1> DEFINE n == next[t] + period[t]
<1>1. n \in Nat
  OBVIOUS
<1>2. CASE n >= now
  BY <1>1, <1>2 DEF T!NextCall
<1>3. CASE ~(n >= now) /\ period[t] = 0
  BY <1>1, <1>3 DEF T!NextCall
<1>4. CASE ~(n >= now) /\ period[t] # 0
  <2> DEFINE d == (now - n - 1) \div period[t]
             c == period[t] * (1 + d)
  <2>1. now - n - 1 \in Nat /\ period[t] \in Nat \ {0}
    BY <1>1, <1>4
  <2>2. d \in Nat /\ c >= now - n /\ c \in Nat
    <3>1. \A a \in Nat, p \in Nat \ {0} :
            /\ a \div p \in Nat
            /\ p * (a \div p) =< a /\ a < p * (a \div p) + p
            /\ p * (1 + (a \div p)) = p * (a \div p) + p
            /\ p * (a \div p) \in Nat
      OBVIOUS
    <3>2. d \in Nat /\ c > now - n - 1 /\ c \in Nat
      BY <2>1, <3>1
    <3> QED BY <2>1, <3>2, <1>1
  <2>3. T!NextCall(t, now) = n + c
    BY <1>4 DEF T!NextCall
  <2> HIDE DEF n, c, d
  <2> QED BY <1>1, <2>2, <2>3
<1> QED BY <1>2, <1>3, <1>4

\* No timer, and ROS time is not active, at first.
LEMMA TimersInit ==
  ASSUME T!Init
  PROVE  TimerInv
BY DEF T!Init, TimerInv, TimerTypes, BornInTime, CallAhead, T!NoStrandedTimer,
       T!OneSourceOfTime, T!Idle, T!Closed

\* The life of a timer.
LEMMA TimerLifeKeeps ==
  ASSUME NodeAssumption, TimerInv, NEW t \in Timers, T!Application(t)
  PROVE  TimerInv'
<1> USE DEF TimerInv, T!clockVars, T!timeVars, T!fdVars, T!execVars
<1>1. ASSUME NEW p \in Periods, T!Register(t, p)
      PROVE  TimerInv'
  <2> USE <1>1 DEF T!Register
  <2>1. TimerTypes'
    <3>1. T!Now(t) \in Nat /\ p \in Nat
      BY DEF NodeAssumption, TimerTypes, T!Now
    <3>2. state' \in [Timers -> {"none", "born", "live", "gone"}]
      BY DEF TimerTypes
    <3>3. period' \in [Timers -> Nat] /\ next' \in [Timers -> Nat]
      BY <3>1 DEF TimerTypes
    <3>4. fd' = [u \in Timers |-> fd'[u]]
      BY DEF TimerTypes
    <3>5. UNCHANGED <<sys, sim, active, timerQueue, running>>
      OBVIOUS
    <3> HIDE <1>1 DEF T!Register
    <3> QED BY <3>2, <3>3, <3>4, <3>5 DEF TimerTypes
  <2>2. active /\ t \in RosTimers => T!Now(t) = sim /\ fd'[t] = T!Closed /\ next'[t] >= sim
    <3>1. p \in Nat
      BY DEF NodeAssumption
    <3> QED BY <3>1 DEF TimerTypes, T!Now
  <2>3. \A u \in Timers \ {t} : state'[u] = state[u] /\ next'[u] = next[u] /\ fd'[u] = fd[u]
    BY DEF TimerTypes
  <2>4. BornInTime' /\ CallAhead'
    BY <2>2, <2>3 DEF BornInTime, CallAhead
  <2>5. T!NoStrandedTimer' /\ T!OneSourceOfTime'
    BY <2>3 DEF T!NoStrandedTimer, T!OneSourceOfTime, T!Listening, T!Live, T!InHandler, T!Idle,
       TimerTypes
  <2> QED BY <2>1, <2>4, <2>5
<1>2. CASE T!Enlist(t)
  <2> USE <1>2 DEF T!Enlist
  <2>1. TimerTypes'
    BY DEF TimerTypes
  <2>2. BornInTime' /\ CallAhead'
    BY DEF BornInTime, CallAhead, TimerTypes
  <2>3. active /\ t \in RosTimers \ raced => ~(sim > next[t]) /\ fd[t] = T!Closed
    BY DEF BornInTime, TimerTypes
  <2>4. \A u \in Timers \ {t} : state'[u] = state[u]
    BY DEF TimerTypes
  <2>5. T!NoStrandedTimer' /\ T!OneSourceOfTime'
    BY <2>3, <2>4 DEF T!NoStrandedTimer, T!OneSourceOfTime, T!Listening, T!Live, T!InHandler, T!Idle
  <2> QED BY <2>1, <2>2, <2>5
<1>3. CASE T!Destroy(t)
  <2> USE <1>3 DEF T!Destroy
  <2>1. TimerTypes'
    BY DEF TimerTypes
  <2>2. \A u \in Timers \ {t} : state'[u] = state[u] /\ fd'[u] = fd[u]
    BY DEF TimerTypes
  <2>3. state'[t] = "gone"
    BY DEF TimerTypes
  <2>4. BornInTime' /\ CallAhead'
    BY <2>2, <2>3 DEF BornInTime, CallAhead
  <2>5. T!NoStrandedTimer' /\ T!OneSourceOfTime'
    BY <2>2, <2>3 DEF T!NoStrandedTimer, T!OneSourceOfTime, T!Listening, T!Live, T!InHandler, T!Idle
  <2> QED BY <2>1, <2>4, <2>5
<1>4. CASE T!Cancel(t)
  <2> USE <1>4 DEF T!Cancel
  <2>1. TimerTypes' /\ BornInTime' /\ CallAhead'
    BY DEF TimerTypes, BornInTime, CallAhead
  <2>2. T!NoStrandedTimer' /\ T!OneSourceOfTime'
    BY DEF T!NoStrandedTimer, T!OneSourceOfTime, T!Listening, T!Live, T!InHandler, T!Idle
  <2> QED BY <2>1, <2>2
<1>5. CASE T!Reset(t)
  <2> USE <1>5 DEF T!Reset
  <2>1. T!Now(t) \in Nat /\ period[t] \in Nat
    BY DEF TimerTypes, T!Now
  <2>2. TimerTypes'
    <3>1. next' \in [Timers -> Nat]
      BY <2>1 DEF TimerTypes
    <3>2. fd' = [u \in Timers |-> fd'[u]]
      BY DEF TimerTypes
    <3>3. UNCHANGED <<sys, sim, active, state, period, timerQueue, running>>
      OBVIOUS
    <3> HIDE <1>5 DEF T!Reset
    <3> QED BY <3>1, <3>2, <3>3 DEF TimerTypes
  <2>3. /\ \A u \in Timers \ {t} : next'[u] = next[u] /\ fd'[u] = fd[u]
        /\ active /\ t \in RosTimers => ~(sim > next'[t])
        /\ fd[t] = T!Closed => fd'[t] = T!Closed
        /\ state[t] = "live"
    BY <2>1 DEF TimerTypes, T!Now, T!Live
  <2>4. BornInTime' /\ CallAhead'
    BY <2>3 DEF BornInTime, CallAhead
  <2>5. T!NoStrandedTimer' /\ T!OneSourceOfTime'
    BY <2>3 DEF T!NoStrandedTimer, T!OneSourceOfTime, T!Listening, T!Live, T!InHandler, T!Idle
  <2> QED BY <2>2, <2>4, <2>5
<1>6. ASSUME NEW p \in Periods, T!SetPeriod(t, p)
      PROVE  TimerInv'
  <2> USE <1>6 DEF T!SetPeriod
  <2>1. TimerTypes'
    BY DEF TimerTypes, NodeAssumption
  <2>2. /\ \A u \in Timers \ {t} : fd'[u] = fd[u]
        /\ fd[t] = T!Closed => fd'[t] = T!Closed
    BY DEF TimerTypes
  <2>3. BornInTime' /\ CallAhead'
    BY <2>2 DEF BornInTime, CallAhead
  <2>4. T!NoStrandedTimer' /\ T!OneSourceOfTime'
    BY <2>2 DEF T!NoStrandedTimer, T!OneSourceOfTime, T!Listening, T!Live, T!InHandler, T!Idle
  <2> QED BY <2>1, <2>3, <2>4
<1> QED BY <1>1, <1>2, <1>3, <1>4, <1>5, <1>6 DEF T!Application

\* A change of the clock wakes what it makes due, and is noted for what it overlaps.
LEMMA ClocksKeep ==
  ASSUME NodeAssumption, TimerInv, T!Clock \/ T!EnableRosTime
  PROVE  TimerInv'
<1> USE DEF TimerInv, T!timeVars, T!fdVars, T!execVars
<1>1. CASE T!Tick
  BY <1>1 DEF T!Tick, TimerTypes, BornInTime, CallAhead, T!NoStrandedTimer, T!OneSourceOfTime,
     T!Listening, T!Live, T!InHandler, T!Idle
<1>2. CASE T!DisableRosTime
  BY <1>2 DEF T!DisableRosTime, TimerTypes, BornInTime, CallAhead, T!NoStrandedTimer,
     T!OneSourceOfTime
<1>3. CASE T!EnableRosTime
  <2> USE <1>3 DEF T!EnableRosTime
  <2>1. TimerTypes'
    BY DEF TimerTypes
  <2>2. sim = 0 /\ \A t \in Timers : ~(sim > next[t])
    BY DEF T!OneSourceOfTime, TimerTypes
  <2>3. BornInTime' /\ CallAhead'
    BY DEF BornInTime, CallAhead, T!Overlapped, T!InHandler, T!Idle, TimerTypes
  <2>4. T!NoStrandedTimer'
    BY <2>2 DEF T!NoStrandedTimer, T!Listening, T!Live
  <2>5. T!OneSourceOfTime'
    BY DEF T!OneSourceOfTime, T!Listening, T!Live
  <2> QED BY <2>1, <2>3, <2>4, <2>5
<1>4. ASSUME NEW now \in 0..LastTime, T!ClockMessage(now)
      PROVE  TimerInv'
  <2> USE <1>4 DEF T!ClockMessage
  <2>1. now \in Nat
    BY DEF NodeAssumption
  <2>2. CASE now = sim
    BY <2>2 DEF TimerTypes, BornInTime, CallAhead, T!NoStrandedTimer, T!OneSourceOfTime,
       T!Listening, T!Live, T!InHandler, T!Idle
  <2>3. CASE now # sim
    <3> DEFINE back == {t \in T!Listening : ~T!Overdue(t, now) /\ now < last[t]}
    <3>1. /\ event' = event \cup {t \in T!Listening \ canceled : T!Overdue(t, now)}
          /\ next' = [t \in Timers |-> IF t \in back THEN now + period[t] ELSE next[t]]
          /\ raced' = raced \cup T!Overlapped
      BY <2>3 DEF T!Jumped
    <3> HIDE DEF back
    <3>2. TimerTypes'
      BY <2>1, <3>1 DEF TimerTypes
    <3>3. BornInTime' /\ CallAhead'
      BY <3>1 DEF BornInTime, CallAhead, T!Overlapped, T!InHandler, T!Idle, TimerTypes
    <3>4. \A t \in T!Listening \ canceled : now > next'[t] => t \in event'
      <4>1. SUFFICES ASSUME NEW t \in T!Listening \ canceled, now > next'[t]
                     PROVE  T!Overdue(t, now)
        BY <3>1
      <4>2. t \in Timers /\ next[t] \in Nat /\ period[t] \in Nat
        BY DEF TimerTypes, T!Listening, T!Live
      <4> QED BY <2>1, <3>1, <4>1, <4>2 DEF T!Overdue
    <3>5. T!NoStrandedTimer'
      BY <3>1, <3>4 DEF T!NoStrandedTimer, T!Listening, T!Live, T!InHandler
    <3>6. T!OneSourceOfTime'
      BY <3>1 DEF T!OneSourceOfTime, T!Listening, T!Live
    <3> QED BY <3>2, <3>3, <3>5, <3>6
  <2> QED BY <2>2, <2>3
<1> QED BY <1>1, <1>2, <1>3, <1>4 DEF T!Clock

\* The thread of the executor hands a timer from its eventfd to the queue, to the callback
\* and back to the clock.
LEMMA TimerExecutorKeeps ==
  ASSUME NodeAssumption, TimerInv, T!Executor
  PROVE  TimerInv'
<1> USE DEF TimerInv, T!clockVars, T!timeVars, T!execVars
<1>1. CASE T!PrepareEpoll
  BY <1>1 DEF T!PrepareEpoll, TimerTypes, BornInTime, CallAhead, T!NoStrandedTimer,
     T!OneSourceOfTime, T!Listening, T!Live, T!InHandler, T!Idle
<1>2. ASSUME NEW t \in Timers, T!HandleTimer(t)
      PROVE  TimerInv'
  <2> USE <1>2 DEF T!HandleTimer, T!Ready, T!Idle
  <2>1. timerQueue' = <<t>>
    OBVIOUS
  <2>2. TimerTypes'
    BY <2>1 DEF TimerTypes
  <2>3. \A u \in Timers \ {t} : fd'[u] = fd[u]
    BY DEF TimerTypes
  <2>4. active => t \notin RosTimers \ raced
    BY DEF T!OneSourceOfTime, T!Listening
  <2>5. BornInTime' /\ CallAhead'
    BY <2>3, <2>4 DEF BornInTime, CallAhead
  <2>6. T!NoStrandedTimer' /\ T!OneSourceOfTime'
    BY <2>1, <2>3, <2>4 DEF T!NoStrandedTimer, T!OneSourceOfTime, T!Listening, T!Live, T!InHandler
  <2> QED BY <2>2, <2>5, <2>6
<1>3. ASSUME NEW t \in Timers, T!HandleClock(t)
      PROVE  TimerInv'
  <2> USE <1>3 DEF T!HandleClock, T!Ready, T!Idle
  <2>1. /\ timerQueue' = IF T!Now(t) < next[t] THEN <<>> ELSE <<t>>
        /\ timerQueue = <<>>
    OBVIOUS
  <2>2. TimerTypes' /\ BornInTime' /\ CallAhead'
    BY <2>1 DEF TimerTypes, BornInTime, CallAhead
  <2>3. active /\ t \in RosTimers /\ sim > next[t] => timerQueue' = <<t>>
    BY <2>1 DEF T!Now, TimerTypes
  <2>4. T!NoStrandedTimer'
    BY <2>1, <2>3 DEF T!NoStrandedTimer, T!Listening, T!Live, T!InHandler
  <2>5. T!OneSourceOfTime'
    BY DEF T!OneSourceOfTime, T!Listening, T!Live
  <2> QED BY <2>2, <2>4, <2>5
<1>4. CASE T!RunCallback
  <2> USE <1>4 DEF T!RunCallback, T!Idle
  <2>1. PICK t \in Timers : timerQueue = <<t>>
    BY DEF TimerTypes
  <2>2. timerQueue' = <<>> /\ Head(timerQueue) = t
    BY <2>1
  <2>3. CASE t \in T!Live \ canceled
    <3>1. running' = <<t, T!NextCall(t, T!Now(t))>> /\ running = <<>>
      BY <2>2, <2>3
    <3>2. T!Now(t) \in Nat /\ next[t] \in Nat /\ period[t] \in Nat
      BY DEF TimerTypes, T!Now
    <3>3. T!NextCall(t, T!Now(t)) \in Nat /\ T!NextCall(t, T!Now(t)) >= T!Now(t)
      BY <3>2, NextCallAhead
    <3>4. TimerTypes'
      BY <2>2, <3>1, <3>3 DEF TimerTypes, T!fdVars
    <3>5. BornInTime' /\ CallAhead'
      BY <3>1, <3>3 DEF BornInTime, CallAhead, T!Now, T!fdVars
    <3>6. T!NoStrandedTimer' /\ T!OneSourceOfTime'
      BY <2>1, <2>2, <3>1
         DEF T!NoStrandedTimer, T!OneSourceOfTime, T!Listening, T!Live, T!InHandler, T!fdVars
    <3> QED BY <3>4, <3>5, <3>6
  <2>4. CASE t \notin T!Live \ canceled
    <3>1. UNCHANGED running
      BY <2>2, <2>4
    <3>2. TimerTypes' /\ BornInTime' /\ CallAhead'
      BY <2>2, <3>1 DEF TimerTypes, BornInTime, CallAhead, T!fdVars
    <3>3. T!NoStrandedTimer' /\ T!OneSourceOfTime'
      BY <2>1, <2>2, <2>4, <3>1
         DEF T!NoStrandedTimer, T!OneSourceOfTime, T!Listening, T!Live, T!InHandler, T!fdVars
    <3> QED BY <3>2, <3>3
  <2> QED BY <2>3, <2>4
<1>5. CASE T!StoreNextCall
  <2> USE <1>5 DEF T!StoreNextCall, T!Idle
  <2>1. PICK t \in Timers, n \in Nat : running = <<t, n>>
    BY DEF TimerTypes
  <2>2. next' = [next EXCEPT ![t] = n] /\ running' = <<>>
    BY <2>1
  <2>3. active /\ t \in RosTimers \ raced => n >= sim
    BY <2>1 DEF CallAhead
  <2>4. TimerTypes'
    BY <2>2 DEF TimerTypes, T!fdVars
  <2>5. next'[t] = n /\ \A u \in Timers \ {t} : next'[u] = next[u]
    BY <2>2 DEF TimerTypes
  <2>6. BornInTime' /\ CallAhead'
    BY <2>2, <2>3, <2>5 DEF BornInTime, CallAhead, T!fdVars
  <2>7. active /\ t \in RosTimers \ raced => ~(sim > n)
    BY <2>3 DEF TimerTypes
  <2>8. T!NoStrandedTimer' /\ T!OneSourceOfTime'
    BY <2>1, <2>2, <2>5, <2>7
       DEF T!NoStrandedTimer, T!OneSourceOfTime, T!Listening, T!Live, T!InHandler, T!fdVars
  <2> QED BY <2>4, <2>6, <2>8
<1> QED BY <1>1, <1>2, <1>3, <1>4, <1>5 DEF T!Executor

\* Every step of the part keeps the invariant, and so do the steps of other parts.
LEMMA TimersNext ==
  ASSUME NodeAssumption, TimerInv, T!Next \/ UNCHANGED timerVars
  PROVE  TimerInv'
<1>1. CASE UNCHANGED timerVars
  BY <1>1 DEF timerVars, TimerInv, TimerTypes, BornInTime, CallAhead, T!NoStrandedTimer,
     T!OneSourceOfTime, T!Listening, T!Live, T!InHandler, T!Idle
<1>2. CASE T!Next
  BY <1>2, TimerLifeKeeps, ClocksKeep, TimerExecutorKeeps DEF T!Next
<1> QED BY <1>1, <1>2

-----------------------------------------------------------------------------
\* Parameters

\* The inductive invariant of the store.
ParamsInv == DescriptorsHold /\ serving \in Seq(Names \X AllValues)

\* No value that is new in the store was rejected by a callback.
Vetoed ==
  \A n \in DOMAIN params' :
    (n \notin DOMAIN params \/ params[n].value # params'[n].value) =>
      params'[n].value = NotSet \/ \A cb \in callbacks : <<n, params'[n].value>> \notin cb

\* A non-empty set of positions has a greatest member.
LEMMA HasGreatest ==
  ASSUME NEW m \in Nat, NEW At \in SUBSET (1..m), At # {}
  PROVE  \E i \in At : \A j \in At : j =< i
<1> DEFINE R == {k \in Nat : m - k \in At}
<1>1. R \subseteq Nat /\ R # {}
  <2>1. PICK i \in At : TRUE
    OBVIOUS
  <2>2. m - i \in Nat /\ m - (m - i) = i
    OBVIOUS
  <2> QED BY <2>1, <2>2
<1>2. IsWellFoundedOn(OpToRel(<, Nat), Nat)
  BY NatLessThanWellFounded
<1>3. PICK k \in R : \A l \in R : <<l, k>> \notin OpToRel(<, Nat)
  <2> HIDE DEF R
  <2> QED BY <1>1, <1>2, WFMin
<1>4. \A l \in R : ~(l < k)
  BY <1>1, <1>3 DEF OpToRel
<1>5. \A j \in At : j =< m - k
  <2>1. SUFFICES ASSUME NEW j \in At PROVE j =< m - k
    OBVIOUS
  <2>2. m - j \in R
    <3>1. m - j \in Nat /\ m - (m - j) = j
      OBVIOUS
    <3> QED BY <3>1
  <2> QED BY <1>4, <2>2
<1> QED BY <1>5

\* The value an operation leaves for a name is one of the entries for it.
LEMMA LastIs ==
  ASSUME NEW s, NEW m \in Nat, DOMAIN s = 1..m, NEW n, n \in NamesIn(s)
  PROVE  \E i \in DOMAIN s : s[i][1] = n /\ LastFor(s, n) = s[i][2]
<1> DEFINE At == {i \in DOMAIN s : s[i][1] = n}
<1>1. At \in SUBSET (1..m) /\ At # {}
  BY DEF NamesIn
<1>2. PICK i \in At : \A j \in At : j =< i
  <2> HIDE DEF At
  <2> QED BY <1>1, HasGreatest
<1>3. i \in DOMAIN s /\ s[i][1] = n /\ \A j \in DOMAIN s : j > i => s[j][1] # n
  BY <1>2
<1> QED BY <1>3 DEF LastFor

\* What is put into the store was asked for under that name, as a whole or in the
\* staging area (node_parameters.cpp: set_parameters_atomically).
LEMMA ToBeSetAsked ==
  ASSUME NEW request \in Seq(Names \X AllValues)
  PROVE  /\ DOMAIN ToBeSet(request) = 1..Len(request)
         /\ \A i \in DOMAIN request :
              /\ ToBeSet(request)[i] = <<ToBeSet(request)[i][1], ToBeSet(request)[i][2]>>
              /\ ToBeSet(request)[i][1] = request[i][1]
              /\ \E j \in DOMAIN request :
                   request[j][1] = request[i][1] /\ ToBeSet(request)[i][2] = request[j][2]
<1>1. DOMAIN request = 1..Len(request) /\ Len(request) \in Nat
  OBVIOUS
<1>2. DOMAIN ToBeSet(request) = 1..Len(request)
  BY <1>1 DEF ToBeSet
<1>3. ASSUME NEW i \in DOMAIN request
      PROVE  /\ ToBeSet(request)[i] = <<ToBeSet(request)[i][1], ToBeSet(request)[i][2]>>
             /\ ToBeSet(request)[i][1] = request[i][1]
             /\ \E j \in DOMAIN request :
                  request[j][1] = request[i][1] /\ ToBeSet(request)[i][2] = request[j][2]
  <2> DEFINE n == request[i][1]
  <2>1. request[i] = <<request[i][1], request[i][2]>>
    OBVIOUS
  <2>2. n \in NamesIn(request)
    BY DEF NamesIn
  <2>3. PICK j \in DOMAIN request : request[j][1] = n /\ LastFor(request, n) = request[j][2]
    BY <1>1, <2>2, LastIs
  <2>4. ToBeSet(request)[i] = <<n, LastFor(request, n)>> \/ ToBeSet(request)[i] = request[i]
    BY DEF ToBeSet
  <2>5. CASE ToBeSet(request)[i] = <<n, LastFor(request, n)>>
    BY <2>3, <2>5
  <2>6. CASE ToBeSet(request)[i] = request[i]
    BY <2>1, <2>6
  <2> QED BY <2>4, <2>5, <2>6
<1> QED BY <1>2, <1>3

\* Setting parameters keeps the store legal.
LEMMA SetKeeps ==
  ASSUME NEW request \in Seq(Names \X AllValues), DescriptorsHold, Settable(request),
         params' = AfterSet(request)
  PROVE  DescriptorsHold' /\ Vetoed
<1> DEFINE values == ToBeSet(request)
<1>1. DOMAIN values = 1..Len(request) /\ Len(request) \in Nat /\ DOMAIN request = 1..Len(request)
  BY ToBeSetAsked
<1>2. \A i \in DOMAIN request :
        /\ values[i] = <<values[i][1], values[i][2]>>
        /\ values[i][1] = request[i][1]
        /\ \E j \in DOMAIN request : request[j][1] = request[i][1] /\ values[i][2] = request[j][2]
  BY ToBeSetAsked
<1>3. \A cb \in callbacks : \A i \in DOMAIN values : values[i] \notin cb
  BY DEF Settable, Accepted
<1>4. \A i \in DOMAIN request : InRange(InfoFor(request[i][1]).desc, request[i][2])
  BY DEF Settable, Complies
<1>5. /\ DOMAIN params' \subseteq DOMAIN params \cup NamesIn(request)
      /\ \A n \in DOMAIN params' :
           params'[n] = IF n \in NamesIn(request)
                        THEN Info(LastFor(values, n), Type(LastFor(values, n)), InfoFor(n).desc)
                        ELSE params[n]
  BY DEF AfterSet, Erase
<1> HIDE DEF values
<1>6. NamesIn(values) = NamesIn(request)
  BY <1>1, <1>2 DEF NamesIn
<1>7. ASSUME NEW n \in NamesIn(request)
      PROVE  /\ InRange(InfoFor(n).desc, LastFor(values, n))
             /\ \A cb \in callbacks : <<n, LastFor(values, n)>> \notin cb
  <2>1. PICK i \in DOMAIN values : values[i][1] = n /\ LastFor(values, n) = values[i][2]
    BY <1>1, <1>6, LastIs, ZenonT(60)
  <2>2. values[i] = <<n, LastFor(values, n)>>
    BY <1>1, <1>2, <2>1
  <2>3. PICK j \in DOMAIN request : request[j][1] = n /\ LastFor(values, n) = request[j][2]
    BY <1>1, <1>2, <2>1
  <2> QED BY <1>3, <1>4, <2>1, <2>2, <2>3
<1>8. ASSUME NEW n \in DOMAIN params', n \in NamesIn(request)
      PROVE  /\ params'[n].value = LastFor(values, n)
             /\ params'[n].type = Type(LastFor(values, n))
             /\ params'[n].desc = InfoFor(n).desc
  <2>1. params'[n] = Info(LastFor(values, n), Type(LastFor(values, n)), InfoFor(n).desc)
    BY <1>5, <1>8
  <2> QED BY <2>1 DEF Info
<1>9. ASSUME NEW n \in DOMAIN params', n \notin NamesIn(request)
      PROVE  n \in DOMAIN params /\ params'[n] = params[n]
  BY <1>5, <1>9
<1>10. DescriptorsHold'
  <2>1. SUFFICES ASSUME NEW n \in DOMAIN params'
                 PROVE  /\ \/ params'[n].desc.dynamic \/ params'[n].value = NotSet
                           \/ Type(params'[n].value) = params'[n].type
                        /\ InRange(params'[n].desc, params'[n].value)
    BY DEF DescriptorsHold
  <2>2. CASE n \in NamesIn(request)
    BY <1>7, <1>8, <2>2
  <2>3. CASE n \notin NamesIn(request)
    BY <1>9, <2>3 DEF DescriptorsHold
  <2> QED BY <2>2, <2>3
<1>11. Vetoed
  <2>1. SUFFICES ASSUME NEW n \in DOMAIN params',
                        n \notin DOMAIN params \/ params[n].value # params'[n].value
                 PROVE  \A cb \in callbacks : <<n, params'[n].value>> \notin cb
    BY DEF Vetoed
  <2>2. n \in NamesIn(request)
    BY <1>9, <2>1
  <2> QED BY <1>7, <1>8, <2>2
<1> QED BY <1>10, <1>11

\* Declaring a parameter keeps the store legal.
LEMMA DeclareKeeps ==
  ASSUME DescriptorsHold, NEW n, NEW type, NEW v, NEW d, CanDeclare(n, type, v, d),
         params' = Put(params, n, DeclaredInfo(n, type, v, d))
  PROVE  DescriptorsHold' /\ Vetoed
<1>1. /\ DOMAIN params' = DOMAIN params \cup {n}
      /\ params'[n] = DeclaredInfo(n, type, v, d)
      /\ \A m \in DOMAIN params \ {n} : params'[m] = params[m]
  BY DEF Put
<1>2. DeclaredInfo(n, type, v, d).value = v /\ DeclaredInfo(n, type, v, d).desc = d
  BY DEF DeclaredInfo, Info
<1>3. CASE v = NotSet
  <2>1. InRange(d, v)
    BY <1>3 DEF InRange, NotSet, Type
  <2> QED BY <1>1, <1>2, <1>3, <2>1 DEF DescriptorsHold, Vetoed
<1>4. CASE v # NotSet
  <2>1. InRange(d, v) /\ (d.dynamic \/ DeclaredInfo(n, type, v, d).type = Type(v))
    BY <1>2, <1>4 DEF CanDeclare, Complies
  <2>2. \A cb \in callbacks : <<n, v>> \notin cb
    <3>1. /\ 1 \in DOMAIN <<<<n, v>>>> /\ <<<<n, v>>>>[1] = <<n, v>>
      OBVIOUS
    <3> QED BY <1>4, <3>1 DEF CanDeclare, Accepted
  <2> QED BY <1>1, <1>2, <2>1, <2>2 DEF DescriptorsHold, Vetoed
<1> QED BY <1>3, <1>4

\* The store is empty at first.
LEMMA ParamsInit ==
  ASSUME Init
  PROVE  ParamsInv
BY DEF Init, ParamsInv, DescriptorsHold

\* Every step of the part keeps the store legal and puts no rejected value into it; the
\* steps of other parts leave it alone.
LEMMA ParamsNext ==
  ASSUME NodeAssumption, ParamsInv, Next \/ UNCHANGED vars
  PROVE  ParamsInv' /\ Vetoed
<1>1. ASSUME UNCHANGED params
      PROVE  DescriptorsHold' /\ Vetoed
  BY <1>1 DEF ParamsInv, DescriptorsHold, Vetoed
<1>2. CASE UNCHANGED vars
  BY <1>1, <1>2 DEF vars, ParamsInv
<1>3. ASSUME NEW n \in Names, NEW d \in Descriptors, NEW v \in AllValues, NEW ignore \in BOOLEAN,
             NEW type, DeclareParameter(n, type, v, d, ignore)
      PROVE  ParamsInv' /\ Vetoed
  BY <1>3, DeclareKeeps DEF DeclareParameter, ParamsInv
<1>4. ASSUME NEW n \in Names, AutoDeclare(n)
      PROVE  ParamsInv' /\ Vetoed
  BY <1>4, DeclareKeeps DEF AutoDeclare, ParamsInv
<1>5. ASSUME NEW n \in Names, UndeclareParameter(n)
      PROVE  ParamsInv' /\ Vetoed
  BY <1>5 DEF UndeclareParameter, Erase, ParamsInv, DescriptorsHold, Vetoed
<1>6. ASSUME NEW request \in Requests, SetParametersAtomically(request)
      PROVE  ParamsInv' /\ Vetoed
  <2>1. request \in Seq(Names \X AllValues)
    BY DEF NodeAssumption
  <2> QED BY <1>6, <2>1, SetKeeps DEF SetParametersAtomically, ParamsInv
<1>7. ASSUME NEW request \in Requests, SetParametersRequest(request)
      PROVE  ParamsInv' /\ Vetoed
  BY <1>1, <1>7 DEF SetParametersRequest, ParamsInv, NodeAssumption
<1>8. CASE ServeNext
  <2> DEFINE one == <<Head(serving)>>
  <2>1. one \in Seq(Names \X AllValues) /\ serving' \in Seq(Names \X AllValues)
    BY <1>8 DEF ServeNext, ParamsInv
  <2>2. CASE Settable(one)
    <3>1. params' = AfterSet(one)
      BY <1>8, <2>2 DEF ServeNext
    <3> HIDE DEF one
    <3> QED BY <2>1, <2>2, <3>1, SetKeeps DEF ParamsInv
  <2>3. CASE ~Settable(one)
    BY <1>1, <1>8, <2>1, <2>3 DEF ServeNext, ParamsInv
  <2> QED BY <2>2, <2>3
<1>9. ASSUME NEW cb, AddOnSetParametersCallback(cb) \/ RemoveOnSetParametersCallback(cb)
      PROVE  ParamsInv' /\ Vetoed
  BY <1>1, <1>9 DEF AddOnSetParametersCallback, RemoveOnSetParametersCallback, ParamsInv
<1> QED BY <1>2, <1>3, <1>4, <1>5, <1>6, <1>7, <1>8, <1>9 DEF Next

-----------------------------------------------------------------------------
\* Services and clients

\* What a request and its response say of where they belong, and what a client holds.
Letters == [id : Nat, seqno : Nat, born : Nat]
Holders == [born : Nat \ {0}, id : Nat, next : Nat,
            loaned : SUBSET Nat, sending : SUBSET Nat, pending : SUBSET Nat]

\* The types of clients, servers and queues.
CallTypes ==
  /\ nextId \in Nat /\ created \in Nat /\ up \subseteq Servers
  /\ client \in [Clients -> Holders \cup {V!Gone}]
  /\ queue \in [Servers -> Seq(Letters)] /\ held \in [Servers -> SUBSET Letters]
  /\ inbox \in [Clients -> Seq(Letters)]

\* The requests a server has received or will receive, and the responses on their way to
\* a client.
OnTheWay(s) == held[s] \cup V!ToSet(queue[s])
Answered(c) == V!ToSet(inbox[c])

\* Ids of publishers are used again only when no request remembers them: a request names
\* the response topic of a client exactly when that client sent it.
Paired ==
  /\ \A c \in Clients : V!Exists(c) => client[c].id < nextId /\ client[c].born =< created
  /\ \A c, d \in Clients : V!Exists(c) /\ V!Exists(d) /\ c # d =>
       client[c].id # client[d].id /\ client[c].born # client[d].born
  /\ \A s \in Servers : \A r \in OnTheWay(s) :
       /\ r.id < nextId /\ r.born =< created
       /\ \A c \in Clients : V!Exists(c) => (r.id = client[c].id <=> r.born = client[c].born)
  /\ \A s \in Servers \ up : OnTheWay(s) = {}

\* NoCrossTalk and NoOrphanCall in terms of these sets.
Addressed == \A c \in Clients : \A r \in Answered(c) : V!Exists(c) /\ r.born = client[c].born
Followed ==
  \A c \in Clients : V!Exists(c) => \A n \in client[c].pending :
    \/ n \in client[c].sending
    \/ <<client[c].born, n>> \in lost
    \/ \E s \in up : \E r \in OnTheWay(s) : r.born = client[c].born /\ r.seqno = n
    \/ \E r \in Answered(c) : r.seqno = n

\* The inductive invariant of the services.
CallInv == CallTypes /\ Paired /\ Addressed /\ Followed

\* A client that exists is a holder, one that is gone is not.
LEMMA ExistingIs ==
  /\ \A h \in Holders : h # V!Gone
  /\ \A c : V!Exists(c) <=> client[c] # V!Gone
  /\ CallTypes => \A c \in Clients : V!Exists(c) => client[c] \in Holders
<1>1. \A h \in Holders : h # V!Gone
  BY DEF Holders, V!Gone
<1>2. \A c : V!Exists(c) <=> client[c] # V!Gone
  BY DEF V!Exists
<1> QED BY <1>1, <1>2 DEF CallTypes

\* What the operations of a queue leave in it.
LEMMA QueueSets ==
  ASSUME NEW Items, NEW q0 \in Seq(Items), NEW r \in Items
  PROVE  /\ Append(q0, r) \in Seq(Items) /\ V!ToSet(Append(q0, r)) = V!ToSet(q0) \cup {r}
         /\ V!ToSet(q0) \subseteq Items /\ V!ToSet(<<>>) = {}
         /\ q0 # <<>> => /\ Tail(q0) \in Seq(Items) /\ Head(q0) \in Items
                         /\ V!ToSet(q0) = V!ToSet(Tail(q0)) \cup {Head(q0)}
<1>1. /\ Append(q0, r) \in Seq(Items) /\ DOMAIN Append(q0, r) = 1..Len(q0) + 1
      /\ \A i \in 1..Len(q0) : Append(q0, r)[i] = q0[i]
      /\ Append(q0, r)[Len(q0) + 1] = r
      /\ DOMAIN q0 = 1..Len(q0) /\ Len(q0) \in Nat
  OBVIOUS
<1>2. V!ToSet(Append(q0, r)) = V!ToSet(q0) \cup {r}
  <2>1. ASSUME NEW x \in V!ToSet(Append(q0, r))
        PROVE  x \in V!ToSet(q0) \cup {r}
    BY <1>1, <2>1 DEF V!ToSet
  <2>2. r \in V!ToSet(Append(q0, r))
    BY <1>1 DEF V!ToSet
  <2>3. ASSUME NEW x \in V!ToSet(q0)
        PROVE  x \in V!ToSet(Append(q0, r))
    BY <1>1, <2>3 DEF V!ToSet
  <2> QED BY <2>1, <2>2, <2>3
<1>3. V!ToSet(q0) \subseteq Items /\ V!ToSet(<<>>) = {}
  BY DEF V!ToSet
<1>4. ASSUME q0 # <<>>
      PROVE  /\ Tail(q0) \in Seq(Items) /\ Head(q0) \in Items
             /\ V!ToSet(q0) = V!ToSet(Tail(q0)) \cup {Head(q0)}
  <2>1. /\ Tail(q0) \in Seq(Items) /\ DOMAIN Tail(q0) = 1..Len(q0) - 1
        /\ \A i \in 1..Len(q0) - 1 : Tail(q0)[i] = q0[i + 1]
        /\ Head(q0) = q0[1] /\ Len(q0) >= 1
    BY <1>4
  <2>2. ASSUME NEW x \in V!ToSet(q0)
        PROVE  x \in V!ToSet(Tail(q0)) \cup {Head(q0)}
    <3>1. PICK i \in 1..Len(q0) : x = q0[i]
      BY <1>1 DEF V!ToSet
    <3>2. CASE i = 1
      BY <2>1, <3>1, <3>2
    <3>3. CASE i # 1
      <4>1. i - 1 \in 1..Len(q0) - 1 /\ (i - 1) + 1 = i
        BY <1>1, <3>3
      <4>2. Tail(q0)[i - 1] = x
        BY <2>1, <3>1, <4>1
      <4> QED BY <2>1, <4>1, <4>2 DEF V!ToSet
    <3> QED BY <3>2, <3>3
  <2>3. V!ToSet(Tail(q0)) \subseteq V!ToSet(q0)
    <3>1. \A i \in 1..Len(q0) - 1 : i + 1 \in 1..Len(q0)
      BY <1>1
    <3> QED BY <1>1, <2>1, <3>1 DEF V!ToSet
  <2>4. Head(q0) \in V!ToSet(q0) /\ Head(q0) \in Items
    BY <1>1, <2>1 DEF V!ToSet
  <2> QED BY <2>1, <2>2, <2>3, <2>4
<1> QED BY <1>1, <1>2, <1>3, <1>4

\* A queue that is cut to its depth loses its head at most.
LEMMA KeepSets ==
  ASSUME NodeAssumption, NEW q0 \in Seq(Letters)
  PROVE  /\ V!Keep(q0) \in Seq(Letters)
         /\ V!ToSet(q0) = V!ToSet(V!Keep(q0)) \cup V!Dropped(q0)
<1>1. CASE Len(q0) > Depth
  <2>1. q0 # <<>>
    BY <1>1 DEF NodeAssumption
  <2>2. \E r : r \in Letters
    BY <2>1
  <2> QED BY <1>1, <2>1, <2>2, QueueSets DEF V!Keep, V!Dropped
<1>2. CASE ~(Len(q0) > Depth)
  BY <1>2 DEF V!Keep, V!Dropped
<1> QED BY <1>1, <1>2

\* Nobody is there at first.
LEMMA CallsInit ==
  ASSUME V!Init
  PROVE  CallInv
<1> USE DEF V!Init
<1>1. CallTypes
  BY DEF CallTypes
<1>2. \A c \in Clients : ~V!Exists(c) /\ Answered(c) = {}
  BY ExistingIs DEF Answered, V!ToSet
<1>3. \A s \in Servers : OnTheWay(s) = {}
  BY DEF OnTheWay, V!ToSet
<1> HIDE DEF V!Init
<1> QED BY <1>1, <1>2, <1>3 DEF CallInv, Paired, Addressed, Followed

\* A call of somebody who is there is among the calls of the letters that were lost.
LEMMA LostIs ==
  ASSUME NEW Items, NEW r \in Items, NEW c \in Clients, client[c].born = r.born
  PROVE  <<r.born, r.seqno>> \in V!Calls(Items)
BY DEF V!Calls

\* A step that creates and destroys no client keeps the pairing of requests and clients if
\* the letters it leaves are as well addressed as those before.
LEMMA SameClients ==
  ASSUME CallInv, CallTypes', UNCHANGED <<nextId, created>>,
         \A c \in Clients :
           /\ V!Exists(c)' <=> V!Exists(c)
           /\ V!Exists(c) => client'[c].id = client[c].id /\ client'[c].born = client[c].born,
         \A s \in Servers : \A r \in OnTheWay(s)' : r.id < nextId /\ r.born =< created /\
           \A c \in Clients : V!Exists(c) => (r.id = client[c].id <=> r.born = client[c].born),
         \A s \in Servers \ up' : OnTheWay(s)' = {},
         \A c \in Clients : \A r \in Answered(c)' : V!Exists(c) /\ r.born = client[c].born,
         Followed'
  PROVE  CallInv'
BY DEF CallInv, Paired, Addressed

\* A client is created with an id that no request in the kernel has.
LEMMA CreateClientKeeps ==
  ASSUME CallInv, NEW c \in Clients, V!CreateClient(c)
  PROVE  CallInv'
<1> USE DEF CallInv
<1> DEFINE new == [born |-> created + 1, id |-> nextId, next |-> 0,
                   loaned |-> {}, sending |-> {}, pending |-> {}]
<1>1. new \in Holders
  BY DEF Holders, CallTypes
<1>2. /\ client'[c] = new
      /\ \A d \in Clients \ {c} : client'[d] = client[d]
      /\ client' \in [Clients -> Holders \cup {V!Gone}]
      /\ nextId' = nextId + 1 /\ created' = created + 1
      /\ inbox' = [inbox EXCEPT ![c] = <<>>]
      /\ UNCHANGED <<up, queue, held, lost>>
  <2> HIDE DEF new
  <2> QED BY <1>1 DEF V!CreateClient, CallTypes, new
<1>3. new.id = nextId /\ new.born = created + 1 /\ new.pending = {}
  OBVIOUS
<1> HIDE DEF new
<1>4. CallTypes'
  BY <1>2 DEF CallTypes
<1>5. ~V!Exists(c) /\ V!Exists(c)' /\ \A d \in Clients \ {c} : V!Exists(d)' <=> V!Exists(d)
  BY <1>1, <1>2, ExistingIs DEF V!CreateClient, V!Exists
<1>6. /\ \A s \in Servers : OnTheWay(s)' = OnTheWay(s)
      /\ \A d \in Clients \ {c} : Answered(d)' = Answered(d)
      /\ Answered(c)' = {}
  BY <1>2 DEF OnTheWay, Answered, CallTypes, V!ToSet
<1>7. \A d \in Clients : V!Exists(d) => client[d].id < nextId /\ client[d].born =< created
                                        /\ client[d].id \in Nat /\ client[d].born \in Nat
  BY ExistingIs DEF Paired, Holders
<1>8. \A s \in Servers : \A r \in OnTheWay(s) : r.id \in Nat /\ r.born \in Nat
  <2>1. ASSUME NEW s \in Servers
        PROVE  OnTheWay(s) \subseteq Letters
    BY DEF OnTheWay, CallTypes, V!ToSet
  <2> QED BY <2>1 DEF Letters
<1>9. nextId \in Nat /\ created \in Nat
  BY DEF CallTypes
<1>10. Paired'
  <2>1. \A d \in Clients : V!Exists(d)' => client'[d].id < nextId' /\ client'[d].born =< created'
    BY <1>2, <1>3, <1>5, <1>7, <1>9
  <2>2. \A d, e \in Clients : V!Exists(d)' /\ V!Exists(e)' /\ d # e =>
          client'[d].id # client'[e].id /\ client'[d].born # client'[e].born
    BY <1>2, <1>3, <1>5, <1>7, <1>9 DEF Paired
  <2>3. ASSUME NEW s \in Servers, NEW r \in OnTheWay(s)'
        PROVE  /\ r.id < nextId' /\ r.born =< created'
               /\ \A d \in Clients : V!Exists(d)' => (r.id = client'[d].id <=> r.born = client'[d].born)
    <3>1. r \in OnTheWay(s) /\ r.id < nextId /\ r.born =< created /\ r.id \in Nat /\ r.born \in Nat
      BY <1>6, <1>8, <2>3 DEF Paired
    <3>2. r.id # nextId /\ r.born # created + 1
      BY <1>9, <3>1
    <3> QED BY <1>2, <1>3, <1>5, <1>9, <3>1, <3>2 DEF Paired
  <2>4. \A s \in Servers \ up' : OnTheWay(s)' = {}
    BY <1>2, <1>6 DEF Paired
  <2> QED BY <2>1, <2>2, <2>3, <2>4 DEF Paired
<1>11. Addressed'
  BY <1>2, <1>5, <1>6 DEF Addressed
<1>12. Followed'
  <2>1. up \subseteq Servers
    BY DEF CallTypes
  <2> QED BY <1>2, <1>3, <1>5, <1>6, <2>1 DEF Followed
<1> QED BY <1>4, <1>10, <1>11, <1>12

\* A step of a client that touches nothing but its own calls and responses keeps the
\* invariant if it forgets no call that waits for one of them.
LEMMA OwnStep ==
  ASSUME CallInv, NEW c \in Clients, V!Exists(c), NEW h \in Holders,
         client' = [client EXCEPT ![c] = h], h.id = client[c].id, h.born = client[c].born,
         \A m \in h.pending \ h.sending : m \in client[c].pending \ client[c].sending,
         UNCHANGED <<nextId, created, up, queue, held, lost>>,
         inbox' \in [Clients -> Seq(Letters)],
         \A d \in Clients \ {c} : inbox'[d] = inbox[d],
         Answered(c)' \subseteq Answered(c),
         \A r \in Answered(c) : r.seqno \in h.pending \ h.sending => r \in Answered(c)'
  PROVE  CallInv'
<1> USE DEF CallInv
<1>1. CallTypes'
  BY DEF CallTypes
<1>2. client'[c] = h /\ \A d \in Clients \ {c} : client'[d] = client[d]
  BY DEF CallTypes
<1>3. \A d \in Clients : V!Exists(d)' <=> V!Exists(d)
  BY <1>2, ExistingIs DEF V!Exists
<1>4. /\ \A s \in Servers : OnTheWay(s)' = OnTheWay(s)
      /\ \A d \in Clients \ {c} : Answered(d)' = Answered(d)
  BY DEF OnTheWay, Answered, V!ToSet
<1>5. Followed'
  <2>1. up \subseteq Servers
    BY DEF CallTypes
  <2>2. ASSUME NEW m \in h.pending \ h.sending
        PROVE  \/ <<client[c].born, m>> \in lost
               \/ \E s \in up : \E r \in OnTheWay(s) : r.born = client[c].born /\ r.seqno = m
               \/ \E r \in Answered(c)' : r.seqno = m
    <3>1. m \in client[c].pending /\ m \notin client[c].sending
      OBVIOUS
    <3> QED BY <3>1 DEF Followed
  <2>3. ASSUME NEW d \in Clients \ {c}, V!Exists(d), NEW m \in client[d].pending
        PROVE  \/ m \in client[d].sending \/ <<client[d].born, m>> \in lost
               \/ \E s \in up : \E r \in OnTheWay(s) : r.born = client[d].born /\ r.seqno = m
               \/ \E r \in Answered(d)' : r.seqno = m
    BY <1>4, <2>3 DEF Followed
  <2> QED BY <1>2, <1>3, <1>4, <2>1, <2>2, <2>3 DEF Followed
<1>6. Paired' /\ Addressed'
  BY <1>2, <1>3, <1>4 DEF Paired, Addressed
<1> QED BY <1>1, <1>5, <1>6

\* Borrowing, dropping and registering a request and taking a response are a client's own.
LEMMA ClientKeeps ==
  ASSUME CallInv, NEW c \in Clients, NEW n,
         V!BorrowRequest(c) \/ V!CancelRequest(c, n) \/ V!RegisterCall(c, n) \/ V!ReceiveResponse(c)
  PROVE  CallInv'
<1>1. V!Exists(c) /\ client[c] \in Holders
  BY ExistingIs DEF V!BorrowRequest, V!CancelRequest, V!RegisterCall, V!ReceiveResponse, CallInv
<1>2. DOMAIN client = Clients /\ inbox \in [Clients -> Seq(Letters)]
  BY DEF CallInv, CallTypes
<1>3. CASE V!BorrowRequest(c)
  <2> DEFINE h == [client[c] EXCEPT !.next = client[c].next + 1,
                                    !.loaned = client[c].loaned \cup {client[c].next}]
  <2>1. client[c].next + 1 \in Nat /\ client[c].loaned \cup {client[c].next} \in SUBSET Nat
    BY <1>1 DEF Holders
  <2>2. h \in Holders
    BY <1>1, <2>1 DEF Holders
  <2>3. /\ h.id = client[c].id /\ h.born = client[c].born
        /\ h.pending = client[c].pending /\ h.sending = client[c].sending
    BY <1>1 DEF Holders
  <2>4. client' = [client EXCEPT ![c] = h]
    BY <1>1, <1>2, <1>3 DEF V!BorrowRequest, Holders
  <2>5. UNCHANGED <<nextId, created, up, queue, held, lost, inbox>>
    BY <1>3 DEF V!BorrowRequest
  <2> HIDE DEF h
  <2> QED BY <1>1, <1>2, <2>2, <2>3, <2>4, <2>5, OwnStep DEF Answered
<1>4. CASE V!CancelRequest(c, n)
  <2> DEFINE h == [client[c] EXCEPT !.loaned = client[c].loaned \ {n}]
  <2>1. client[c].loaned \ {n} \in SUBSET Nat
    BY <1>1 DEF Holders
  <2>2. h \in Holders
    BY <1>1, <2>1 DEF Holders
  <2>3. /\ h.id = client[c].id /\ h.born = client[c].born
        /\ h.pending = client[c].pending /\ h.sending = client[c].sending
    BY <1>1 DEF Holders
  <2>4. client' = [client EXCEPT ![c] = h]
    BY <1>1, <1>2, <1>4 DEF V!CancelRequest, Holders
  <2>5. UNCHANGED <<nextId, created, up, queue, held, lost, inbox>>
    BY <1>4 DEF V!CancelRequest
  <2> HIDE DEF h
  <2> QED BY <1>1, <1>2, <2>2, <2>3, <2>4, <2>5, OwnStep DEF Answered
<1>5. CASE V!RegisterCall(c, n)
  <2> DEFINE h == [client[c] EXCEPT !.loaned = client[c].loaned \ {n},
                                    !.pending = client[c].pending \cup {n},
                                    !.sending = client[c].sending \cup {n}]
  <2>1. /\ client[c].loaned \ {n} \in SUBSET Nat /\ client[c].pending \cup {n} \in SUBSET Nat
        /\ client[c].sending \cup {n} \in SUBSET Nat
    BY <1>1, <1>5 DEF Holders, V!RegisterCall
  <2>2. h \in Holders
    BY <1>1, <2>1 DEF Holders
  <2>3. /\ h.id = client[c].id /\ h.born = client[c].born
        /\ h.pending = client[c].pending \cup {n} /\ h.sending = client[c].sending \cup {n}
    BY <1>1 DEF Holders
  <2>4. client' = [client EXCEPT ![c] = h]
    BY <1>1, <1>2, <1>5 DEF V!RegisterCall, Holders
  <2>5. UNCHANGED <<nextId, created, up, queue, held, lost, inbox>>
    BY <1>5 DEF V!RegisterCall
  <2> HIDE DEF h
  <2> QED BY <1>1, <1>2, <2>2, <2>3, <2>4, <2>5, OwnStep DEF Answered
<1>6. CASE V!ReceiveResponse(c)
  <2> DEFINE first == Head(inbox[c])
             h == [client[c] EXCEPT !.pending = client[c].pending \ {first.seqno}]
  <2>1. client[c].pending \ {first.seqno} \in SUBSET Nat
    BY <1>1 DEF Holders
  <2>2. h \in Holders
    BY <1>1, <2>1 DEF Holders
  <2>3. /\ h.id = client[c].id /\ h.born = client[c].born
        /\ h.pending = client[c].pending \ {first.seqno} /\ h.sending = client[c].sending
    BY <1>1 DEF Holders
  <2>4. client' = [client EXCEPT ![c] = h]
    BY <1>1, <1>2, <1>6 DEF V!ReceiveResponse, Holders
  <2>5. inbox[c] \in Seq(Letters) /\ inbox[c] # <<>>
    BY <1>2, <1>6 DEF V!ReceiveResponse
  <2>6. first \in Letters
    BY <2>5
  <2>7. Tail(inbox[c]) \in Seq(Letters) /\ Answered(c) = V!ToSet(Tail(inbox[c])) \cup {first}
    BY <2>5, <2>6, QueueSets DEF Answered
  <2>8. UNCHANGED <<nextId, created, up, queue, held, lost>> /\ inbox' = [inbox EXCEPT ![c] = Tail(inbox[c])]
    BY <1>6 DEF V!ReceiveResponse
  <2>9. /\ inbox' \in [Clients -> Seq(Letters)]
        /\ \A d \in Clients \ {c} : inbox'[d] = inbox[d]
        /\ Answered(c)' = V!ToSet(Tail(inbox[c]))
    BY <1>2, <2>7, <2>8 DEF Answered, V!ToSet
  <2> HIDE DEF h, first
  <2>10. \A m \in h.pending \ h.sending :
           m \in client[c].pending \ client[c].sending /\ m # first.seqno
    BY <2>3
  <2>11. /\ Answered(c)' \subseteq Answered(c)
         /\ \A r \in Answered(c) : r.seqno \in h.pending \ h.sending => r \in Answered(c)'
    BY <2>7, <2>9, <2>10
  <2>12. UNCHANGED <<nextId, created, up, queue, held, lost>>
    BY <2>8
  <2> QED BY <1>1, <2>2, <2>3, <2>4, <2>9, <2>10, <2>11, <2>12, OwnStep, ZenonT(60)
<1> QED BY <1>3, <1>4, <1>5, <1>6

\* A request is published: every service that is up has it, or is said to have lost it.
LEMMA PublishRequestKeeps ==
  ASSUME NodeAssumption, CallInv, NEW c \in Clients, NEW n, V!PublishRequest(c, n)
  PROVE  CallInv'
<1>1. V!Exists(c) /\ client[c] \in Holders /\ n \in client[c].sending
  BY ExistingIs DEF V!PublishRequest, CallInv
<1>2. DOMAIN client = Clients /\ up \subseteq Servers /\ queue \in [Servers -> Seq(Letters)]
  BY DEF CallInv, CallTypes
<1> DEFINE h == [client[c] EXCEPT !.sending = client[c].sending \ {n}]
           request == [id |-> client[c].id, seqno |-> n, born |-> client[c].born]
           longer == [s \in Servers |-> IF s \in up THEN Append(queue[s], request) ELSE queue[s]]
<1>3. client[c].sending \ {n} \in SUBSET Nat
  BY <1>1 DEF Holders
<1>4. h \in Holders
  BY <1>1, <1>3 DEF Holders
<1>5. /\ h.id = client[c].id /\ h.born = client[c].born
      /\ h.pending = client[c].pending /\ h.sending = client[c].sending \ {n}
  BY <1>1 DEF Holders
<1>6. client' = [client EXCEPT ![c] = h]
  BY <1>1, <1>2 DEF V!PublishRequest, Holders
<1>7. request \in Letters /\ request.id = client[c].id /\ request.seqno = n
      /\ request.born = client[c].born
  BY <1>1 DEF Letters, Holders
<1>8. /\ queue' = [s \in Servers |-> V!Keep(longer[s])]
      /\ lost' = lost \cup V!Calls(UNION {V!Dropped(longer[s]) : s \in Servers})
                      \cup (IF up = {} THEN V!Calls({request}) ELSE {})
      /\ UNCHANGED <<nextId, up, held, inbox, created>>
  BY DEF V!PublishRequest
<1> HIDE DEF h, request
<1>9. ASSUME NEW s \in Servers
      PROVE  /\ longer[s] \in Seq(Letters)
             /\ V!ToSet(longer[s]) = V!ToSet(queue[s]) \cup (IF s \in up THEN {request} ELSE {})
  BY <1>2, <1>7, QueueSets
<1> HIDE DEF longer
<1>10. ASSUME NEW s \in Servers
       PROVE  /\ queue'[s] \in Seq(Letters)
              /\ V!ToSet(queue[s]) \cup (IF s \in up THEN {request} ELSE {})
                   = V!ToSet(queue'[s]) \cup V!Dropped(longer[s])
              /\ OnTheWay(s)' = held[s] \cup V!ToSet(queue'[s])
  BY <1>8, <1>9, KeepSets DEF OnTheWay, V!ToSet
<1>11. CallTypes'
  BY <1>2, <1>4, <1>6, <1>8, <1>10 DEF CallTypes, CallInv
<1>12. client'[c] = h /\ \A d \in Clients \ {c} : client'[d] = client[d]
  BY <1>2, <1>6
<1>13. \A d \in Clients : V!Exists(d)' <=> V!Exists(d)
  BY <1>1, <1>4, <1>12, ExistingIs DEF V!Exists
<1>14. \A d \in Clients : client'[d].id = client[d].id /\ client'[d].born = client[d].born
                          /\ client'[d].pending = client[d].pending
  BY <1>5, <1>12
<1>15. ASSUME NEW s \in Servers, NEW r \in OnTheWay(s)'
       PROVE  /\ r.id < nextId /\ r.born =< created
              /\ \A d \in Clients : V!Exists(d) => (r.id = client[d].id <=> r.born = client[d].born)
  <2>1. r \in OnTheWay(s) \/ r = request
    BY <1>10, <1>15 DEF OnTheWay
  <2>2. CASE r \in OnTheWay(s)
    BY <2>2 DEF CallInv, Paired
  <2>3. CASE r = request
    BY <1>1, <1>7, <2>3 DEF CallInv, Paired
  <2> QED BY <2>1, <2>2, <2>3
<1>16. \A s \in Servers \ up' : OnTheWay(s)' = {}
  <2>1. SUFFICES ASSUME NEW s \in Servers \ up PROVE OnTheWay(s)' = {}
    BY <1>8
  <2>2. OnTheWay(s) = {}
    BY DEF CallInv, Paired
  <2> QED BY <1>10, <2>2 DEF OnTheWay
<1>17. /\ \A d \in Clients : Answered(d)' = Answered(d)
       /\ \A d \in Clients : \A r \in Answered(d)' : V!Exists(d) /\ r.born = client[d].born
  <2>1. \A d \in Clients : Answered(d)' = Answered(d)
    BY <1>8 DEF Answered, V!ToSet
  <2> QED BY <2>1 DEF CallInv, Addressed
<1>18. \A s \in Servers : \A r \in V!Dropped(longer[s]) : \A d \in Clients :
         r.born = client[d].born => <<r.born, r.seqno>> \in lost'
  BY <1>8, LostIs
<1>19. up = {} => <<client[c].born, n>> \in lost'
  <2>1. up = {} => <<request.born, request.seqno>> \in V!Calls({request})
    BY <1>7, LostIs
  <2> QED BY <1>7, <1>8, <2>1
<1>20. Followed'
  <2>1. SUFFICES ASSUME NEW d \in Clients, V!Exists(d), NEW m \in client[d].pending,
                        m \notin client'[d].sending, <<client[d].born, m>> \notin lost',
                        \A r \in Answered(d) : r.seqno # m
                 PROVE  \E s \in up : \E r \in OnTheWay(s)' : r.born = client[d].born /\ r.seqno = m
    <3>1. SUFFICES ASSUME NEW d \in Clients, V!Exists(d)', NEW m \in client'[d].pending
                   PROVE  \/ m \in client'[d].sending
                          \/ <<client'[d].born, m>> \in lost'
                          \/ \E s \in up' : \E r \in OnTheWay(s)' :
                               r.born = client'[d].born /\ r.seqno = m
                          \/ \E r \in Answered(d)' : r.seqno = m
      BY DEF Followed
    <3>2. V!Exists(d) /\ client'[d].born = client[d].born /\ m \in client[d].pending
          /\ up' = up /\ Answered(d)' = Answered(d)
      BY <1>8, <1>13, <1>14, <1>17, <3>1
    <3> QED BY <2>1, <3>2
  <2>2. CASE d = c /\ m = n
    <3>1. PICK s \in up : TRUE
      BY <1>19, <2>1, <2>2
    <3>2. request \notin V!Dropped(longer[s])
      BY <1>2, <1>7, <1>18, <2>1, <2>2
    <3>3. request \in OnTheWay(s)'
      BY <1>2, <1>10, <3>2
    <3> QED BY <1>7, <2>2, <3>3
  <2>3. CASE ~(d = c /\ m = n)
    <3>1. m \notin client[d].sending /\ <<client[d].born, m>> \notin lost
      BY <1>5, <1>8, <1>12, <2>1, <2>3
    <3>2. PICK s \in up : \E r \in OnTheWay(s) : r.born = client[d].born /\ r.seqno = m
      BY <2>1, <3>1 DEF CallInv, Followed
    <3>3. PICK r \in OnTheWay(s) : r.born = client[d].born /\ r.seqno = m
      BY <3>2
    <3>4. r \notin V!Dropped(longer[s])
      BY <1>2, <1>18, <2>1, <3>3
    <3>5. r \in OnTheWay(s)'
      BY <1>2, <1>10, <3>3, <3>4 DEF OnTheWay
    <3> QED BY <3>3, <3>5
  <2> QED BY <2>2, <2>3
<1> QED BY <1>8, <1>11, <1>13, <1>14, <1>15, <1>16, <1>17, <1>20, SameClients

\* A client leaves: the ids start anew only when nobody and no request is left.
LEMMA DestroyClientKeeps ==
  ASSUME CallInv, NEW c \in Clients, V!DestroyClient(c)
  PROVE  CallInv'
<1> USE DEF CallInv
<1>1. /\ client' = [client EXCEPT ![c] = V!Gone]
      /\ inbox' = [inbox EXCEPT ![c] = <<>>]
      /\ lost' = {call \in lost : call[1] # client[c].born}
      /\ UNCHANGED <<up, queue, held, created>>
      /\ nextId' = nextId \/ (nextId' = 0 /\ up = {} /\ \A d \in Clients \ {c} : ~V!Exists(d))
  BY DEF V!DestroyClient, V!IdAfter
<1>2. client'[c] = V!Gone /\ \A d \in Clients \ {c} : client'[d] = client[d]
  BY <1>1 DEF CallTypes
<1>3. ~V!Exists(c)' /\ \A d \in Clients \ {c} : V!Exists(d)' <=> V!Exists(d)
  BY <1>2 DEF V!Exists
<1>4. CallTypes'
  BY <1>1 DEF CallTypes
<1>5. /\ \A s \in Servers : OnTheWay(s)' = OnTheWay(s)
      /\ Answered(c)' = {} /\ \A d \in Clients \ {c} : Answered(d)' = Answered(d)
  BY <1>1 DEF OnTheWay, Answered, V!ToSet, CallTypes
<1>6. Addressed'
  BY <1>2, <1>3, <1>5 DEF Addressed
<1>7. Followed'
  <2>1. ASSUME NEW d \in Clients \ {c}, V!Exists(d), NEW m
        PROVE  <<client[d].born, m>> \in lost => <<client[d].born, m>> \in lost'
    <3>1. client[d].born # client[c].born
      BY <2>1 DEF Paired, V!DestroyClient
    <3> QED BY <1>1, <3>1
  <2>2. up \subseteq Servers
    BY DEF CallTypes
  <2> QED BY <1>1, <1>2, <1>3, <1>5, <2>1, <2>2 DEF Followed
<1>8. Paired'
  <2>1. CASE nextId' = nextId
    BY <1>1, <1>2, <1>3, <1>5, <2>1 DEF Paired
  <2>2. CASE up = {} /\ \A d \in Clients \ {c} : ~V!Exists(d)
    <3>1. \A s \in Servers : OnTheWay(s)' = {}
      BY <1>5, <2>2 DEF Paired
    <3> QED BY <1>3, <2>2, <3>1 DEF Paired
  <2> QED BY <1>1, <2>1, <2>2
<1> QED BY <1>4, <1>6, <1>7, <1>8

\* Servers come, take requests and cancel responses.
LEMMA ServerKeeps ==
  ASSUME CallInv, NEW s \in Servers,
         \/ V!CreateService(s) \/ V!TakeRequest(s) \/ \E r \in held[s] : V!CancelResponse(s, r)
  PROVE  CallInv'
<1> USE DEF CallInv
<1>1. DOMAIN queue = Servers /\ DOMAIN held = Servers /\ queue[s] \in Seq(Letters)
      /\ held[s] \subseteq Letters
  BY DEF CallTypes
<1>2. UNCHANGED <<nextId, created, client, inbox>>
  BY DEF V!CreateService, V!TakeRequest, V!CancelResponse
<1>3. \A d \in Clients : (V!Exists(d)' <=> V!Exists(d)) /\ Answered(d)' = Answered(d)
  BY <1>2 DEF V!Exists, Answered, V!ToSet
<1>4. CASE V!CreateService(s)
  <2> USE <1>4 DEF V!CreateService
  <2>1. CallTypes'
    BY DEF CallTypes
  <2>2. \A x \in Servers : OnTheWay(x)' = OnTheWay(x)
    <3>1. OnTheWay(s) = {} /\ OnTheWay(s)' = {}
      BY <1>1 DEF Paired, OnTheWay, V!ToSet
    <3>2. \A x \in Servers \ {s} : OnTheWay(x)' = OnTheWay(x)
      BY <1>1 DEF OnTheWay, V!ToSet
    <3> QED BY <3>1, <3>2
  <2>3. Paired' /\ Addressed'
    BY <1>2, <1>3, <2>2 DEF Paired, Addressed
  <2>4. Followed'
    <3>1. up \subseteq Servers /\ up \subseteq up' /\ lost' = lost
      BY DEF CallTypes
    <3> HIDE <1>4 DEF V!CreateService
    <3> QED BY <1>2, <1>3, <2>2, <3>1 DEF Followed
  <2> QED BY <2>1, <2>3, <2>4
<1>5. CASE V!TakeRequest(s)
  <2> DEFINE first == Head(queue[s])
  <2>1. queue[s] # <<>> /\ held' = [held EXCEPT ![s] = held[s] \cup {first}]
        /\ queue' = [queue EXCEPT ![s] = Tail(queue[s])] /\ UNCHANGED <<up, lost>>
    BY <1>5 DEF V!TakeRequest
  <2>2. first \in Letters
    BY <1>1, <2>1
  <2>3. Tail(queue[s]) \in Seq(Letters) /\ V!ToSet(queue[s]) = V!ToSet(Tail(queue[s])) \cup {first}
    BY <1>1, <2>1, <2>2, QueueSets
  <2> HIDE DEF first
  <2>4. CallTypes'
    BY <1>2, <2>1, <2>2, <2>3 DEF CallTypes
  <2>5. \A x \in Servers : OnTheWay(x)' = OnTheWay(x)
    <3>1. OnTheWay(s)' = OnTheWay(s)
      BY <1>1, <2>1, <2>3 DEF OnTheWay, V!ToSet
    <3>2. \A x \in Servers \ {s} : OnTheWay(x)' = OnTheWay(x)
      BY <1>1, <2>1 DEF OnTheWay, V!ToSet
    <3> QED BY <3>1, <3>2
  <2>6. Paired' /\ Addressed'
    BY <1>2, <1>3, <2>1, <2>5 DEF Paired, Addressed
  <2>7. Followed'
    <3>1. up \subseteq Servers /\ up' = up /\ lost' = lost
      BY <2>1 DEF CallTypes
    <3> QED BY <1>2, <1>3, <2>5, <3>1 DEF Followed
  <2> QED BY <2>4, <2>6, <2>7
<1>6. ASSUME NEW r \in held[s], V!CancelResponse(s, r)
      PROVE  CallInv'
  <2> USE <1>6 DEF V!CancelResponse
  <2>1. CallTypes'
    BY DEF CallTypes
  <2>2. /\ OnTheWay(s)' \subseteq OnTheWay(s) /\ OnTheWay(s) \subseteq OnTheWay(s)' \cup {r}
        /\ \A x \in Servers \ {s} : OnTheWay(x)' = OnTheWay(x)
    BY <1>1 DEF OnTheWay, V!ToSet
  <2>3. \A d \in Clients : r.born = client[d].born => <<r.born, r.seqno>> \in lost'
    BY LostIs
  <2>4. Followed'
    <3>1. SUFFICES ASSUME NEW d \in Clients, V!Exists(d), NEW m \in client[d].pending,
                          m \notin client[d].sending, <<client[d].born, m>> \notin lost',
                          \A a \in Answered(d) : a.seqno # m
                   PROVE  \E x \in up : \E y \in OnTheWay(x)' :
                            y.born = client[d].born /\ y.seqno = m
      <4>1. UNCHANGED <<client, up>>
        BY <1>2
      <4>2. SUFFICES ASSUME NEW d \in Clients, V!Exists(d)', NEW m \in client'[d].pending
                     PROVE  \/ m \in client'[d].sending
                            \/ <<client'[d].born, m>> \in lost'
                            \/ \E x \in up' : \E y \in OnTheWay(x)' :
                                 y.born = client'[d].born /\ y.seqno = m
                            \/ \E a \in Answered(d)' : a.seqno = m
        BY DEF Followed
      <4>3. V!Exists(d) /\ client'[d] = client[d] /\ up' = up /\ Answered(d)' = Answered(d)
        BY <1>3, <4>1, <4>2
      <4> HIDE <1>6 DEF V!CancelResponse
      <4> QED BY <3>1, <4>3
    <3>2. PICK x \in up : \E y \in OnTheWay(x) : y.born = client[d].born /\ y.seqno = m
      BY <3>1 DEF Followed
    <3>3. PICK y \in OnTheWay(x) : y.born = client[d].born /\ y.seqno = m
      BY <3>2
    <3>4. y # r
      BY <2>3, <3>1, <3>3
    <3> QED BY <2>2, <3>3, <3>4 DEF CallTypes
  <2>5. Paired' /\ Addressed'
    BY <1>2, <1>3, <2>2 DEF Paired, Addressed
  <2> QED BY <2>1, <2>4, <2>5
<1> QED BY <1>4, <1>5, <1>6

\* A response goes to the one client whose topic the request names, or is said to be lost.
LEMMA SendResponseKeeps ==
  ASSUME NodeAssumption, CallInv, NEW s \in Servers, NEW r \in held[s], V!SendResponse(s, r)
  PROVE  CallInv'
<1> DEFINE longer == [c \in Clients |->
                        IF V!Answers(r, c) THEN Append(inbox[c], r) ELSE inbox[c]]
<1>1. /\ held' = [held EXCEPT ![s] = held[s] \ {r}]
      /\ inbox' = [c \in Clients |-> V!Keep(longer[c])]
      /\ lost' = lost \cup V!Calls(UNION {V!Dropped(longer[c]) : c \in Clients})
      /\ UNCHANGED <<nextId, client, up, queue, created>>
      /\ s \in up
  BY DEF V!SendResponse
<1>2. /\ DOMAIN held = Servers /\ held[s] \subseteq Letters /\ r \in Letters
      /\ inbox \in [Clients -> Seq(Letters)] /\ up \subseteq Servers
  BY DEF CallInv, CallTypes
<1>3. \A c \in Clients : V!Exists(c) =>
        (r.id = client[c].id <=> r.born = client[c].born)
  <2>1. r \in OnTheWay(s)
    BY DEF OnTheWay
  <2> QED BY <2>1 DEF CallInv, Paired
<1>4. ASSUME NEW c \in Clients
      PROVE  /\ longer[c] \in Seq(Letters)
             /\ V!ToSet(longer[c]) = Answered(c) \cup (IF V!Answers(r, c) THEN {r} ELSE {})
  BY <1>2, QueueSets DEF Answered
<1> HIDE DEF longer
<1>5. ASSUME NEW c \in Clients
      PROVE  /\ inbox'[c] \in Seq(Letters)
             /\ Answered(c) \cup (IF V!Answers(r, c) THEN {r} ELSE {})
                  = Answered(c)' \cup V!Dropped(longer[c])
  BY <1>1, <1>4, KeepSets DEF Answered, V!ToSet
<1>6. CallTypes'
  <2>1. inbox' \in [Clients -> Seq(Letters)]
    BY <1>1, <1>5
  <2> QED BY <1>1, <1>2, <2>1 DEF CallTypes, CallInv
<1>7. /\ OnTheWay(s)' \subseteq OnTheWay(s) /\ OnTheWay(s) \subseteq OnTheWay(s)' \cup {r}
      /\ \A x \in Servers \ {s} : OnTheWay(x)' = OnTheWay(x)
  BY <1>1, <1>2 DEF OnTheWay, V!ToSet
<1>8. \A c \in Clients : V!Exists(c)' <=> V!Exists(c)
  BY <1>1 DEF V!Exists
<1>9. \A c \in Clients : \A a \in Answered(c)' : V!Exists(c) /\ a.born = client[c].born
  <2>1. SUFFICES ASSUME NEW c \in Clients, NEW a \in Answered(c)'
                 PROVE  V!Exists(c) /\ a.born = client[c].born
    OBVIOUS
  <2>2. a \in Answered(c) \/ (V!Answers(r, c) /\ a = r)
    BY <1>5
  <2>3. V!Answers(r, c) => V!Exists(c) /\ client[c].id = r.id
    BY DEF V!Answers
  <2> QED BY <1>3, <2>2, <2>3 DEF CallInv, Addressed
<1>10. \A c, d \in Clients : \A a \in V!Dropped(longer[c]) :
         a.born = client[d].born => <<a.born, a.seqno>> \in lost'
  BY <1>1, LostIs
<1>11. Followed'
  <2>1. SUFFICES ASSUME NEW d \in Clients, V!Exists(d), NEW m \in client[d].pending,
                        m \notin client[d].sending, <<client[d].born, m>> \notin lost',
                        \A a \in Answered(d)' : a.seqno # m
                 PROVE  \E x \in up : \E y \in OnTheWay(x)' : y.born = client[d].born /\ y.seqno = m
    <3>1. SUFFICES ASSUME NEW d \in Clients, V!Exists(d)', NEW m \in client'[d].pending
                   PROVE  \/ m \in client'[d].sending
                          \/ <<client'[d].born, m>> \in lost'
                          \/ \E x \in up' : \E y \in OnTheWay(x)' :
                               y.born = client'[d].born /\ y.seqno = m
                          \/ \E a \in Answered(d)' : a.seqno = m
      BY DEF Followed
    <3>2. V!Exists(d) /\ client' = client /\ up' = up
      BY <1>1, <1>8, <3>1
    <3> QED BY <2>1, <3>2
  <2>2. ASSUME NEW a \in Answered(d)
        PROVE  a.seqno # m
    <3>1. a.born = client[d].born /\ (a \in Answered(d)' \/ a \in V!Dropped(longer[d]))
      BY <1>5 DEF CallInv, Addressed
    <3> QED BY <1>10, <2>1, <3>1
  <2>3. PICK x \in up : \E y \in OnTheWay(x) : y.born = client[d].born /\ y.seqno = m
    BY <1>1, <2>1, <2>2 DEF CallInv, Followed
  <2>4. PICK y \in OnTheWay(x) : y.born = client[d].born /\ y.seqno = m
    BY <2>3
  <2>5. ~(y = r)
    <3>1. SUFFICES ASSUME y = r PROVE FALSE
      OBVIOUS
    <3>2. V!Answers(r, d)
      BY <1>3, <2>1, <2>4, <3>1 DEF V!Answers
    <3>3. r \in Answered(d)' \/ r \in V!Dropped(longer[d])
      BY <1>5, <3>2
    <3> QED BY <1>10, <2>1, <2>4, <3>1, <3>3
  <2> QED BY <1>2, <1>7, <2>4, <2>5
<1>12. ASSUME NEW x \in Servers, NEW y \in OnTheWay(x)'
       PROVE  /\ y.id < nextId /\ y.born =< created
              /\ \A c \in Clients : V!Exists(c) => (y.id = client[c].id <=> y.born = client[c].born)
  BY <1>7, <1>12 DEF CallInv, Paired
<1>13. \A x \in Servers \ up' : OnTheWay(x)' = {}
  BY <1>1, <1>7 DEF CallInv, Paired
<1> QED BY <1>1, <1>6, <1>8, <1>9, <1>11, <1>12, <1>13, SameClients

\* A server leaves with the requests it has, all of which are then known to be lost.
LEMMA DestroyServiceKeeps ==
  ASSUME CallInv, NEW s \in Servers, V!DestroyService(s)
  PROVE  CallInv'
<1> USE DEF CallInv
<1>1. /\ up' = up \ {s}
      /\ queue' = [queue EXCEPT ![s] = <<>>] /\ held' = [held EXCEPT ![s] = {}]
      /\ lost' = lost \cup V!Calls(OnTheWay(s))
      /\ UNCHANGED <<client, inbox, created>>
      /\ nextId' = nextId \/ (nextId' = 0 /\ up' = {} /\ \A c \in Clients : ~V!Exists(c))
  BY DEF V!DestroyService, V!IdAfter, OnTheWay
<1>2. CallTypes'
  BY <1>1 DEF CallTypes
<1>3. OnTheWay(s)' = {} /\ \A x \in Servers \ {s} : OnTheWay(x)' = OnTheWay(x)
  BY <1>1 DEF OnTheWay, V!ToSet, CallTypes
<1>4. \A c \in Clients : (V!Exists(c)' <=> V!Exists(c)) /\ Answered(c)' = Answered(c)
  BY <1>1 DEF V!Exists, Answered, V!ToSet
<1>5. Addressed'
  BY <1>1, <1>4 DEF Addressed
<1>6. Paired'
  <2>1. CASE nextId' = nextId
    BY <1>1, <1>3, <1>4, <2>1 DEF Paired
  <2>2. CASE up' = {} /\ \A c \in Clients : ~V!Exists(c)
    <3>1. \A x \in Servers : OnTheWay(x)' = {}
      BY <1>1, <1>3, <2>2 DEF Paired
    <3> QED BY <1>4, <2>2, <3>1 DEF Paired
  <2> QED BY <1>1, <2>1, <2>2
<1>7. Followed'
  <2>1. SUFFICES ASSUME NEW d \in Clients, V!Exists(d), NEW m \in client[d].pending,
                        m \notin client[d].sending, <<client[d].born, m>> \notin lost',
                        \A a \in Answered(d) : a.seqno # m
                 PROVE  \E x \in up' : \E y \in OnTheWay(x)' : y.born = client[d].born /\ y.seqno = m
    <3>1. SUFFICES ASSUME NEW d \in Clients, V!Exists(d)', NEW m \in client'[d].pending
                   PROVE  \/ m \in client'[d].sending
                          \/ <<client'[d].born, m>> \in lost'
                          \/ \E x \in up' : \E y \in OnTheWay(x)' :
                               y.born = client'[d].born /\ y.seqno = m
                          \/ \E a \in Answered(d)' : a.seqno = m
      BY DEF Followed
    <3>2. V!Exists(d) /\ client' = client /\ Answered(d)' = Answered(d)
      BY <1>1, <1>4, <3>1
    <3> QED BY <2>1, <3>2
  <2>2. PICK x \in up : \E y \in OnTheWay(x) : y.born = client[d].born /\ y.seqno = m
    BY <1>1, <2>1 DEF Followed
  <2>3. PICK y \in OnTheWay(x) : y.born = client[d].born /\ y.seqno = m
    BY <2>2
  <2>4. x # s
    BY <1>1, <2>1, <2>3, LostIs
  <2> QED BY <1>1, <1>3, <2>3, <2>4 DEF CallTypes
<1> QED BY <1>2, <1>5, <1>6, <1>7

\* Every step of the part keeps the invariant, and so do the steps of other parts.
LEMMA CallsNext ==
  ASSUME NodeAssumption, CallInv, V!Next \/ UNCHANGED callVars
  PROVE  CallInv'
<1>1. CASE UNCHANGED callVars
  <2> USE <1>1 DEF callVars
  <2>1. CallTypes'
    BY DEF CallTypes, CallInv
  <2>2. /\ \A c \in Clients : (V!Exists(c)' <=> V!Exists(c)) /\ Answered(c)' = Answered(c)
        /\ \A s \in Servers : OnTheWay(s)' = OnTheWay(s)
    BY DEF V!Exists, Answered, OnTheWay, V!ToSet
  <2>3. up \subseteq Servers
    BY DEF CallInv, CallTypes
  <2> QED BY <2>1, <2>2, <2>3 DEF CallInv, Paired, Addressed, Followed
<1>2. CASE V!Next
  <2>1. ASSUME NEW s \in Servers, V!DestroyService(s)
        PROVE  CallInv'
    BY <2>1, DestroyServiceKeeps
  <2>2. ASSUME NEW s \in Servers,
               V!CreateService(s) \/ V!TakeRequest(s) \/ \E r \in held[s] : V!CancelResponse(s, r)
        PROVE  CallInv'
    BY <2>2, ServerKeeps
  <2>3. ASSUME NEW s \in Servers, NEW r \in held[s], V!SendResponse(s, r)
        PROVE  CallInv'
    BY <2>3, SendResponseKeeps
  <2>4. ASSUME NEW c \in Clients, V!CreateClient(c) \/ V!DestroyClient(c)
        PROVE  CallInv'
    BY <2>4, CreateClientKeeps, DestroyClientKeeps
  <2>5. ASSUME NEW c \in Clients, NEW n,
               \/ V!BorrowRequest(c) \/ V!ReceiveResponse(c)
               \/ V!CancelRequest(c, n) \/ V!RegisterCall(c, n)
        PROVE  CallInv'
    BY <2>5, ClientKeeps
  <2>6. ASSUME NEW c \in Clients, NEW n, V!PublishRequest(c, n)
        PROVE  CallInv'
    BY <2>6, PublishRequestKeeps
  <2> QED BY <1>2, <2>1, <2>2, <2>3, <2>4, <2>5, <2>6 DEF V!Next
<1> QED BY <1>1, <1>2

\* The invariant in the words of the properties.
LEMMA CallsImply ==
  ASSUME CallInv
  PROVE  V!NoCrossTalk /\ V!NoOrphanCall
<1>1. V!NoCrossTalk
  <2>1. SUFFICES ASSUME NEW c \in Clients, NEW i \in DOMAIN inbox[c]
                 PROVE  inbox[c][i].born = client[c].born
    BY DEF V!NoCrossTalk
  <2>2. inbox[c][i] \in Answered(c)
    BY DEF Answered, V!ToSet
  <2> QED BY <2>2 DEF CallInv, Addressed
<1>2. V!NoOrphanCall
  <2>1. SUFFICES ASSUME NEW c \in Clients, V!Exists(c), NEW n \in client[c].pending,
                        n \notin client[c].sending, <<client[c].born, n>> \notin lost,
                        \A i \in DOMAIN inbox[c] : inbox[c][i].seqno # n
                 PROVE  \E s \in up : \E r \in held[s] \cup V!ToSet(queue[s]) :
                          r.born = client[c].born /\ r.seqno = n
    BY DEF V!NoOrphanCall
  <2>2. \A r \in Answered(c) : r.seqno # n
    BY <2>1 DEF Answered, V!ToSet
  <2> QED BY <2>1, <2>2 DEF CallInv, Followed, OnTheWay
<1> QED BY <1>1, <1>2

-----------------------------------------------------------------------------
\* Service bridges

\* The calls in the deque, and the ones that were sent.
Waiting == V!ToSet(deque)
Sent == V!ToSet(order)

\* The types of the A2R end; calls are numbered from one.
ForwardTypes ==
  /\ callsArrived \in Nat
  /\ deque \in Seq(1..callsArrived) /\ order \in Seq(1..callsArrived)
  /\ Len(deque) =< kMaxPendingRequests
  /\ sending \in 0..callsArrived
  /\ calls \subseteq 1..callsArrived /\ DOMAIN fate \subseteq 1..callsArrived

\* A sequence of calls in their order of arrival.
InOrder(s) == \A i, j \in DOMAIN s : i < j => s[i] < s[j]

\* What waits came after all that was sent.
SentFirst == InOrder(deque) /\ InOrder(order) /\ \A r \in Sent, w \in Waiting : r < w

\* No call is forgotten, none is in two places, and what is not over was sent or waits.
EachOnce ==
  /\ \A r \in 1..callsArrived : r \in Waiting \/ r = sending \/ r \in calls \/ r \in DOMAIN fate
  /\ \A r \in Waiting : r # sending /\ r \notin calls /\ r \notin DOMAIN fate
  /\ sending \notin calls /\ sending \notin DOMAIN fate
  /\ calls \cap DOMAIN fate = {}

\* The ROS 2 service has, or has answered, the calls that wait for it.
WithService ==
  /\ calls \cup (IF sending = 0 THEN {} ELSE {sending}) = wire \cup responses
  /\ wire \cap responses = {}

\* The deque gives up the oldest request.
OldestDropped ==
  \A r \in DOMAIN fate : fate[r] = "dropped" => r \notin Sent /\ \A w \in Waiting : r < w

\* The calls of the other direction.
OtherDirection ==
  /\ r2aArrived \in Nat
  /\ forwarded \cup DOMAIN r2aFate = 1..r2aArrived /\ forwarded \cap DOMAIN r2aFate = {}

\* The inductive invariant of a service bridge.
ForwardInv ==
  ForwardTypes /\ SentFirst /\ EachOnce /\ WithService /\ OldestDropped /\ OtherDirection

\* Adding a later call to calls in order, and taking the first away.
LEMMA OrderKept ==
  ASSUME NEW m \in Nat, NEW s \in Seq(1..m), InOrder(s)
  PROVE  /\ s # <<>> => /\ Tail(s) \in Seq(1..m) /\ InOrder(Tail(s)) /\ Head(s) \in 1..m
                        /\ V!ToSet(s) = V!ToSet(Tail(s)) \cup {Head(s)}
                        /\ \A w \in V!ToSet(Tail(s)) : Head(s) < w
                        /\ Len(Tail(s)) = Len(s) - 1
         /\ \A r \in 1..m : 
              /\ Append(s, r) \in Seq(1..m) /\ V!ToSet(Append(s, r)) = V!ToSet(s) \cup {r}
              /\ (\A w \in V!ToSet(s) : w < r) => InOrder(Append(s, r))
<1>1. DOMAIN s = 1..Len(s) /\ Len(s) \in Nat /\ \A i \in 1..Len(s) : s[i] \in 1..m
  OBVIOUS
<1>2. ASSUME s # <<>>
      PROVE  /\ Tail(s) \in Seq(1..m) /\ InOrder(Tail(s)) /\ Head(s) \in 1..m
             /\ V!ToSet(s) = V!ToSet(Tail(s)) \cup {Head(s)}
             /\ \A w \in V!ToSet(Tail(s)) : Head(s) < w
             /\ Len(Tail(s)) = Len(s) - 1
  <2>1. /\ Tail(s) \in Seq(1..m) /\ DOMAIN Tail(s) = 1..Len(s) - 1 /\ Len(Tail(s)) = Len(s) - 1
        /\ \A i \in 1..Len(s) - 1 : Tail(s)[i] = s[i + 1]
        /\ Head(s) = s[1] /\ Len(s) >= 1 /\ Head(s) \in 1..m
    BY <1>2
  <2>2. V!ToSet(s) = V!ToSet(Tail(s)) \cup {Head(s)}
    BY <1>2, <2>1, QueueSets
  <2>3. InOrder(Tail(s))
    <3>1. \A i, j \in 1..Len(s) - 1 : i < j => i + 1 \in 1..Len(s) /\ j + 1 \in 1..Len(s) /\ i + 1 < j + 1
      BY <1>1
    <3> QED BY <1>1, <2>1, <3>1 DEF InOrder
  <2>4. ASSUME NEW w \in V!ToSet(Tail(s))
        PROVE  Head(s) < w
    <3>1. PICK i \in 1..Len(s) - 1 : w = s[i + 1]
      BY <2>1 DEF V!ToSet
    <3>2. 1 \in 1..Len(s) /\ i + 1 \in 1..Len(s) /\ 1 < i + 1
      BY <1>1, <2>1
    <3> QED BY <1>1, <2>1, <3>1, <3>2 DEF InOrder
  <2> QED BY <2>1, <2>2, <2>3, <2>4
<1>3. ASSUME NEW r \in 1..m, \A w \in V!ToSet(s) : w < r
      PROVE  InOrder(Append(s, r))
  <2>1. /\ DOMAIN Append(s, r) = 1..Len(s) + 1
        /\ \A i \in 1..Len(s) : Append(s, r)[i] = s[i]
        /\ Append(s, r)[Len(s) + 1] = r
    OBVIOUS
  <2>2. \A i \in 1..Len(s) : s[i] < r
    BY <1>1, <1>3 DEF V!ToSet
  <2>3. \A i, j \in 1..Len(s) + 1 : i < j => i \in 1..Len(s) /\ (j \in 1..Len(s) \/ j = Len(s) + 1)
    BY <1>1
  <2> QED BY <1>1, <2>1, <2>2, <2>3 DEF InOrder
<1>4. \A r \in 1..m :
        Append(s, r) \in Seq(1..m) /\ V!ToSet(Append(s, r)) = V!ToSet(s) \cup {r}
  BY QueueSets
<1> QED BY <1>2, <1>3, <1>4

\* No call has arrived at first.
LEMMA ForwardInit ==
  ASSUME NodeAssumption, F!Init
  PROVE  ForwardInv
<1> USE DEF F!Init, F!None
<1>1. ForwardTypes
  BY DEF ForwardTypes, NodeAssumption
<1>2. Waiting = {} /\ Sent = {} /\ DOMAIN fate = {}
  BY DEF Waiting, Sent, V!ToSet
<1>3. SentFirst
  BY <1>2 DEF SentFirst, InOrder
<1>4. EachOnce /\ WithService /\ OldestDropped /\ OtherDirection
  BY <1>2 DEF EachOnce, WithService, OldestDropped, OtherDirection
<1> QED BY <1>1, <1>3, <1>4 DEF ForwardInv

\* A request arrives; a full deque gives up its oldest (service_bridge.hpp: add_request).
LEMMA RequestArrivesKeeps ==
  ASSUME NodeAssumption, ForwardInv, F!RequestArrives
  PROVE  ForwardInv'
<1> DEFINE new == callsArrived + 1
<1>1. /\ callsArrived' = new
      /\ F!add_request(new)
      /\ UNCHANGED <<sending, wire, responses, calls, order, forwarded, r2aFate, r2aArrived>>
  BY DEF F!RequestArrives, F!r2aVars
<1>2. /\ callsArrived \in Nat /\ new \in Nat /\ new \in 1..new /\ 1..callsArrived \subseteq 1..new
      /\ new \notin 1..callsArrived /\ new # 0 /\ \A r \in 1..callsArrived : r < new
      /\ \A r \in 1..new : r \in 1..callsArrived \/ r = new
  BY DEF ForwardInv, ForwardTypes
<1>3. /\ deque \in Seq(1..new) /\ order \in Seq(1..new) /\ sending \in 0..new
      /\ calls \subseteq 1..new /\ DOMAIN fate \subseteq 1..new /\ sending # new /\ new \notin calls
      /\ new \notin DOMAIN fate
  BY <1>2 DEF ForwardInv, ForwardTypes
<1>4. /\ Waiting \subseteq 1..callsArrived /\ Sent \subseteq 1..callsArrived
      /\ Sent' = Sent
  BY <1>1 DEF ForwardInv, ForwardTypes, Waiting, Sent, V!ToSet
<1>5. InOrder(deque) /\ InOrder(order) /\ \A r \in Sent, w \in Waiting : r < w
  BY DEF ForwardInv, SentFirst
<1>6. OtherDirection' /\ WithService'
  BY <1>1 DEF ForwardInv, OtherDirection, WithService
<1> HIDE DEF new
<1>7. CASE Len(deque) < kMaxPendingRequests
  <2>1. deque' = Append(deque, new) /\ fate' = fate
    BY <1>1, <1>7 DEF F!add_request
  <2>2. deque' \in Seq(1..new) /\ Waiting' = Waiting \cup {new}
    <3>1. /\ Append(deque, new) \in Seq(1..new)
          /\ V!ToSet(Append(deque, new)) = V!ToSet(deque) \cup {new}
      BY <1>2, <1>3, <1>5, OrderKept
    <3>2. Waiting' = V!ToSet(Append(deque, new))
      BY <2>1 DEF Waiting, V!ToSet
    <3> QED BY <2>1, <3>1, <3>2 DEF Waiting
  <2>3. InOrder(deque')
    BY <1>2, <1>3, <1>4, <1>5, <2>1, OrderKept DEF Waiting
  <2>4. Len(deque') =< kMaxPendingRequests
    BY <1>3, <1>7, <2>1 DEF NodeAssumption
  <2>5. ForwardTypes'
    BY <1>1, <1>2, <1>3, <2>1, <2>2, <2>4 DEF ForwardTypes
  <2>6. SentFirst'
    <3>1. InOrder(order')
      BY <1>1, <1>5
    <3> QED BY <1>2, <1>4, <1>5, <2>2, <2>3, <3>1 DEF SentFirst, InOrder
  <2>7. EachOnce'
    BY <1>1, <1>2, <1>3, <2>1, <2>2 DEF ForwardInv, EachOnce
  <2>8. OldestDropped'
    BY <1>2, <1>3, <1>4, <2>1, <2>2 DEF ForwardInv, OldestDropped, ForwardTypes
  <2> QED BY <1>6, <2>5, <2>6, <2>7, <2>8 DEF ForwardInv
<1>8. CASE ~(Len(deque) < kMaxPendingRequests)
  <2> DEFINE old == Head(deque)
             rest == Tail(deque)
  <2>1. deque' = Append(rest, new) /\ fate' = F!Ends(fate, old, "dropped")
    BY <1>1, <1>8 DEF F!add_request
  <2>2. deque # <<>>
    BY <1>8 DEF NodeAssumption
  <2>3. /\ rest \in Seq(1..new) /\ InOrder(rest) /\ old \in 1..new
        /\ Waiting = V!ToSet(rest) \cup {old}
        /\ \A w \in V!ToSet(rest) : old < w
        /\ Len(rest) = Len(deque) - 1
    BY <1>2, <1>3, <1>5, <2>2, OrderKept DEF Waiting
  <2> HIDE DEF old, rest
  <2>4. deque' \in Seq(1..new) /\ Waiting' = V!ToSet(rest) \cup {new}
    <3>1. /\ Append(rest, new) \in Seq(1..new)
          /\ V!ToSet(Append(rest, new)) = V!ToSet(rest) \cup {new}
      BY <1>2, <2>3, OrderKept
    <3>2. Waiting' = V!ToSet(Append(rest, new))
      BY <2>1 DEF Waiting, V!ToSet
    <3> QED BY <2>1, <3>1, <3>2
  <2>5. \A w \in V!ToSet(rest) : w < new /\ w \in 1..callsArrived
    BY <1>2, <1>4, <2>3
  <2>6. InOrder(deque')
    BY <1>2, <2>1, <2>3, <2>5, OrderKept
  <2>7. Len(deque') =< kMaxPendingRequests
    <3>1. Len(deque') = Len(rest) + 1
      BY <2>1, <2>3
    <3> QED BY <1>3, <2>3, <3>1 DEF NodeAssumption, ForwardInv, ForwardTypes
  <2>8. old \in Waiting /\ old < new /\ old \in 1..callsArrived /\ old \notin V!ToSet(rest)
    BY <1>2, <1>4, <2>3
  <2>9. DOMAIN fate' = DOMAIN fate \cup {old}
    BY <2>1 DEF F!Ends
  <2>10. ForwardTypes'
    BY <1>1, <1>2, <1>3, <2>3, <2>4, <2>7, <2>9 DEF ForwardTypes
  <2>11. SentFirst'
    <3>1. InOrder(order')
      BY <1>1, <1>5
    <3> QED BY <1>2, <1>4, <1>5, <2>3, <2>4, <2>6, <3>1 DEF SentFirst, InOrder
  <2>12. EachOnce'
    BY <1>1, <1>2, <1>3, <2>3, <2>4, <2>5, <2>8, <2>9 DEF ForwardInv, EachOnce
  <2>13. OldestDropped'
    <3>1. ASSUME NEW r \in DOMAIN fate', fate'[r] = "dropped"
          PROVE  r \notin Sent /\ \A w \in Waiting' : r < w
      <4>1. CASE r = old
        <5>1. old \notin Sent
          BY <1>2, <1>4, <1>5, <2>8
        <5> QED BY <2>3, <2>4, <2>8, <4>1, <5>1
      <4>2. CASE r # old
        <5>1. r \in DOMAIN fate /\ fate[r] = "dropped"
          BY <2>1, <2>9, <3>1, <4>2 DEF F!Ends
        <5>2. r \notin Sent /\ \A w \in Waiting : r < w
          BY <5>1 DEF ForwardInv, OldestDropped
        <5>3. r < new
          BY <1>2, <5>1 DEF ForwardInv, ForwardTypes
        <5> QED BY <2>3, <2>4, <5>2, <5>3
      <4> QED BY <4>1, <4>2
    <3> QED BY <1>4, <3>1 DEF OldestDropped
  <2> QED BY <1>6, <2>10, <2>11, <2>12, <2>13 DEF ForwardInv
<1> QED BY <1>7, <1>8

\* The first request that waits is sent.
LEMMA SendRequestKeeps ==
  ASSUME NodeAssumption, ForwardInv, F!SendRequest
  PROVE  ForwardInv'
<1> DEFINE old == Head(deque)
           rest == Tail(deque)
<1>1. /\ sending = 0 /\ deque # <<>> /\ sending' = old /\ deque' = rest
      /\ wire' = wire \cup {old} /\ order' = Append(order, old)
      /\ UNCHANGED <<responses, calls, fate, callsArrived, forwarded, r2aFate, r2aArrived>>
  BY DEF F!SendRequest, F!None, F!r2aVars
<1>2. callsArrived \in Nat /\ deque \in Seq(1..callsArrived) /\ order \in Seq(1..callsArrived)
      /\ InOrder(deque) /\ InOrder(order)
  BY DEF ForwardInv, ForwardTypes, SentFirst
<1>3. /\ rest \in Seq(1..callsArrived) /\ InOrder(rest) /\ old \in 1..callsArrived
      /\ Waiting = V!ToSet(rest) \cup {old}
      /\ \A w \in V!ToSet(rest) : old < w
      /\ Len(rest) = Len(deque) - 1
  BY <1>1, <1>2, OrderKept DEF Waiting
<1> HIDE DEF old, rest
<1>4. Waiting' = V!ToSet(rest)
  BY <1>1 DEF Waiting, V!ToSet
<1>5. order' \in Seq(1..callsArrived) /\ Sent' = Sent \cup {old}
  <2>1. /\ Append(order, old) \in Seq(1..callsArrived)
        /\ V!ToSet(Append(order, old)) = V!ToSet(order) \cup {old}
    BY <1>2, <1>3, OrderKept
  <2>2. Sent' = V!ToSet(Append(order, old))
    BY <1>1 DEF Sent, V!ToSet
  <2> QED BY <1>1, <2>1, <2>2 DEF Sent
<1>6. old \in Waiting /\ old # 0 /\ old \notin V!ToSet(rest) /\ \A r \in Sent : r < old
  BY <1>3 DEF ForwardInv, SentFirst
<1>7. InOrder(order')
  BY <1>1, <1>2, <1>3, <1>6, OrderKept DEF Sent
<1>8. ForwardTypes'
  <2>1. Len(deque') =< kMaxPendingRequests
    BY <1>1, <1>2, <1>3 DEF NodeAssumption, ForwardInv, ForwardTypes
  <2> QED BY <1>1, <1>2, <1>3, <1>5, <2>1 DEF ForwardInv, ForwardTypes
<1>9. SentFirst'
  <2>1. InOrder(deque')
    BY <1>1, <1>3
  <2> QED BY <1>3, <1>4, <1>5, <1>6, <1>7, <2>1 DEF ForwardInv, SentFirst, InOrder
<1>10. EachOnce'
  BY <1>1, <1>3, <1>4, <1>6 DEF ForwardInv, EachOnce
<1>11. WithService'
  <2>1. old \notin calls /\ old \notin wire \cup responses
    BY <1>1, <1>6 DEF ForwardInv, EachOnce, WithService
  <2> QED BY <1>1, <1>6, <2>1 DEF ForwardInv, WithService
<1>12. OldestDropped' /\ OtherDirection'
  <2>1. old \notin DOMAIN fate
    BY <1>6 DEF ForwardInv, EachOnce
  <2> QED BY <1>1, <1>3, <1>4, <1>5, <1>6, <2>1 DEF ForwardInv, OldestDropped, OtherDirection
<1> QED BY <1>8, <1>9, <1>10, <1>11, <1>12 DEF ForwardInv

\* The remaining steps of the A2R end, the ROS 2 service and the other direction.
LEMMA BridgeStepsKeep ==
  ASSUME ForwardInv,
         \/ F!EnterCall \/ F!RosService \/ F!RosRequest
         \/ \E r \in 1..MaxCalls : F!handle_response(r)
         \/ \E r \in 1..MaxR2aCalls : F!AgnocastResponse(r)
  PROVE  ForwardInv'
<1> USE DEF ForwardInv, F!None
<1>1. CASE F!EnterCall
  <2> USE <1>1 DEF F!EnterCall, F!r2aVars
  <2>1. ForwardTypes'
    BY DEF ForwardTypes
  <2>2. Waiting' = Waiting /\ Sent' = Sent
    BY DEF Waiting, Sent, V!ToSet
  <2>3. 0 \notin Waiting /\ 0 \notin calls /\ 0 \notin DOMAIN fate /\ 0 \notin 1..callsArrived
    BY DEF ForwardTypes, Waiting, V!ToSet
  <2>4. SentFirst' /\ EachOnce'
    BY <2>2, <2>3 DEF SentFirst, InOrder, EachOnce, ForwardTypes
  <2>5. WithService' /\ OldestDropped' /\ OtherDirection'
    BY <2>2 DEF WithService, OldestDropped, OtherDirection
  <2> QED BY <2>1, <2>4, <2>5
<1>2. CASE F!RosService
  <2> USE <1>2 DEF F!RosService, F!r2aVars
  <2>1. UNCHANGED <<deque, order, sending, calls, fate, callsArrived, forwarded, r2aFate, r2aArrived>>
    OBVIOUS
  <2>2. Waiting' = Waiting /\ Sent' = Sent
    BY <2>1 DEF Waiting, Sent, V!ToSet
  <2>3. WithService'
    BY <2>1 DEF WithService
  <2> HIDE <1>2 DEF F!RosService
  <2> QED BY <2>1, <2>2, <2>3
          DEF ForwardTypes, SentFirst, InOrder, EachOnce, OldestDropped, OtherDirection
<1>3. CASE F!RosRequest
  <2> USE <1>3 DEF F!RosRequest, F!loaderVars, F!a2rVars
  <2>1. UNCHANGED <<deque, order, sending, calls, fate, callsArrived, wire, responses>>
    OBVIOUS
  <2>2. Waiting' = Waiting /\ Sent' = Sent
    BY <2>1 DEF Waiting, Sent, V!ToSet
  <2>3. OtherDirection'
    <3>1. r2aArrived \in Nat /\ 1..(r2aArrived + 1) = 1..r2aArrived \cup {r2aArrived + 1}
          /\ r2aArrived + 1 \notin 1..r2aArrived
      BY DEF OtherDirection
    <3> QED BY <3>1 DEF F!Ends, OtherDirection
  <2> HIDE <1>3 DEF F!RosRequest
  <2> QED BY <2>1, <2>2, <2>3
          DEF ForwardTypes, SentFirst, InOrder, EachOnce, OldestDropped, WithService
<1>4. ASSUME NEW r \in 1..MaxCalls, F!handle_response(r)
      PROVE  ForwardInv'
  <2>1. /\ r \in responses /\ sending = 0 /\ r \in calls
        /\ responses' = responses \ {r} /\ calls' = calls \ {r}
        /\ UNCHANGED <<deque, order, sending, callsArrived, wire, forwarded, r2aFate, r2aArrived>>
    BY <1>4 DEF F!handle_response, F!MutexFree, F!r2aVars, WithService
  <2>2. PICK how \in {"answered", "cancelled"} : fate' = F!Ends(fate, r, how)
    BY <1>4, <2>1 DEF F!handle_response, F!Respond
  <2>3. DOMAIN fate' = DOMAIN fate \cup {r} /\ fate'[r] # "dropped"
        /\ \A x \in DOMAIN fate \ {r} : fate'[x] = fate[x]
    BY <2>2 DEF F!Ends
  <2>4. Waiting' = Waiting /\ Sent' = Sent
    BY <2>1 DEF Waiting, Sent, V!ToSet
  <2>5. ForwardTypes' /\ SentFirst'
    BY <2>1, <2>3, <2>4 DEF ForwardTypes, SentFirst, InOrder
  <2>6. EachOnce'
    BY <2>1, <2>3, <2>4 DEF EachOnce, ForwardTypes
  <2>7. WithService'
    BY <2>1 DEF WithService
  <2>8. OldestDropped' /\ OtherDirection'
    BY <2>1, <2>3, <2>4 DEF OldestDropped, OtherDirection
  <2> QED BY <2>5, <2>6, <2>7, <2>8
<1>5. ASSUME NEW r \in 1..MaxR2aCalls, F!AgnocastResponse(r)
      PROVE  ForwardInv'
  <2> USE <1>5 DEF F!AgnocastResponse, F!loaderVars, F!a2rVars
  <2>1. UNCHANGED <<deque, order, sending, calls, fate, callsArrived, wire, responses>>
    OBVIOUS
  <2>2. Waiting' = Waiting /\ Sent' = Sent
    BY <2>1 DEF Waiting, Sent, V!ToSet
  <2>3. OtherDirection'
    BY DEF F!Ends, OtherDirection
  <2> HIDE <1>5 DEF F!AgnocastResponse
  <2> QED BY <2>1, <2>2, <2>3
          DEF ForwardTypes, SentFirst, InOrder, EachOnce, OldestDropped, WithService
<1> QED BY <1>1, <1>2, <1>3, <1>4, <1>5

\* Every step of the part keeps the invariant, and so do the steps of other parts.
LEMMA ForwardNext ==
  ASSUME NodeAssumption, ForwardInv, F!Next \/ UNCHANGED forwardVars
  PROVE  ForwardInv'
<1>1. ASSUME UNCHANGED <<deque, sending, wire, responses, calls, fate, order, callsArrived,
                         forwarded, r2aFate, r2aArrived>>
      PROVE  ForwardInv'
  <2>1. Waiting' = Waiting /\ Sent' = Sent
    BY <1>1 DEF Waiting, Sent, V!ToSet
  <2> QED BY <1>1, <2>1 DEF ForwardInv, ForwardTypes, SentFirst, InOrder, EachOnce, WithService,
                            OldestDropped, OtherDirection
<1>2. CASE UNCHANGED forwardVars
  BY <1>1, <1>2 DEF forwardVars
<1>3. CASE F!Install \/ F!CreateBridge
  BY <1>1, <1>3 DEF F!Install, F!CreateBridge, F!a2rVars, F!r2aVars
<1>4. CASE F!DrainTimer \/ F!send_requests \/ F!SendFails \/ F!SendRequestsDone
  BY <1>1, <1>4 DEF F!DrainTimer, F!send_requests, F!SendFails, F!SendRequestsDone, F!r2aVars
<1>5. CASE F!RequestArrives
  BY <1>5, RequestArrivesKeeps
<1>6. CASE F!SendRequest
  BY <1>6, SendRequestKeeps
<1>7. CASE \/ F!EnterCall \/ F!RosService \/ F!RosRequest
           \/ \E r \in 1..MaxCalls : F!handle_response(r)
           \/ \E r \in 1..MaxR2aCalls : F!AgnocastResponse(r)
  BY <1>7, BridgeStepsKeep
<1> QED BY <1>2, <1>3, <1>4, <1>5, <1>6, <1>7 DEF F!Next

\* The invariant in the words of the properties.
LEMMA ForwardImply ==
  ASSUME ForwardInv
  PROVE  F!ForwardedInOrder /\ F!CallsAccounted
<1> USE DEF ForwardInv
<1>1. F!ForwardedInOrder
  BY DEF SentFirst, InOrder, F!ForwardedInOrder
<1>2. /\ DOMAIN F!Places = 1..4
      /\ F!Places[1] = Waiting /\ F!Places[2] = {sending} \ {0}
      /\ F!Places[3] = calls /\ F!Places[4] = DOMAIN fate
  BY DEF F!Places, F!None, F!ToSet, V!ToSet, Waiting
<1>3. ASSUME NEW r \in 1..callsArrived
      PROVE  \E i \in DOMAIN F!Places :
               r \in F!Places[i] /\ \A j \in DOMAIN F!Places \ {i} : r \notin F!Places[j]
  <2>1. r # 0 /\ \A j : j \in 1..4 <=> j = 1 \/ j = 2 \/ j = 3 \/ j = 4
    BY DEF ForwardTypes
  <2>2. CASE r \in Waiting
    BY <1>2, <2>1, <2>2 DEF EachOnce
  <2>3. CASE r = sending
    BY <1>2, <2>1, <2>3 DEF EachOnce
  <2>4. CASE r \in calls
    BY <1>2, <2>1, <2>4 DEF EachOnce
  <2>5. CASE r \in DOMAIN fate
    BY <1>2, <2>1, <2>5 DEF EachOnce
  <2> QED BY <2>2, <2>3, <2>4, <2>5 DEF EachOnce
<1>4. \A r \in DOMAIN fate : fate[r] = "dropped" =>
        r \notin F!ToSet(order) /\ \A i \in DOMAIN deque : r < deque[i]
  BY DEF OldestDropped, Waiting, Sent, V!ToSet, F!ToSet
<1> QED BY <1>1, <1>3, <1>4 DEF F!CallsAccounted, WithService, F!None, OtherDirection, ForwardTypes

-----------------------------------------------------------------------------
\* The node

\* What all parts share: each has its variables to itself.
nodeVars == <<part, vars, timerVars, signalVars, serviceVars, filterVars>>

\* A step of the node is a step of the part, or leaves the part alone.
LEMMA PartsApart ==
  ASSUME [NodeNext]_nodeVars
  PROVE  /\ Next \/ UNCHANGED vars
         /\ T!Next \/ UNCHANGED timerVars
         /\ S!Next \/ UNCHANGED signalVars
         /\ V!Next \/ UNCHANGED callVars
         /\ F!Next \/ UNCHANGED forwardVars
<1>1. CASE UNCHANGED nodeVars
  BY <1>1 DEF nodeVars, serviceVars
<1>2. CASE NodeNext
  BY <1>2 DEF NodeNext, serviceVars
<1> QED BY <1>1, <1>2

\* No write goes to a closed eventfd, and every executor is told of a shutdown, whatever
\* thread the handler runs on and whenever it was dispatched (agnocast_signal_handler.cpp).
THEOREM SignalsDelivered == NodeSpec => []ShutdownDelivered
<1>1. NodeInit => SignalInv
  BY SignalsInit DEF NodeInit
<1>2. SignalInv /\ [NodeNext]_nodeVars => SignalInv'
  BY SignalsNext, PartsApart
<1>3. SignalInv => ShutdownDelivered
  BY SignalsImply
<1> QED BY <1>1, <1>2, <1>3, PTL DEF NodeSpec, nodeVars

\* A timer on simulated time is woken when its time has come, and none runs on two clocks
\* (agnocast_timer_info.cpp).
THEOREM TimersWoken == NodeSpec => []TimersFire
<1>1. NodeInit => TimerInv
  BY TimersInit DEF NodeInit
<1>2. TimerInv /\ [NodeNext]_nodeVars => TimerInv'
  BY NodeAssumption, TimersNext, PartsApart
<1>3. TimerInv => TimersFire
  BY DEF TimerInv, TimersFire
<1> QED BY <1>1, <1>2, <1>3, PTL DEF NodeSpec, nodeVars

\* The store of parameters agrees with the descriptors, and nothing gets into it past a
\* callback (node_parameters.cpp).
THEOREM StoreIsLegal == NodeSpec => ParametersLegal
<1>1. NodeInit => ParamsInv
  BY ParamsInit DEF NodeInit
<1>2. ParamsInv /\ [NodeNext]_nodeVars => ParamsInv' /\ [Vetoed]_vars
  BY NodeAssumption, ParamsNext, PartsApart
<1>3. ParamsInv => DescriptorsHold
  BY DEF ParamsInv
<1> QED BY <1>1, <1>2, <1>3, PTL DEF NodeSpec, nodeVars, ParametersLegal, VetoRespected, Vetoed

\* Responses reach the calls they answer, no call is forgotten, and a service bridge
\* passes requests on in order and accounts for each (service.hpp, client.hpp).
THEOREM EveryCallAnswered == NodeSpec => []CallsAnswered
<1>1. NodeInit => CallInv /\ ForwardInv
  BY NodeAssumption, CallsInit, ForwardInit DEF NodeInit
<1>2. CallInv /\ ForwardInv /\ [NodeNext]_nodeVars => CallInv' /\ ForwardInv'
  BY NodeAssumption, CallsNext, ForwardNext, PartsApart
<1>3. CallInv /\ ForwardInv => CallsAnswered
  BY CallsImply, ForwardImply DEF CallsAnswered
<1> QED BY <1>1, <1>2, <1>3, PTL DEF NodeSpec, nodeVars
=============================================================================
