------------------------------- MODULE Timers -------------------------------
(***************************************************************************)
(* Timers on the wall clock and on ROS time, the time source that feeds    *)
(* the ROS clock of a node, and the executor thread that turns an expired  *)
(* timerfd or a signalled clock eventfd into a callback.  A clock change   *)
(* reaches a timer through the jump handler that its registration          *)
(* installs; /clock messages come on a thread of their own, so they may    *)
(* fall between any two steps of the executor or of a registration.        *)
(***************************************************************************)
EXTENDS Integers, FiniteSets, Sequences

CONSTANTS
    Timers,     \* the timers of the process
    RosTimers,  \* those on a clock of type RCL_ROS_TIME; the others are steady
    Periods,    \* the periods the application asks for
    MaxTime,    \* the last instant of either clock, a bound of the model
    MaxNext     \* the last call that is followed, a bound of the model

VARIABLES
    sys, sim,   \* the system clock and the override of the ROS clock; 0 is unset
    active,     \* ros_time_is_active()
    state,      \* of each timer: "none", "born" (registering), "live" or "gone"
    canceled,
    period, next, last,     \* period_ns, next_call_time_ns, last_call_time_ns
    fd,         \* when the timerfd expires next, or Closed
    event,      \* the clock eventfds that have been written to
    fdNew, eventNew,    \* timer_fd_need_update, clock_eventfd_need_update
    queue,      \* ready_agnocast_executables_
    running,    \* the callback in handle_timer_event and the next call it computed
    raced       \* ghost: the timers that a clock change met in mid-registration or mid-run

clockVars == <<sys, sim, active>>
timeVars == <<period, next, last, canceled>>
fdVars == <<fd, event, fdNew, eventNew>>
execVars == <<queue, running>>
vars == <<clockVars, state, timeVars, fdVars, execVars, raced>>

Closed == -1
Idle == <<>>

Init ==
    /\ sys = 1 /\ sim = 0 /\ active = FALSE
    /\ state = [t \in Timers |-> "none"] /\ canceled = {}
    /\ period = [t \in Timers |-> 0] /\ next = [t \in Timers |-> 0]
    /\ last = [t \in Timers |-> 0]
    /\ fd = [t \in Timers |-> Closed]
    /\ event = {} /\ fdNew = {} /\ eventNew = {}
    /\ queue = <<>> /\ running = Idle /\ raced = {}

\* clock->now() of a timer's clock.
Now(t) == IF t \in RosTimers /\ active THEN sim ELSE sys

Live == {t \in Timers : state[t] = "live"}
InHandler == IF running = Idle THEN {} ELSE {running[1]}

\* The next expiry of a timerfd that is read now; an interval of zero is armed
\* with one nanosecond and expires again at once.
Rearmed(t) ==
    IF period[t] = 0 THEN sys ELSE fd[t] + period[t] * (1 + (sys - fd[t]) \div period[t])

-----------------------------------------------------------------------------
(* The life of a timer.                                                    *)

\* register_timer_info up to the jump handler: now is read and, unless ROS time
\* is active, the timerfd is created and armed.
Register(t, p) ==
    /\ state[t] = "none"
    /\ state' = [state EXCEPT ![t] = "born"]
    /\ period' = [period EXCEPT ![t] = p]
    /\ last' = [last EXCEPT ![t] = Now(t)]
    /\ next' = [next EXCEPT ![t] = Now(t) + p]
    /\ fd' = [fd EXCEPT ![t] = IF t \in RosTimers /\ active THEN Closed ELSE sys + p]
    /\ UNCHANGED <<clockVars, canceled, event, fdNew, eventNew, execVars, raced>>

\* The jump handler is installed, the timer enters id2_timer_info and every
\* executor is told to look at its epoll set again.
Enlist(t) ==
    /\ state[t] = "born"
    /\ state' = [state EXCEPT ![t] = "live"]
    /\ fdNew' = IF fd[t] # Closed THEN fdNew \cup {t} ELSE fdNew
    /\ eventNew' = IF t \in RosTimers THEN eventNew \cup {t} ELSE eventNew
    /\ UNCHANGED <<clockVars, timeVars, fd, event, execVars, raced>>

\* The destructor: unregister_timer_info and, with the last owner, ~TimerInfo.
Destroy(t) ==
    /\ t \in Live
    /\ state' = [state EXCEPT ![t] = "gone"]
    /\ fd' = [fd EXCEPT ![t] = Closed]
    /\ event' = event \ {t} /\ fdNew' = fdNew \ {t} /\ eventNew' = eventNew \ {t}
    /\ UNCHANGED <<clockVars, timeVars, execVars, raced>>

Cancel(t) ==
    /\ t \in Live \ canceled
    /\ canceled' = canceled \cup {t}
    /\ UNCHANGED <<clockVars, state, period, next, last, fdVars, execVars, raced>>

\* TimerBase::reset and TimerInfo::reset.
Reset(t) ==
    /\ t \in Live
    /\ canceled' = canceled \ {t}
    /\ next' = [next EXCEPT ![t] = Now(t) + period[t]]
    /\ fd' = [fd EXCEPT ![t] = IF @ = Closed THEN Closed ELSE sys + period[t]]
    /\ UNCHANGED <<clockVars, state, period, last, event, fdNew, eventNew, execVars, raced>>

\* The call that is scheduled keeps its time; the new period follows it.
SetPeriod(t, p) ==
    /\ t \in Live /\ p # period[t]
    /\ period' = [period EXCEPT ![t] = p]
    /\ fd' = [fd EXCEPT ![t] = IF @ = Closed THEN Closed
                               ELSE sys + (IF next[t] > Now(t) THEN next[t] - Now(t) ELSE 0)]
    /\ UNCHANGED <<clockVars, state, next, last, canceled, event, fdNew, eventNew, execVars, raced>>

-----------------------------------------------------------------------------
(* Clocks.                                                                 *)

Tick ==
    /\ sys < MaxTime
    /\ sys' = sys + 1
    /\ UNCHANGED <<sim, active, state, timeVars, fdVars, execVars, raced>>

\* The timers a change of the ROS clock calls back.
Listening == Live \cap RosTimers

\* The timers whose registration or callback the change falls into.
Overlapped == {t \in RosTimers : state[t] = "born"} \cup (InHandler \cap RosTimers)

\* Mutant: a timer is woken only when its call is the last one due.
Overdue_late(t, now) == next[t] + period[t] <= now

Overdue(t, now) == next[t] <= now

\* handle_post_time_jump for a jump without a change of the clock's source.
Jumped(now) ==
    /\ event' = event \cup {t \in Listening \ canceled : Overdue(t, now)}
    /\ LET back == {t \in Listening : ~Overdue(t, now) /\ now < last[t]}
       IN /\ next' = [t \in Timers |-> IF t \in back THEN now + period[t] ELSE next[t]]
          /\ last' = [t \in Timers |-> IF t \in back THEN now ELSE last[t]]

\* NodeTimeSource::clock_cb on an active clock: rcl_set_ros_time_override calls
\* the jump handlers unless the time is what it was.
ClockMessage(now) ==
    /\ active
    /\ sim' = now
    /\ IF now = sim
       THEN UNCHANGED <<next, last, event, raced>>
       ELSE /\ Jumped(now)
            /\ raced' = raced \cup Overlapped
    /\ UNCHANGED <<sys, active, state, period, canceled, fd, fdNew, eventNew, execVars>>

\* Mutant: the timers keep their timerfds.
EnableRosTime_keepsTimerfds ==
    /\ ~active
    /\ active' = TRUE
    /\ raced' = raced \cup Overlapped
    /\ UNCHANGED <<sys, sim, state, timeVars, fd, event, fdNew, eventNew, execVars>>

\* enable_ros_time and set_clock: the timerfds are closed.  time_credit, which
\* handle_pre_time_jump saves, is paid out only if the override already has a
\* time; disable_ros_time sets it to zero, so it is never paid and is left out.
EnableRosTime ==
    /\ ~active
    /\ active' = TRUE
    /\ fd' = [t \in Timers |-> IF t \in Listening THEN Closed ELSE fd[t]]
    /\ raced' = raced \cup Overlapped
    /\ UNCHANGED <<sys, sim, state, timeVars, event, fdNew, eventNew, execVars>>

\* disable_ros_time: the timers are not given a timerfd again.
DisableRosTime ==
    /\ active
    /\ active' = FALSE /\ sim' = 0
    /\ raced' = raced \cup Overlapped
    /\ UNCHANGED <<sys, state, period, next, last, canceled, fdVars, execVars>>

-----------------------------------------------------------------------------
(* The executor's thread.                                                  *)

Ready == queue = <<>> /\ running = Idle

\* prepare_epoll of the timer and of the clock handler.
PrepareEpoll ==
    /\ Ready /\ fdNew \cup eventNew # {}
    /\ fdNew' = {t \in fdNew : fd[t] = Closed}
    /\ eventNew' = {}
    /\ UNCHANGED <<clockVars, state, timeVars, fd, event, execVars, raced>>

\* TimerEventHandler::handle: the timerfd is read and a callable queued.
HandleTimer(t) ==
    /\ Ready /\ t \in Live \ fdNew
    /\ fd[t] # Closed /\ fd[t] <= sys
    /\ fd' = [fd EXCEPT ![t] = Rearmed(t)]
    /\ queue' = Append(queue, t)
    /\ UNCHANGED <<clockVars, state, timeVars, event, fdNew, eventNew, running, raced>>

\* ClockEventHandler::handle: the eventfd is emptied, then the time is looked at.
HandleClock(t) ==
    /\ Ready /\ t \in (Live \cap event) \ eventNew
    /\ event' = event \ {t}
    /\ queue' = IF Now(t) < next[t] THEN queue ELSE Append(queue, t)
    /\ UNCHANGED <<clockVars, state, timeVars, fd, fdNew, eventNew, running, raced>>

\* Mutant: calls that were missed are made up for one by one.
NextCall_noCatchUp(t, now) == next[t] + period[t]

\* The time of the call after this one: a whole number of periods later, and
\* never in the past.
NextCall(t, now) ==
    LET n == next[t] + period[t]
    IN IF n >= now THEN n
       ELSE IF period[t] = 0 THEN now
       ELSE n + period[t] * (1 + (now - n - 1) \div period[t])

\* handle_timer_event reads the clock and computes the next call ...
RunCallback ==
    /\ queue # <<>> /\ running = Idle
    /\ LET t == Head(queue)
       IN IF t \in Live \ canceled
          THEN /\ NextCall(t, Now(t)) <= MaxNext
               /\ running' = <<t, NextCall(t, Now(t))>>
               /\ last' = [last EXCEPT ![t] = Now(t)]
          ELSE UNCHANGED <<running, last>>
    /\ queue' = Tail(queue)
    /\ UNCHANGED <<clockVars, state, period, next, canceled, fdVars, raced>>

\* ... then stores it and calls the user.
StoreNextCall ==
    /\ running # Idle
    /\ next' = [next EXCEPT ![running[1]] = running[2]]
    /\ running' = Idle
    /\ UNCHANGED <<clockVars, state, period, last, canceled, fdVars, queue, raced>>

Application(t) ==
    \/ Enlist(t) \/ Destroy(t) \/ Cancel(t) \/ Reset(t)
    \/ \E p \in Periods : Register(t, p) \/ SetPeriod(t, p)

Executor ==
    PrepareEpoll \/ RunCallback \/ StoreNextCall
    \/ \E t \in Timers : HandleTimer(t) \/ HandleClock(t)

Clock == Tick \/ DisableRosTime \/ \E now \in 0..MaxTime : ClockMessage(now)

Next == Clock \/ EnableRosTime \/ Executor \/ \E t \in Timers : Application(t)

Spec == Init /\ [][Next]_vars

-----------------------------------------------------------------------------
(* Properties.                                                             *)

\* A timer on an active ROS clock whose time has passed has a wakeup under way:
\* its eventfd has been written to, or its callback is queued or running.  The
\* exceptions are a timer that a clock change met while it was registered or
\* while its callback was computing the next call.
NoStrandedTimer ==
    active => \A t \in (Listening \ canceled) \ raced :
        sim > next[t] => t \in event \cup InHandler \/ \E i \in DOMAIN queue : queue[i] = t

\* While ROS time is active no timer of the ROS clock runs on the wall clock as
\* well, and while it is not, the override holds no time a timer could be credited.
OneSourceOfTime ==
    /\ active => \A t \in Listening \ raced : fd[t] = Closed
    /\ ~active => sim = 0
=============================================================================
