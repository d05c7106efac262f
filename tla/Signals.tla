------------------------------ MODULE Signals ------------------------------
(***************************************************************************)
(* The context of a process that uses agnocast::init: SIGINT and SIGTERM   *)
(* are turned into the shutdown of the context and into a wakeup of every  *)
(* executor.  The signal handler runs on whatever thread the kernel picks, *)
(* takes no lock and may be dispatched just before uninstall() restores    *)
(* the old action, so it can still be running when the eventfd it writes   *)
(* to is closed and the handler is installed again with another one.       *)
(***************************************************************************)
EXTENDS Naturals

CONSTANTS
    Executors,      \* AgnocastOnlyExecutor objects
    Deliveries,     \* signals that may be in their handler at the same time
    MaxInstalls     \* how often the handler is installed, a bound of the model

VARIABLES
    installed,      \* state_: "NotInstalled", "Installed" or "Uninstalling"
    initialized,    \* of g_context
    eventfds,       \* eventfds_: the executors whose shutdown eventfd is registered
    signalfd,       \* signal_eventfd_: the installation it was made in, or None
    openfd,         \* the installation whose eventfd is open, or None
    counter,        \* whether that eventfd has been written to
    received,       \* signal_received_
    stop,           \* stop_requested_
    thread,         \* where the signal thread is; "none" when there is none
    handler,        \* of each delivery, where its signal_handler is
    app,            \* where the thread that calls init and shutdown is
    executor,       \* of each executor: "none", "checking", "waiting" or "left"
    woken,          \* the executors whose shutdown eventfd has been written to
    installs        \* how often install() has run

context == <<installed, initialized, eventfds>>
channel == <<signalfd, openfd, counter>>
executors == <<executor, woken>>
vars == <<context, channel, received, stop, thread, handler, app, executors, installs>>

None == 0
Idle == [at |-> "idle", fd |-> None]

Init ==
    /\ installed = "NotInstalled" /\ initialized = FALSE /\ eventfds = {}
    /\ signalfd = None /\ openfd = None /\ counter = FALSE
    /\ received = FALSE /\ stop = FALSE /\ thread = "none"
    /\ handler = [d \in Deliveries |-> Idle]
    /\ app = "out"
    /\ executor = [e \in Executors |-> "none"] /\ woken = {}
    /\ installs = 0

\* mutex_ is held over several steps only while uninstall() waits for handlers.
MutexFree == app # "draining"

\* The deliveries that handler_inflight_count_ counts.
Inflight == {d \in Deliveries : handler[d].at \in {"counted", "flagged", "loaded", "written"}}

\* notify_all_executors.
Notified == IF installed = "Installed" THEN woken \cup eventfds ELSE woken

-----------------------------------------------------------------------------
(* agnocast::init and agnocast::shutdown.                                  *)

\* init: the context, then install(), which clears what is left of an earlier one.
Start ==
    /\ app = "out" /\ ~initialized
    /\ initialized' = TRUE
    /\ IF installed # "NotInstalled"
       THEN UNCHANGED <<installed, eventfds, channel, received, stop, thread, installs>>
       ELSE /\ installs < MaxInstalls
            /\ installs' = installs + 1
            /\ installed' = "Installed" /\ eventfds' = {}
            /\ signalfd' = installs' /\ openfd' = installs' /\ counter' = FALSE
            /\ stop' = FALSE /\ received' = FALSE
            /\ thread' = "loop"
    /\ UNCHANGED <<handler, app, executors>>

Shutdown ==
    /\ app = "out" /\ installed = "Installed"
    /\ initialized' = FALSE
    /\ app' = "notify"
    /\ UNCHANGED <<installed, eventfds, channel, received, stop, thread, handler, executors, installs>>

\* Mutant: shutdown() leaves it to the signal thread to wake the executors.
NotifyFromShutdown_none ==
    /\ app = "notify"
    /\ app' = "uninstall"
    /\ UNCHANGED <<context, channel, received, stop, thread, handler, executors, installs>>

NotifyFromShutdown ==
    /\ app = "notify"
    /\ woken' = Notified
    /\ app' = "uninstall"
    /\ UNCHANGED <<context, channel, received, stop, thread, handler, executor, installs>>

\* uninstall: the old actions are restored and the thread told to stop ...
Uninstall ==
    /\ app = "uninstall"
    /\ installed' = "Uninstalling"
    /\ stop' = TRUE /\ counter' = TRUE
    /\ app' = "joining"
    /\ UNCHANGED <<initialized, eventfds, signalfd, openfd, received, thread, handler, executors, installs>>

\* ... joined, and the eventfd hidden from handlers that start late ...
Invalidate ==
    /\ app = "joining" /\ thread = "none"
    /\ signalfd' = None
    /\ app' = "draining"
    /\ UNCHANGED <<context, openfd, counter, received, stop, thread, handler, executors, installs>>

\* Mutant: the eventfd is closed without waiting for handlers.
CloseEventfd_undrained ==
    /\ app = "draining"
    /\ openfd' = None /\ counter' = FALSE
    /\ installed' = "NotInstalled"
    /\ app' = "out"
    /\ UNCHANGED <<initialized, eventfds, signalfd, received, stop, thread, handler, executors, installs>>

\* ... and closed once no handler is in flight.
CloseEventfd ==
    /\ app = "draining" /\ Inflight = {}
    /\ openfd' = None /\ counter' = FALSE
    /\ installed' = "NotInstalled"
    /\ app' = "out"
    /\ UNCHANGED <<initialized, eventfds, signalfd, received, stop, thread, handler, executors, installs>>

-----------------------------------------------------------------------------
(* signal_handler, between any two steps of anyone.                        *)

At(d, from, h) == handler[d].at = from /\ handler' = [handler EXCEPT ![d] = h]

Deliver(d) ==
    /\ installed = "Installed"
    /\ At(d, "idle", [at |-> "dispatched", fd |-> None])
    /\ UNCHANGED <<context, channel, received, stop, thread, app, executors, installs>>

Count(d) ==
    /\ At(d, "dispatched", [at |-> "counted", fd |-> None])
    /\ UNCHANGED <<context, channel, received, stop, thread, app, executors, installs>>

Flag(d) ==
    /\ At(d, "counted", [at |-> "flagged", fd |-> None])
    /\ received' = TRUE
    /\ UNCHANGED <<context, channel, stop, thread, app, executors, installs>>

\* notify_signal_eventfd reads the descriptor ...
LoadEventfd(d) ==
    /\ At(d, "flagged", [at |-> "loaded", fd |-> signalfd])
    /\ UNCHANGED <<context, channel, received, stop, thread, app, executors, installs>>

\* ... and writes to it.
WriteEventfd(d) ==
    /\ At(d, "loaded", [at |-> "written", fd |-> None])
    /\ counter' = (counter \/ (handler[d].fd # None /\ handler[d].fd = openfd))
    /\ UNCHANGED <<context, signalfd, openfd, received, stop, thread, app, executors, installs>>

Return(d) ==
    /\ At(d, "written", Idle)
    /\ UNCHANGED <<context, channel, received, stop, thread, app, executors, installs>>

Handler(d) ==
    Deliver(d) \/ Count(d) \/ Flag(d) \/ LoadEventfd(d) \/ WriteEventfd(d) \/ Return(d)

-----------------------------------------------------------------------------
(* signal_processing_loop.                                                 *)

\* The flag is taken and, if it was set, the context shut down.
TakeSignal ==
    /\ thread = "loop"
    /\ received' = FALSE
    /\ IF received
       THEN initialized' = FALSE /\ thread' = "notify"
       ELSE thread' = "stop?" /\ UNCHANGED initialized
    /\ UNCHANGED <<installed, eventfds, channel, stop, handler, app, executors, installs>>

NotifyFromThread ==
    /\ thread = "notify" /\ MutexFree
    /\ woken' = Notified
    /\ thread' = "stop?"
    /\ UNCHANGED <<context, channel, received, stop, handler, app, executor, installs>>

CheckStop ==
    /\ thread = "stop?"
    /\ thread' = IF stop THEN "none" ELSE "wait"
    /\ UNCHANGED <<context, channel, received, stop, handler, app, executors, installs>>

WaitForEventfd ==
    /\ thread = "wait" /\ counter
    /\ counter' = FALSE
    /\ thread' = "loop"
    /\ UNCHANGED <<context, signalfd, openfd, received, stop, handler, app, executors, installs>>

-----------------------------------------------------------------------------
(* Executors.                                                              *)

\* The constructor exits the process when nothing is installed.
Construct(e) ==
    /\ executor[e] = "none" /\ MutexFree /\ installed = "Installed"
    /\ executor' = [executor EXCEPT ![e] = "checking"]
    /\ eventfds' = eventfds \cup {e}
    /\ woken' = woken \ {e}
    /\ UNCHANGED <<installed, initialized, channel, received, stop, thread, handler, app, installs>>

\* spin looks at ok(), then waits without a timeout.
CheckOk(e) ==
    /\ executor[e] = "checking"
    /\ executor' = [executor EXCEPT ![e] = IF initialized THEN "waiting" ELSE "left"]
    /\ UNCHANGED <<context, channel, received, stop, thread, handler, app, woken, installs>>

\* ShutdownEventHandler::handle does not empty the eventfd.
Wake(e) ==
    /\ executor[e] = "waiting" /\ e \in woken
    /\ executor' = [executor EXCEPT ![e] = "checking"]
    /\ UNCHANGED <<context, channel, received, stop, thread, handler, app, woken, installs>>

\* The destructor: an eventfd of an earlier installation stays in the set.
Destruct(e) ==
    /\ executor[e] = "left" /\ MutexFree
    /\ executor' = [executor EXCEPT ![e] = "none"]
    /\ eventfds' = IF installed = "NotInstalled" THEN eventfds ELSE eventfds \ {e}
    /\ woken' = woken \ {e}
    /\ UNCHANGED <<installed, initialized, channel, received, stop, thread, handler, app, installs>>

Executor(e) == Construct(e) \/ CheckOk(e) \/ Wake(e) \/ Destruct(e)

Next ==
    \/ Start \/ Shutdown \/ NotifyFromShutdown \/ Uninstall \/ Invalidate \/ CloseEventfd
    \/ TakeSignal \/ NotifyFromThread \/ CheckStop \/ WaitForEventfd
    \/ \E d \in Deliveries : Handler(d)
    \/ \E e \in Executors : Executor(e)

Spec == Init /\ [][Next]_vars

-----------------------------------------------------------------------------
(* Properties.                                                             *)

\* No write goes to a descriptor that is closed, and may by now be another
\* file's: neither from a handler that was dispatched before uninstall()
\* restored the old action, nor from notify_all_executors.
NoStrayWrite ==
    /\ \A d \in Deliveries : handler[d].at = "loaded" => handler[d].fd \in {None, openfd}
    /\ installed = "Installed" => \A e \in eventfds : executor[e] # "none"

\* The steps under way that may still shut down the context or wake executors.
Underway ==
    \/ app # "out"
    \/ \E d \in Deliveries : handler[d] # Idle
    \/ thread \notin {"none", "wait"} \/ (thread = "wait" /\ counter)

\* Once all is quiet no signal is left unserved while the handler is installed,
\* and no executor that registered since install() still waits without a wakeup
\* for a context that shutdown() or a signal has ended.
NoOneLeftSpinning ==
    ~Underway =>
        /\ installed = "Installed" => ~received
        /\ \A e \in eventfds : executor[e] = "waiting" /\ ~initialized => e \in woken
=============================================================================
