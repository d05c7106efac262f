---------------------------- MODULE ManagerLoop -----------------------------
(***************************************************************************)
(* The three threads of the bridge manager (agnocast_bridge_manager.cpp)   *)
(* and its IPC event loop (agnocast_bridge_ipc_event_loop_base.hpp).  The  *)
(* main thread polls a datagram socket, a signalfd, a wake-up eventfd and  *)
(* a debug socket; the worker takes what the main thread has enqueued and  *)
(* dispatches it; the third thread spins the ROS 2 executor.  Any of them  *)
(* may ask for the shutdown.  What the worker does with a message, and its *)
(* periodic sweep, are in Bridge, what cancel() does inside the executor   *)
(* is in CallbackIsolated, and that the kernel is told is in Processes.    *)
(***************************************************************************)
EXTENDS Naturals, FiniteSets, Sequences, SequencesExt

CONSTANTS
    Senders,      \* endpoints that send one bridge message each
    Malformed,    \* those of them whose datagram is too short or of an unknown type
    Capacity,     \* datagrams the listener's socket holds
    MaxRetries    \* BRIDGE_UDS_SEND_MAX_RETRIES

VARIABLES
    fds,       \* descriptors of the event loop that are open
    main,      \* what the main thread is about to do
    ready,     \* the events epoll_wait has returned and the loop has yet to handle
    queue,     \* datagrams in the listener's socket
    signal,    \* SIGTERM or SIGINT is pending
    woken,     \* the wake-up eventfd is not zero
    hand,      \* the datagram the main thread has received: a sequence of at most one
    pending,   \* pending_msgs_
    holder,    \* the worker holds pending_msgs_mtx_
    worker,    \* what the worker is about to do
    batch,     \* what is left of the worker's batch
    executor,  \* the executor thread: "none", "starting", "spinning", "told" or "done"
    flag,      \* shutdown_requested_
    request,   \* thread -> its next step in request_shutdown, or "none"
    sender,    \* endpoint -> [state, tries]
    arrived,   \* ghost: datagrams in the order in which they reached the socket
    served,    \* ghost: messages in the order in which they were dispatched
    cancelLost \* ghost: cancel() came before spin()

loopVars == <<fds, ready, queue, signal, woken, hand>>
workVars == <<pending, holder, worker, batch, served>>
endVars == <<flag, request, cancelLost>>
sendVars == <<sender, arrived>>
vars == <<fds, main, ready, queue, signal, woken, hand, pending, holder, worker, batch, served,
          executor, flag, request, cancelLost, sender, arrived>>

Threads == {"main", "worker", "executor"}

Init ==
    /\ fds = {} /\ main = "listener" /\ ready = {}
    /\ queue = <<>> /\ signal = FALSE /\ woken = FALSE /\ hand = <<>>
    /\ pending = <<>> /\ holder = FALSE /\ worker = "none" /\ batch = <<>> /\ executor = "none"
    /\ flag = FALSE /\ request = [t \in Threads |-> "none"]
    /\ sender = [s \in Senders |-> [state |-> "idle", tries |-> 0]]
    /\ arrived = <<>> /\ served = <<>> /\ cancelLost = FALSE

-----------------------------------------------------------------------------
\* The outside world

\* send_bridge_uds_message: nobody is bound, or the socket is full: it tries again a
\* limited number of times.
send_bridge_uds_message(s) ==
    /\ sender[s].state = "idle"
    /\ IF "listener" \in fds /\ Len(queue) < Capacity
       THEN /\ queue' = Append(queue, s) /\ arrived' = Append(arrived, s)
            /\ sender' = [sender EXCEPT ![s].state = "sent"]
       ELSE /\ sender' = [sender EXCEPT ![s] = IF @.tries = MaxRetries
                                               THEN [@ EXCEPT !.state = "failed"]
                                               ELSE [@ EXCEPT !.tries = @ + 1]]
            /\ UNCHANGED <<queue, arrived>>
    /\ UNCHANGED <<fds, main, ready, signal, woken, hand, workVars, executor, endVars>>

\* A signal shows in epoll_wait only: that it comes while the loop is elsewhere makes
\* no difference.
SignalArrives ==
    /\ main = "poll" /\ ~signal
    /\ signal' = TRUE
    /\ UNCHANGED <<fds, main, ready, queue, woken, hand, workVars, executor, endVars, sendVars>>

-----------------------------------------------------------------------------
\* The constructor of the event loop: five steps, each of which may fail

After(step) ==
    CASE step = "listener" -> "signal" [] step = "signal" -> "socket" [] step = "socket" -> "wakeup"
      [] step = "wakeup" -> "epoll" [] step = "epoll" -> "execution"

Setup == {"listener", "signal", "socket", "wakeup", "epoll"}

SetupStep ==
    /\ main \in Setup
    /\ fds' = fds \cup {main} /\ main' = After(main)
    /\ UNCHANGED <<ready, queue, signal, woken, hand, workVars, executor, endVars, sendVars>>

\* Without its debug socket the manager goes on; another failure closes what was
\* opened, with the datagrams that waited, and throws.
SetupFails ==
    /\ main \in Setup
    /\ IF main = "socket"
       THEN main' = After(main) /\ UNCHANGED <<fds, queue, signal>>
       ELSE main' = "threw" /\ fds' = {} /\ queue' = <<>> /\ signal' = FALSE
    /\ UNCHANGED <<ready, woken, hand, workVars, executor, endVars, sendVars>>

-----------------------------------------------------------------------------
\* request_shutdown, by any of the threads

Starts(t) == request' = [request EXCEPT ![t] = "store"]
Idle(t) == request[t] = "none"

\* Mutant: the flag is written without the mutex.
MayStore_unlocked == TRUE

MayStore == ~holder

\* Mutant: nothing wakes the event loop.
Wakes_nothing == woken

Wakes == TRUE

RequestStore(t) ==
    /\ request[t] = "store" /\ MayStore
    /\ flag' = TRUE /\ request' = [request EXCEPT ![t] = "notify"]
    /\ UNCHANGED <<loopVars, main, workVars, executor, cancelLost, sendVars>>

RequestNotify(t) ==
    /\ request[t] = "notify"
    /\ worker' = IF worker = "asleep" THEN "lock" ELSE worker
    /\ request' = [request EXCEPT ![t] = "cancel"]
    /\ UNCHANGED <<loopVars, main, pending, holder, batch, served, executor, flag, cancelLost,
                   sendVars>>

\* cancel() has no effect on an executor that does not spin yet.
RequestCancel(t) ==
    /\ request[t] = "cancel"
    /\ executor' = IF executor = "spinning" THEN "told" ELSE executor
    /\ cancelLost' = (cancelLost \/ executor = "starting")
    /\ request' = [request EXCEPT ![t] = "wakeup"]
    /\ UNCHANGED <<loopVars, main, workVars, flag, sendVars>>

RequestWakeup(t) ==
    /\ request[t] = "wakeup"
    /\ woken' = Wakes
    /\ request' = [request EXCEPT ![t] = "none"]
    /\ UNCHANGED <<fds, main, ready, queue, signal, hand, workVars, executor, flag,
                   cancelLost, sendVars>>

request_shutdown(t) == RequestStore(t) \/ RequestNotify(t) \/ RequestCancel(t) \/ RequestWakeup(t)

-----------------------------------------------------------------------------
\* The main thread

start_ros_execution ==
    /\ main = "execution"
    /\ executor' = "starting" /\ main' = "worker"
    /\ UNCHANGED <<loopVars, workVars, endVars, sendVars>>

start_worker_thread ==
    /\ main = "worker"
    /\ worker' = "check" /\ main' = "check"
    /\ UNCHANGED <<loopVars, pending, holder, batch, served, executor, endVars, sendVars>>

\* while (!shutdown_requested_)
run ==
    /\ main = "check" /\ Idle("main")
    /\ main' = IF flag THEN "dtor" ELSE "poll"
    /\ UNCHANGED <<loopVars, workVars, executor, endVars, sendVars>>

Ready ==
    {fd \in fds : \/ fd = "listener" /\ queue # <<>>
                  \/ fd = "signal" /\ signal
                  \/ fd = "wakeup" /\ woken}

\* epoll_wait returns what is ready, or after its timeout nothing; should it fail, the
\* manager goes down.
spin_once ==
    /\ main = "poll"
    /\ ready' = Ready /\ main' = "events"
    /\ UNCHANGED <<fds, queue, signal, woken, hand, workVars, executor, endVars, sendVars>>

SpinFails ==
    /\ main = "poll" /\ ~flag
    /\ Starts("main") /\ main' = "check"
    /\ UNCHANGED <<loopVars, workVars, executor, flag, cancelLost, sendVars>>

Handling(fd) == main = "events" /\ Idle("main") /\ hand = <<>> /\ fd \in ready

EventsEnd ==
    /\ main = "events" /\ Idle("main") /\ hand = <<>> /\ ready = {}
    /\ main' = "check"
    /\ UNCHANGED <<loopVars, workVars, executor, endVars, sendVars>>

\* The socket is read until it is empty, one message after the other.
drain_listener ==
    /\ Handling("listener")
    /\ IF queue = <<>>
       THEN ready' = ready \ {"listener"} /\ UNCHANGED <<queue, hand>>
       ELSE hand' = <<Head(queue)>> /\ queue' = Tail(queue) /\ UNCHANGED ready
    /\ UNCHANGED <<fds, main, signal, woken, workVars, executor, endVars, sendVars>>

\* Mutant: nobody tells the worker.
Awake_not(w) == w

Awake(w) == IF w = "asleep" THEN "lock" ELSE w

\* Dropped if the shutdown has begun or the datagram is malformed.
parse_and_enqueue ==
    /\ hand # <<>>
    /\ IF flag \/ hand[1] \in Malformed
       THEN UNCHANGED <<pending, worker>>
       ELSE ~holder /\ pending' = pending \o hand /\ worker' = Awake(worker)
    /\ hand' = <<>>
    /\ UNCHANGED <<fds, main, ready, queue, signal, woken, holder, batch, served, executor,
                   endVars, sendVars>>

on_signal ==
    /\ Handling("signal")
    /\ signal' = FALSE /\ ready' = ready \ {"signal"}
    /\ Starts("main")
    /\ UNCHANGED <<fds, main, queue, woken, hand, workVars, executor, flag, cancelLost, sendVars>>

ReadWakeup ==
    /\ Handling("wakeup")
    /\ woken' = FALSE /\ ready' = ready \ {"wakeup"}
    /\ UNCHANGED <<fds, main, queue, signal, hand, workVars, executor, endVars, sendVars>>

\* A client of the debug socket is answered, and nothing else changes: modelled as a
\* round of its own.
handle_socket ==
    /\ main = "poll" /\ "socket" \in fds
    /\ main' = "check"
    /\ UNCHANGED <<loopVars, workVars, executor, endVars, sendVars>>

\* ~BridgeManager asks once more, then joins the worker and the executor's thread.
Destroy ==
    /\ main = "dtor" /\ Idle("main")
    /\ Starts("main") /\ main' = "joinWorker"
    /\ UNCHANGED <<loopVars, workVars, executor, flag, cancelLost, sendVars>>

Join ==
    /\ Idle("main")
    /\ \/ main = "joinWorker" /\ worker = "done" /\ main' = "joinExecutor"
       \/ main = "joinExecutor" /\ executor = "done" /\ main' = "cleanup"
    /\ UNCHANGED <<loopVars, workVars, executor, endVars, sendVars>>

cleanup_resources ==
    /\ main = "cleanup"
    /\ main' = "gone" /\ fds' = {} /\ queue' = <<>> /\ signal' = FALSE /\ woken' = FALSE
    /\ UNCHANGED <<ready, hand, workVars, executor, endVars, sendVars>>

MainSteps ==
    \/ SetupStep \/ start_ros_execution \/ start_worker_thread \/ run \/ spin_once \/ EventsEnd
    \/ drain_listener \/ parse_and_enqueue \/ on_signal \/ ReadWakeup
    \/ Destroy \/ Join \/ cleanup_resources

-----------------------------------------------------------------------------
\* The worker

\* while (!shutdown_requested_)
WorkerEnds ==
    /\ worker = "check" /\ Idle("worker") /\ flag
    /\ worker' = "done"
    /\ UNCHANGED <<loopVars, main, pending, holder, batch, served, executor, endVars, sendVars>>

WorkerLocks ==
    /\ \/ worker = "check" /\ Idle("worker") /\ ~flag
       \/ worker = "lock"
    /\ ~holder
    /\ holder' = TRUE /\ worker' = "test"
    /\ UNCHANGED <<loopVars, main, pending, batch, served, executor, endVars, sendVars>>

\* The wait's predicate finds nothing to do ...
WorkerWaits ==
    /\ worker = "test" /\ ~flag /\ pending = <<>>
    /\ worker' = "dozing"
    /\ UNCHANGED <<loopVars, main, pending, holder, batch, served, executor, endVars, sendVars>>

\* ... and the wait lets the mutex go and sleeps in one step.
WorkerSleeps ==
    /\ worker = "dozing"
    /\ holder' = FALSE /\ worker' = "asleep"
    /\ UNCHANGED <<loopVars, main, pending, batch, served, executor, endVars, sendVars>>

\* Mutant: what has been taken is not taken out.
Left_behind(msgs) == msgs

Left(msgs) == <<>>

SwapBatch ==
    /\ batch' = pending /\ pending' = Left(pending)
    /\ holder' = FALSE /\ worker' = "dispatch"
    /\ UNCHANGED <<loopVars, main, served, executor, endVars, sendVars>>

WorkerTakes == worker = "test" /\ (flag \/ pending # <<>>) /\ SwapBatch

\* wait_for returns after its timeout with the mutex held again.
WorkerTimeout == worker = "asleep" /\ ~holder /\ SwapBatch

dispatch_bridge_message ==
    /\ worker = "dispatch"
    /\ IF batch = <<>> \/ flag
       THEN worker' = "sweep" /\ UNCHANGED <<batch, served>>
       ELSE batch' = Tail(batch) /\ served' = Append(served, Head(batch)) /\ UNCHANGED worker
    /\ UNCHANGED <<loopVars, main, pending, holder, executor, endVars, sendVars>>

\* The sweep; shutdown_requested_ is looked at before it and within.  Last, the kernel
\* may say that nobody needs the manager any more.
WorkerSweeps(unneeded) ==
    /\ worker = "sweep"
    /\ IF flag
       THEN worker' = "done" /\ UNCHANGED request
       ELSE /\ worker' = "check"
            /\ IF unneeded THEN Starts("worker") ELSE UNCHANGED request
    /\ UNCHANGED <<loopVars, main, pending, holder, batch, served, executor, flag, cancelLost, sendVars>>

WorkerSteps ==
    WorkerEnds \/ WorkerLocks \/ WorkerWaits \/ WorkerSleeps \/ WorkerTakes \/ WorkerTimeout
    \/ dispatch_bridge_message \/ WorkerSweeps(FALSE)

-----------------------------------------------------------------------------
\* The executor's thread

ExecutorSpins ==
    /\ executor = "starting"
    /\ executor' = "spinning"
    /\ UNCHANGED <<loopVars, main, workVars, endVars, sendVars>>

ExecutorReturns ==
    /\ executor = "told" /\ Idle("executor")
    /\ executor' = "done"
    /\ UNCHANGED <<loopVars, main, workVars, endVars, sendVars>>

\* spin() throws: the thread tells the kernel and asks for the shutdown; its own
\* cancel() is then of no use, and the thread ends after it.
ExecutorCrashes ==
    /\ executor \in {"spinning", "told"} /\ Idle("executor")
    /\ executor' = "crashed" /\ Starts("executor")
    /\ UNCHANGED <<loopVars, main, workVars, flag, cancelLost, sendVars>>

CrashEnds ==
    /\ executor = "crashed" /\ Idle("executor")
    /\ executor' = "done"
    /\ UNCHANGED <<loopVars, main, workVars, endVars, sendVars>>

ExecutorSteps == ExecutorSpins \/ ExecutorReturns \/ CrashEnds

Next ==
    \/ \E s \in Senders : send_bridge_uds_message(s)
    \/ SignalArrives \/ SetupFails \/ SpinFails \/ handle_socket
    \/ \E t \in Threads : request_shutdown(t)
    \/ MainSteps \/ WorkerSteps \/ WorkerSweeps(TRUE)
    \/ ExecutorSteps \/ ExecutorCrashes

Spec == Init /\ [][Next]_vars

-----------------------------------------------------------------------------
Past(steps) == \A t \in Threads : request[t] \notin steps

\* Once a request for shutdown has done its part, no thread sleeps on: the worker has not
\* gone to sleep between the store of the flag and the notification, and an event loop
\* that is about to poll finds its eventfd set (request_shutdown, worker_loop, run).
PromptShutdown ==
    /\ (flag /\ Past({"notify"})) => worker # "asleep"
    /\ (flag /\ Past({"notify", "cancel", "wakeup"})) => (main = "poll" => woken)

\* The destructor never waits for a thread that nobody has told to stop: the worker does
\* not start a wait, and the executor has been reached by a cancel(), unless cancel()
\* came before the executor had begun to spin (~BridgeManager, start_ros_execution).
JoinsEnd ==
    main \in {"joinWorker", "joinExecutor"} /\ Idle("main") =>
      /\ flag /\ worker # "asleep"
      /\ executor \in {"told", "crashed", "done"} \/ cancelLost

\* What is left of a sequence of datagrams without the malformed ones.
WellFormed(msgs) ==
    LET kept[i \in 0 .. Len(msgs)] ==
          IF i = 0 THEN <<>>
          ELSE IF msgs[i] \in Malformed THEN kept[i - 1] ELSE Append(kept[i - 1], msgs[i])
    IN  kept[Len(msgs)]

\* Until the shutdown every well-formed datagram that reached the socket has been
\* dispatched or is on its way, once and in order; and the worker does not sleep over
\* one that has been enqueued (drain_listener, parse_and_enqueue, worker_loop).
EnqueuedInOrder ==
    ~flag /\ main # "threw" =>
      /\ WellFormed(arrived) = served \o batch \o pending \o WellFormed(hand \o queue)
      /\ worker = "asleep" => pending = <<>>
=============================================================================
