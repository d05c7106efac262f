----------------------------- MODULE ModuleLoad -----------------------------
(***************************************************************************)
(* insmod and rmmod of the kernel module while processes use the device,   *)
(* register and exit.  agnocast_init acquires the device, the exit worker, *)
(* the tracepoint probe and the pool table in this order, and a failure    *)
(* releases what was acquired before it; agnocast_exit runs when nobody    *)
(* has the device open, and only then are the tables freed.                *)
(*                                                                         *)
(* The device can be opened while agnocast_init is still running, and a    *)
(* process that has closed it (close(agnocast_fd) before exit) stays       *)
(* registered.  The probe runs for every exit on the machine, so it can be *)
(* in flight when the module is removed.                                   *)
(***************************************************************************)
EXTENDS Naturals, Sequences, SequencesExt

CONSTANTS
    Procs,      \* processes of the machine
    MaxLoads    \* insmods, a bound of the model

VARIABLES
    stage,      \* what agnocast_init does next, or "absent", "live", "leaving"
    going,      \* MODULE_STATE_GOING: rmmod has begun
    teardown,   \* what is left to release
    held,       \* what the module has acquired
    worker,     \* exit_worker_thread: "none", "wait", "drain", "clean"
    stopping,   \* kthread_should_stop
    queue,      \* exit_pid_queue from queue_head to queue_tail
    cleaning,   \* the pid the worker has dequeued
    registry,   \* the pids in proc_info_htable and discovery_agent_htable
    pooled,     \* those of them that got a memory pool: not the agents
    exited,     \* those of them whose exit has been cleaned up
    proc,       \* of each process: "out", "open", "closed", "probe", "dead"
    fault,      \* the pool table was read while there was none
    loads,      \* ghost: insmods so far
    early       \* ghost: pids that registered before agnocast_init was through

vars == <<stage, going, teardown, held, worker, stopping, queue, cleaning, registry, pooled,
          exited, proc, fault, loads, early>>
moduleVars == <<stage, going, teardown, held, loads>>
workerVars == <<worker, stopping, queue, cleaning>>
tableVars == <<registry, pooled, exited, fault, early>>

None == "none"
Loading == {"device", "worker", "probe", "pools"}

Init ==
    /\ stage = "absent" /\ going = FALSE /\ teardown = <<>> /\ held = {} /\ loads = 0
    /\ worker = "none" /\ stopping = FALSE /\ queue = <<>> /\ cleaning = None
    /\ registry = {} /\ pooled = {} /\ exited = {} /\ fault = FALSE /\ early = {}
    /\ proc = [p \in Procs |-> "out"]

-----------------------------------------------------------------------------
(* agnocast_init.                                                          *)

\* The module's data are laid out anew.
Insmod ==
    /\ stage = "absent" /\ loads < MaxLoads
    /\ loads' = loads + 1
    /\ stage' = "device"
    /\ queue' = <<>> /\ cleaning' = None /\ stopping' = FALSE
    /\ registry' = {} /\ pooled' = {} /\ exited' = {} /\ early' = {}
    /\ UNCHANGED <<going, teardown, held, worker, proc, fault>>

\* register_chrdev, class_create, device_create; the labels at the end of
\* agnocast_init_device release the ones before the one that failed.
agnocast_init_device ==
    /\ stage = "device"
    /\ \/ held' = {"chrdev", "class", "device"} /\ stage' = "worker"
       \/ held' = {} /\ stage' = "absent"
    /\ UNCHANGED <<going, teardown, loads, workerVars, tableVars, proc>>

\* What agnocast_init releases when the given part could not be acquired.
Undo(part) ==
    CASE part = "worker" -> <<"device">>
      [] part = "probe" -> <<"stop", "join", "device">>
      [] part = "pools" -> <<"probe", "synchronize", "stop", "join", "device">>

Fails(part) ==
    /\ stage = part
    /\ stage' = "leaving" /\ teardown' = Undo(part)
    /\ UNCHANGED <<going, held, loads, workerVars, tableVars, proc>>

\* The ring buffer is reset before the thread runs.
agnocast_init_kthread ==
    /\ stage = "worker"
    /\ stage' = "probe" /\ held' = held \cup {"worker"}
    /\ worker' = "wait" /\ queue' = <<>>
    /\ UNCHANGED <<going, teardown, loads, stopping, cleaning, tableVars, proc>>

agnocast_init_exit_hook ==
    /\ stage = "probe"
    /\ stage' = "pools" /\ held' = held \cup {"probe"}
    /\ UNCHANGED <<going, teardown, loads, workerVars, tableVars, proc>>

init_memory_allocator ==
    /\ stage = "pools"
    /\ stage' = "live" /\ held' = held \cup {"pools"}
    /\ UNCHANGED <<going, teardown, loads, workerVars, tableVars, proc>>

-----------------------------------------------------------------------------
(* agnocast_exit, and the steps that it shares with a load that fails.     *)

\* What agnocast_exit releases, in its order.
agnocast_exit ==
    <<"probe", "synchronize", "stop", "join", "tables", "pools", "device">>

\* Every open file holds a reference on the module.
Rmmod ==
    /\ stage = "live" /\ \A p \in Procs : proc[p] # "open"
    /\ stage' = "leaving" /\ going' = TRUE /\ teardown' = agnocast_exit
    /\ UNCHANGED <<held, loads, workerVars, tableVars, proc>>

Step(part) == stage = "leaving" /\ teardown # <<>> /\ Head(teardown) = part
              /\ teardown' = Tail(teardown)

tracepoint_probe_unregister ==
    /\ Step("probe") /\ held' = held \ {"probe"}
    /\ UNCHANGED <<stage, going, loads, workerVars, tableVars, proc>>

\* Waits for the probes that are running.
tracepoint_synchronize_unregister ==
    /\ Step("synchronize") /\ \A p \in Procs : proc[p] # "probe"
    /\ UNCHANGED <<stage, going, loads, held, workerVars, tableVars, proc>>

\* kthread_stop sets the flag, wakes the thread and waits until it has returned.
kthread_stop ==
    \/ /\ Step("stop") /\ stopping' = TRUE
       /\ UNCHANGED <<stage, going, loads, held, worker, queue, cleaning, tableVars, proc>>
    \/ /\ Step("join") /\ worker = "none" /\ held' = held \ {"worker"}
       /\ UNCHANGED <<stage, going, loads, workerVars, tableVars, proc>>

\* All tables under the global lock: what the worker left undrained goes as well.
agnocast_exit_free_data ==
    /\ Step("tables") /\ registry' = {} /\ pooled' = {} /\ exited' = {}
    /\ UNCHANGED <<stage, going, loads, held, workerVars, fault, early, proc>>

cleanup_memory_allocator ==
    /\ Step("pools") /\ held' = held \ {"pools"}
    /\ UNCHANGED <<stage, going, loads, workerVars, tableVars, proc>>

\* Files of a load that failed stay open on a module that is gone; what becomes
\* of them is left out.
agnocast_exit_device ==
    /\ Step("device") /\ held' = held \ {"chrdev", "class", "device"}
    /\ stage' = "absent" /\ going' = FALSE
    /\ proc' = [p \in Procs |-> IF proc[p] \in {"open", "closed"} THEN "out" ELSE proc[p]]
    /\ UNCHANGED <<loads, workerVars, tableVars>>

-----------------------------------------------------------------------------
(* Processes.                                                              *)

\* The kernel refuses to open the device of a module that is going.
Open(p) ==
    /\ proc[p] = "out" /\ "device" \in held /\ ~going
    /\ proc' = [proc EXCEPT ![p] = "open"]
    /\ UNCHANGED <<moduleVars, workerVars, tableVars>>

Close(p) ==
    /\ proc[p] = "open"
    /\ proc' = [proc EXCEPT ![p] = "closed"]
    /\ UNCHANGED <<moduleVars, workerVars, tableVars>>

\* agnocast_ioctl_add_process and agnocast_ioctl_add_discovery_agent; the first
\* goes through the pool table.
Register(p, pool) ==
    /\ proc[p] = "open" /\ p \notin registry
    /\ registry' = registry \cup {p}
    /\ pooled' = IF pool THEN pooled \cup {p} ELSE pooled
    /\ fault' = (pool /\ "pools" \notin held)
    /\ early' = IF stage = "live" THEN early ELSE early \cup {p}
    /\ UNCHANGED <<moduleVars, workerVars, exited, proc>>

\* A process exits: the tracepoint fires before its files are closed.
Exit(p) ==
    /\ proc[p] \in {"out", "open", "closed"}
    /\ proc' = [proc EXCEPT ![p] = IF "probe" \in held THEN "probe" ELSE "dead"]
    /\ UNCHANGED <<moduleVars, workerVars, tableVars>>

agnocast_process_exit(p) ==
    /\ proc[p] = "probe"
    /\ queue' = IF p \in registry THEN Append(queue, p) ELSE queue
    /\ proc' = [proc EXCEPT ![p] = "dead"]
    /\ UNCHANGED <<moduleVars, worker, stopping, cleaning, tableVars>>

\* GET_EXIT_PROCESS of the unlink daemon takes an exited process off the registry.
Collect(p) ==
    /\ p \in exited /\ \E u \in Procs : proc[u] = "open"
    /\ registry' = registry \ {p} /\ pooled' = pooled \ {p} /\ exited' = exited \ {p}
    /\ UNCHANGED <<moduleVars, workerVars, fault, early, proc>>

-----------------------------------------------------------------------------
(* The worker: it looks at the flag before it sleeps and after it wakes up,
   not while it drains the queue.                                          *)

exit_worker_thread ==
    /\ UNCHANGED <<moduleVars, stopping, early, proc>>
    /\ \/ /\ worker = "wait" /\ (stopping \/ queue # <<>>)
          /\ worker' = IF stopping THEN "none" ELSE "drain"
          /\ UNCHANGED <<queue, cleaning, registry, pooled, exited, fault>>
       \/ /\ worker = "drain"
          /\ IF queue = <<>> THEN worker' = "wait" /\ UNCHANGED <<queue, cleaning>>
             ELSE worker' = "clean" /\ cleaning' = Head(queue) /\ queue' = Tail(queue)
          /\ UNCHANGED <<registry, pooled, exited, fault>>
       \/ /\ worker = "clean"
          /\ worker' = "drain" /\ cleaning' = None
          /\ exited' = IF cleaning \in pooled THEN exited \cup {cleaning} ELSE exited
          /\ registry' = IF cleaning \in pooled THEN registry ELSE registry \ {cleaning}
          /\ fault' = (cleaning \in pooled /\ "pools" \notin held)
          /\ UNCHANGED <<queue, pooled>>

Next ==
    /\ ~fault
    /\ \/ Insmod \/ agnocast_init_device \/ agnocast_init_kthread \/ agnocast_init_exit_hook
       \/ init_memory_allocator
       \/ \E part \in {"worker", "probe", "pools"} : Fails(part)
       \/ Rmmod \/ tracepoint_probe_unregister \/ tracepoint_synchronize_unregister
       \/ kthread_stop \/ agnocast_exit_free_data \/ cleanup_memory_allocator
       \/ agnocast_exit_device
       \/ \E p \in Procs : \/ Open(p) \/ Close(p) \/ Exit(p)
                           \/ agnocast_process_exit(p) \/ Collect(p)
                           \/ \E pool \in BOOLEAN : Register(p, pool)
       \/ exit_worker_thread

Spec == Init /\ [][Next]_vars

-----------------------------------------------------------------------------
(* Correctness.                                                            *)

\* A module that is not there has nothing: no device, thread or probe, and no
\* table entries, except those that a process made while a load was under way
\* that then failed (agnocast_init does not free the tables).
NothingStays ==
    stage = "absent" =>
        held = {} /\ worker = "none" /\ registry \subseteq early
        /\ \A p \in Procs : proc[p] # "probe"

\* As long as a probe may run, the thread it hands pids to has not returned.
ProbeHasWorker ==
    "probe" \in held \/ (\E p \in Procs : proc[p] = "probe") => worker # "none"

\* While the module is in use, the exit of a process that registered with it is on
\* its way to the worker; only one that registered while the module was loading
\* can have exited before the probe was there.
ExitAttended ==
    stage \in Loading \cup {"live"} =>
        \A p \in registry \ exited :
            proc[p] = "dead" => p \in ToSet(queue) \cup {cleaning} \cup early

\* The pool table is read while there is none only by a process that registers
\* before agnocast_init is through; removal never gets into the way of the worker.
FaultsOnlyEarly == fault => ~going /\ stage # "live"
=============================================================================
