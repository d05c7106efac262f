----------------------------- MODULE ShmMapping -----------------------------
(***************************************************************************)
(* How a process comes to map the shared memory of the publishers whose    *)
(* messages it is handed.  The kernel names a publisher's pool to a        *)
(* process once (reference_memory answers -EEXIST afterwards), to whichever *)
(* of the process's subscribers asks first; the thread that was told maps  *)
(* the pools one by one, holding mmap_mtx from the ioctl on.  Meanwhile    *)
(* publishers come, publish, exit and are unlinked.                        *)
(*                                                                          *)
(* One reader process is modelled, with one subscriber per topic.  A       *)
(* message is <<publisher, topic>>; depth and order are in Topic.          *)
(***************************************************************************)
EXTENDS Integers, FiniteSets

CONSTANTS
    Publishers,      \* publisher processes
    Self,            \* the reader, which may publish too
    Topics, Threads,
    MaxPublishers    \* MAX_PUBLISHER_NUM: publishers of a topic, and the reader's buffer

VARIABLES
    proc,       \* publisher -> "up", "dying", "exited" (marked), "gone" (drained, unlinked)
    infos,      \* publisher_infos: {<<publisher, topic>>}
    sent,       \* <<p, t>> that have published: once each
    entries,    \* entry_nodes
    others,     \* entries that another process holds
    got,        \* entries the reader has been handed
    need,       \* topic -> need_mmap_update of the reader's subscriber
    listed,     \* pools on whose mapped_pid list the reader is
    mapped,     \* pools the reader has mapped
    mutex,      \* thread that holds mmap_mtx
    pc, topic,  \* of each thread
    todo,       \* pools a thread was told to map and has not yet
    held,       \* entries a thread is about to hand to its callback
    fatal,      \* the reader called exit()
    late        \* ghost: pools whose process was cleaned up after they were named

vars == <<proc, infos, sent, entries, others, got, need, listed, mapped, mutex, pc, topic,
          todo, held, fatal, late>>
readerVars == <<got, need, listed, mapped, mutex, pc, topic, todo, held, fatal>>

All == Publishers \cup {Self}
Held == UNION {held[k] : k \in Threads}

TypeOK ==
    /\ proc \in [All -> {"up", "dying", "exited", "gone"}]
    /\ infos \subseteq All \X Topics /\ entries \subseteq infos
    /\ others \subseteq entries /\ Held \subseteq entries
    /\ listed \subseteq Publishers /\ mapped \subseteq All
    /\ mutex \subseteq Threads /\ Cardinality(mutex) <= 1

Init ==
    /\ proc = [p \in All |-> "up"]
    /\ infos = {} /\ sent = {} /\ entries = {} /\ others = {} /\ got = {}
    /\ need = [t \in Topics |-> TRUE]
    /\ listed = {} /\ mapped = {Self} /\ mutex = {}
    /\ pc = [k \in Threads |-> "idle"] /\ topic \in [Threads -> {CHOOSE t \in Topics : TRUE}]
    /\ todo = [k \in Threads |-> {}] /\ held = [k \in Threads |-> {}]
    /\ fatal = FALSE /\ late = {}

-----------------------------------------------------------------------------
\* The publishers

\* add_publisher: every subscriber of the topic has pools to ask for.
AddPublisher(p, t) ==
    /\ proc[p] = "up" /\ <<p, t>> \notin infos \cup sent
    /\ Cardinality({x \in infos : x[2] = t}) < MaxPublishers
    /\ infos' = infos \cup {<<p, t>>}
    /\ need' = [need EXCEPT ![t] = TRUE]
    /\ UNCHANGED <<proc, sent, entries, others, got, listed, mapped, mutex, pc, topic, todo,
                   held, fatal, late>>

Publish(p, t) ==
    /\ proc[p] = "up" /\ <<p, t>> \in infos \ sent
    /\ sent' = sent \cup {<<p, t>>} /\ entries' = entries \cup {<<p, t>>}
    /\ UNCHANGED <<proc, infos, others, readerVars, late>>

\* The process has exited; its exit is in the kernel's queue.
Exit(p) ==
    /\ proc[p] = "up" /\ p # Self
    /\ proc' = [proc EXCEPT ![p] = "dying"]
    /\ UNCHANGED <<infos, sent, entries, others, readerVars, late>>

\* agnocast_process_exit_cleanup: what nobody holds is dropped.
ExitCleanup(p) ==
    /\ proc[p] = "dying"
    /\ proc' = [proc EXCEPT ![p] = "exited"]
    /\ LET kept == {x \in entries : x[1] # p \/ x \in Held \cup others}
       IN  entries' = kept /\ infos' = {x \in infos : x[1] # p} \cup {x \in kept : x[1] = p}
    /\ late' = late \cup {q \in {p} : \E k \in Threads : q \in todo[k]}
    /\ UNCHANGED <<sent, others, readerVars>>

\* The unlink daemon: GET_EXIT_PROCESS, then shm_unlink
ShmUnlink(p) ==
    /\ proc[p] = "exited"
    /\ proc' = [proc EXCEPT ![p] = "gone"]
    /\ UNCHANGED <<infos, sent, entries, others, readerVars, late>>

\* A publisher is known to run until its exit has been cleaned up.
Alive_always(p) == TRUE

Alive(p) == proc[p] \in {"up", "dying"}

\* A released entry goes with its publisher, if that is no more.
Dropped(es) == {x \in es : ~Alive(x[1])}

\* Another process is handed a message, or lets go of it.
OtherReceives(x) ==
    /\ x \in entries \ others /\ Alive(x[1])
    /\ others' = others \cup {x}
    /\ UNCHANGED <<proc, infos, sent, entries, readerVars, late>>

OtherReleases(x) ==
    /\ x \in others
    /\ others' = others \ {x}
    /\ LET gone == Dropped({x} \ Held)
       IN  entries' = entries \ gone /\ infos' = infos \ gone
    /\ UNCHANGED <<proc, sent, readerVars, late>>

-----------------------------------------------------------------------------
\* The reader

\* Mutant: the mutex is taken per subscription.
Lock_perTopic(k, t) ==
    /\ ~fatal /\ pc[k] = "idle" /\ \A j \in mutex : topic[j] # t
    /\ mutex' = {k} /\ pc' = [pc EXCEPT ![k] = "locked"] /\ topic' = [topic EXCEPT ![k] = t]
    /\ UNCHANGED <<proc, infos, sent, entries, others, got, need, listed, mapped, todo, held,
                   fatal, late>>

Lock(k, t) ==
    /\ ~fatal /\ pc[k] = "idle" /\ mutex = {}
    /\ mutex' = {k} /\ pc' = [pc EXCEPT ![k] = "locked"] /\ topic' = [topic EXCEPT ![k] = t]
    /\ UNCHANGED <<proc, infos, sent, entries, others, got, need, listed, mapped, todo, held,
                   fatal, late>>

\* set_publisher_shm_info: the pools that are named to the caller
ToMap(t) ==
    {p \in Publishers : need[t] /\ <<p, t>> \in infos /\ Alive(p) /\ p \notin listed}

is_entry_deliverable(x) == Alive(x[1])

\* RECEIVE_MSG or TAKE_MSG; a failing ioctl ends the process.
Receive(k) ==
    /\ ~fatal /\ pc[k] = "locked"
    /\ IF Cardinality(ToMap(topic[k])) > MaxPublishers
       THEN fatal' = TRUE /\ UNCHANGED <<got, need, listed, mapped, mutex, pc, topic, todo, held>>
       ELSE LET es == {x \in entries \ got : x[2] = topic[k] /\ is_entry_deliverable(x)}
            IN  /\ held' = [held EXCEPT ![k] = es] /\ got' = got \cup es
                /\ todo' = [todo EXCEPT ![k] = ToMap(topic[k])]
                /\ listed' = listed \cup ToMap(topic[k])
                /\ need' = [need EXCEPT ![topic[k]] = FALSE]
                /\ pc' = [pc EXCEPT ![k] = "mapping"]
                /\ UNCHANGED <<mapped, mutex, topic, fatal>>
    /\ UNCHANGED <<proc, infos, sent, entries, others, late>>

\* map_read_only_area: shm_open by the publisher's pid
MapArea(k, p) ==
    /\ ~fatal /\ pc[k] = "mapping" /\ p \in todo[k]
    /\ IF proc[p] = "gone"
       THEN fatal' = TRUE /\ UNCHANGED <<mapped, todo>>
       ELSE /\ mapped' = mapped \cup {p}
            /\ todo' = [todo EXCEPT ![k] = @ \ {p}]
            /\ UNCHANGED fatal
    /\ UNCHANGED <<proc, infos, sent, entries, others, got, need, listed, mutex, pc, topic,
                   held, late>>

Unlock(k) ==
    /\ ~fatal /\ pc[k] = "mapping" /\ todo[k] = {}
    /\ mutex' = {} /\ pc' = [pc EXCEPT ![k] = "callback"]
    /\ UNCHANGED <<proc, infos, sent, entries, others, got, need, listed, mapped, topic, todo,
                   held, fatal, late>>

\* The callback reads the messages and lets go of them.
Callback(k) ==
    /\ ~fatal /\ pc[k] = "callback"
    /\ pc' = [pc EXCEPT ![k] = "idle"] /\ held' = [held EXCEPT ![k] = {}]
    /\ LET gone == Dropped(held[k] \ others)
       IN  entries' = entries \ gone /\ infos' = infos \ gone
    /\ UNCHANGED <<proc, sent, others, got, need, listed, mapped, mutex, topic, todo, fatal, late>>

Next ==
    \/ \E p \in All, t \in Topics : AddPublisher(p, t) \/ Publish(p, t)
    \/ \E x \in Publishers \X Topics : OtherReceives(x) \/ OtherReleases(x)
    \/ \E p \in All : Exit(p) \/ ExitCleanup(p) \/ ShmUnlink(p)
    \/ \E k \in Threads :
          \/ \E t \in Topics : Lock(k, t)
          \/ Receive(k) \/ Unlock(k) \/ Callback(k)
          \/ \E p \in Publishers : MapArea(k, p)

Spec == Init /\ [][Next]_vars

-----------------------------------------------------------------------------
\* No callback reads memory that its process has not mapped, whichever subscription
\* was told of the pool and whichever thread got that far.
ReadsMapped == \A k \in Threads : pc[k] = "callback" => \A x \in held[k] : x[1] \in mapped

\* A publisher brings a reader down only if its exit is handled while the reader is
\* about to map its pool; a pool of one that was cleaned up before is never named.
OnlyLateExitsFatal == fatal => late # {}

=============================================================================
