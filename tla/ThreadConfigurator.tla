------------------------- MODULE ThreadConfigurator -------------------------
(***************************************************************************)
(* The thread configurator: a daemon that gives threads the scheduling      *)
(* attributes a YAML file asks for.  Callback groups announce their thread  *)
(* over a topic, other threads over a datagram socket.  The topic and the   *)
(* reapply service are served by one executor thread; the socket by a       *)
(* listener thread of its own, which takes non_ros_state_mutex_.            *)
(*                                                                          *)
(* An entry of the file is <<"id", g>> for one callback group, <<"node", n>> *)
(* for the wildcard of a node, or the name of a non-ROS thread.  A thread   *)
(* id is used once: what a reused one does is described in the README.      *)
(***************************************************************************)
EXTENDS Integers, Sequences, FiniteSets, FiniteSetsExt, Functions

CONSTANTS
    Groups, NodeOf,   \* callback groups and the node each belongs to
    Names,            \* non-ROS threads
    Files,            \* what the YAML file may hold: [cb, nrt], or Invalid
    Invalid,          \* a file that does not parse or validate
    First,            \* the file at start-up
    MaxTid,           \* bound: threads ever started
    MaxReapplies,     \* bound: calls of the reapply service
    MaxFailures       \* bound: system calls that fail

None == -1

VARIABLES
    file,       \* the contents of config_file_
    cb,         \* callback_group_configs_ with its two indexes
    nrt,        \* non_ros_thread_configs_ with its index
    unapplied,  \* unapplied_num_
    pc,         \* where the reapply handler is
    parsed,     \* new_nrt of the running reapply
    todo,       \* the callback-group entries the reapply has yet to visit
    thread,     \* the live thread of each group and name
    sched,      \* the attributes each thread runs with
    topic,      \* announcements on the topic that are not delivered yet
    socket,     \* datagrams the listener has not read
    lastTid, reapplies, failures,   \* bounds
    known,      \* ghost: the last announcement handled while it was configured
    refused     \* ghost: threads whose last system call failed

vars == <<file, cb, nrt, unapplied, pc, parsed, todo, thread, sched, topic, socket,
          lastTid, reapplies, failures, known, refused>>

Fresh(f) == [k \in DOMAIN f |-> [attrs |-> f[k], tid |-> None, matched |-> <<>>, applied |-> FALSE]]

Unapplied(f) == Cardinality({k \in DOMAIN f : ~f[k].applied})

Init ==
    /\ file = First
    /\ cb = Fresh(First.cb) /\ nrt = Fresh(First.nrt)
    /\ unapplied = Cardinality(DOMAIN First.cb) + Cardinality(DOMAIN First.nrt)
    /\ pc = "idle" /\ parsed = <<>> /\ todo = {}
    /\ thread = [x \in Groups \cup Names |-> None]
    /\ sched = <<>>
    /\ topic = <<>> /\ socket = <<>>
    /\ lastTid = 0 /\ reapplies = 0 /\ failures = 0
    /\ known = [x \in Groups \cup Names |-> None]
    /\ refused = {}

-----------------------------------------------------------------------------
\* The world: threads start, and start anew, and announce themselves

Start(x) ==
    /\ lastTid < MaxTid
    /\ lastTid' = lastTid + 1
    /\ thread' = [thread EXCEPT ![x] = lastTid']
    /\ sched' = [t \in 1 .. lastTid' |-> IF t = lastTid' THEN "default" ELSE sched[t]]
    /\ UNCHANGED <<file, cb, nrt, unapplied, pc, parsed, todo, reapplies, failures,
                   known, refused>>

StartGroup(g) ==
    /\ Start(g)
    /\ topic' = Append(topic, [who |-> g, tid |-> lastTid'])
    /\ UNCHANGED socket

\* Nobody reads the socket for a second: the sender gives up.
StartThread(n) ==
    /\ Start(n)
    /\ \/ socket' = Append(socket, [who |-> n, tid |-> lastTid'])
       \/ UNCHANGED socket
    /\ UNCHANGED topic

EditFile(f) ==
    /\ f # file
    /\ file' = f
    /\ UNCHANGED <<cb, nrt, unapplied, pc, parsed, todo, thread, sched, topic, socket,
                   lastTid, reapplies, failures, known, refused>>

-----------------------------------------------------------------------------
\* issue_syscalls on the threads in jobs, a function from thread ids to the
\* attributes they are to get.  A thread that is gone refuses (ESRCH); any other
\* may, and then runs with its old attributes or with a part of the new ones.

Alive(t) == \E x \in DOMAIN thread : thread[x] = t

IssueSyscalls(jobs, Failing) ==
    /\ {t \in DOMAIN jobs : ~Alive(t)} \subseteq Failing
    /\ failures + Cardinality({t \in Failing : Alive(t)}) <= MaxFailures
    /\ failures' = failures + Cardinality({t \in Failing : Alive(t)})
    /\ \E partly \in SUBSET {t \in Failing : Alive(t)} :
          sched' = [t \in DOMAIN sched |->
                      IF t \in DOMAIN jobs \ Failing THEN jobs[t]
                      ELSE IF t \in partly THEN "mixed" ELSE sched[t]]
    /\ refused' = (refused \ DOMAIN jobs) \cup Failing

\* The entry for a callback group: its own, or else the wildcard of its node.
EntryFor(g) == IF <<"id", g>> \in DOMAIN cb THEN <<"id", g>> ELSE <<"node", NodeOf[g]>>

\* Stale tracking in the wildcard goes when the group's own entry takes over.
Untracked_kept(k, g) == cb

Untracked(k, g) ==
    [e \in DOMAIN cb |-> IF k[1] = "id" /\ e = <<"node", NodeOf[g]>>
                         THEN [cb[e] EXCEPT !.matched = Restrict(@, DOMAIN @ \ {g})]
                         ELSE cb[e]]

\* The wildcard's record of a thread.
Matched(m, g, t) == [h \in DOMAIN m \cup {g} |-> IF h = g THEN t ELSE m[h]]

\* callback_group_callback: the thread id is kept before the system calls, so
\* that a reapply can retry them.
CallbackGroupCallback(Failing) ==
    /\ pc = "idle" /\ topic # <<>>
    /\ topic' = Tail(topic)
    /\ LET g == Head(topic).who
           t == Head(topic).tid
           k == EntryFor(g)
       IN  \/ /\ k \notin DOMAIN cb
              /\ Failing = {}
              /\ UNCHANGED <<cb, unapplied, sched, failures, known, refused>>
           \/ /\ k \in DOMAIN cb
              /\ Failing \subseteq {t}
              /\ IssueSyscalls([u \in {t} |-> cb[k].attrs], Failing)
              /\ LET u == Untracked(k, g)[k]
                     e == IF k[1] = "node" THEN [u EXCEPT !.matched = Matched(@, g, t)]
                                           ELSE [u EXCEPT !.tid = t]
                     done == Failing = {}
                 IN  /\ cb' = [Untracked(k, g) EXCEPT
                                 ![k] = [e EXCEPT !.applied = @ \/ done]]
                     /\ unapplied' = IF done /\ ~cb[k].applied THEN unapplied - 1 ELSE unapplied
              /\ known' = [known EXCEPT ![g] = t]
    /\ UNCHANGED <<file, nrt, pc, parsed, todo, thread, socket, lastTid, reapplies>>

\* NonRosThreadInfoListener::run: the datagrams are handled in the order they came.
NextDatagram == Head(socket)

\* non_ros_thread_callback, on the listener thread under the mutex
NonRosThreadCallback(Failing) ==
    /\ socket # <<>>
    /\ socket' = Tail(socket)
    /\ LET n == NextDatagram.who
           t == NextDatagram.tid
       IN  \/ /\ n \notin DOMAIN nrt
              /\ Failing = {}
              /\ UNCHANGED <<nrt, unapplied, sched, failures, known, refused>>
           \/ /\ n \in DOMAIN nrt
              /\ Failing \subseteq {t}
              /\ IssueSyscalls([u \in {t} |-> nrt[n].attrs], Failing)
              /\ nrt' = [nrt EXCEPT ![n].tid = t, ![n].applied = @ \/ Failing = {}]
              /\ unapplied' = IF Failing = {} /\ ~nrt[n].applied THEN unapplied - 1 ELSE unapplied
              /\ known' = [known EXCEPT ![n] = t]
    /\ UNCHANGED <<file, cb, pc, parsed, todo, thread, topic, lastTid, reapplies>>

-----------------------------------------------------------------------------
\* on_reapply_config_request

\* Thread ids are carried over between entries of the same form.
CarryOver(new, old) ==
    [k \in DOMAIN new |->
        IF k \in DOMAIN old
        THEN [new[k] EXCEPT !.tid = old[k].tid, !.matched = old[k].matched] ELSE new[k]]

\* The whole file is parsed before anything is touched; then the callback-group
\* entries are replaced.
ReapplyLoad ==
    /\ pc = "idle" /\ reapplies < MaxReapplies
    /\ reapplies' = reapplies + 1
    /\ \/ file = Invalid /\ UNCHANGED <<cb, pc, parsed, known>>
       \/ /\ file # Invalid
          /\ cb' = CarryOver(Fresh(file.cb), cb)
          /\ parsed' = Fresh(file.nrt)
          /\ known' = [x \in DOMAIN known |->
                         IF x \in Groups /\ \A e \in DOMAIN cb' :
                               cb'[e].tid # known[x] /\ known[x] \notin Range(cb'[e].matched)
                         THEN None ELSE known[x]]
          /\ pc' = "swap"
    /\ UNCHANGED <<file, nrt, unapplied, todo, thread, sched, topic, socket, lastTid,
                   failures, refused>>

\* Carry-over, swap and the recount of the non-ROS entries under one lock.
ReapplySwapNonRos_split ==
    /\ pc = "swap"
    /\ nrt' = parsed
    /\ unapplied' = Cardinality(DOMAIN cb) + Cardinality(DOMAIN parsed)
    /\ known' = [x \in DOMAIN known |->
                   IF x \in Names \ (DOMAIN parsed \cap DOMAIN nrt) THEN None ELSE known[x]]
    /\ todo' = DOMAIN cb
    /\ pc' = "groups"
    /\ UNCHANGED <<file, cb, parsed, thread, sched, topic, socket, lastTid, reapplies,
                   failures, refused>>

ReapplySwapNonRos ==
    /\ pc = "swap"
    /\ nrt' = CarryOver(parsed, nrt)
    /\ unapplied' = Cardinality(DOMAIN cb) + Cardinality(DOMAIN parsed)
    /\ known' = [x \in DOMAIN known |->
                   IF x \in Names \ (DOMAIN parsed \cap DOMAIN nrt) THEN None ELSE known[x]]
    /\ todo' = DOMAIN cb
    /\ pc' = "groups"
    /\ UNCHANGED <<file, cb, parsed, thread, sched, topic, socket, lastTid, reapplies,
                   failures, refused>>

\* The threads an entry knows of, and the attributes they are to get.
Jobs(e) == [t \in ({e.tid} \ {None}) \cup Range(e.matched) |-> e.attrs]

\* One callback-group entry; a wildcard counts once, however many it matched.
ReapplyGroup(Failing) ==
    /\ pc = "groups" /\ todo # {}
    /\ LET k == CHOOSE x \in todo : TRUE
           jobs == Jobs(cb[k])
           some == DOMAIN jobs \ Failing # {}
       IN  /\ Failing \subseteq DOMAIN jobs
           /\ IssueSyscalls(jobs, Failing)
           /\ cb' = [cb EXCEPT ![k].applied = some]
           /\ unapplied' = IF some THEN unapplied - 1 ELSE unapplied
           /\ todo' = todo \ {k}
    /\ UNCHANGED <<file, nrt, pc, parsed, thread, topic, socket, lastTid, reapplies, known>>

\* The loop over the non-ROS entries, under the mutex: the listener may have
\* configured one of them since the swap.
Newly_all(ok) == ok

Newly(ok) == {n \in ok : ~nrt[n].applied}

ReapplyNonRos(Failing) ==
    /\ pc = "groups" /\ todo = {}
    /\ LET tracked == {n \in DOMAIN nrt : nrt[n].tid # None}
           jobs == [t \in {nrt[n].tid : n \in tracked} |->
                      nrt[CHOOSE n \in tracked : nrt[n].tid = t].attrs]
           ok == {n \in tracked : nrt[n].tid \notin Failing}
       IN  /\ Failing \subseteq DOMAIN jobs
           /\ IssueSyscalls(jobs, Failing)
           /\ nrt' = [n \in DOMAIN nrt |-> [nrt[n] EXCEPT !.applied = @ \/ n \in ok]]
           /\ unapplied' = unapplied - Cardinality(Newly(ok))
    /\ pc' = "idle"
    /\ UNCHANGED <<file, cb, parsed, todo, thread, topic, socket, lastTid, reapplies, known>>

Next ==
    \/ \E g \in Groups : StartGroup(g)
    \/ \E n \in Names : StartThread(n)
    \/ \E f \in Files : EditFile(f)
    \/ \E F \in SUBSET (1 .. lastTid) :
          \/ CallbackGroupCallback(F) \/ NonRosThreadCallback(F)
          \/ ReapplyGroup(F) \/ ReapplyNonRos(F)
    \/ ReapplyLoad \/ ReapplySwapNonRos

Spec == Init /\ [][Next]_vars

-----------------------------------------------------------------------------
\* Properties

\* unapplied_num_ is the number of entries without `applied', although the
\* listener counts down while a reapply replaces the entries it counts: the only
\* window is the one in which the handler has replaced half of them.
CountExact == pc # "swap" => unapplied = Unapplied(cb) + Unapplied(nrt)

\* No announcement is dropped by a reapply that runs at the same time: the last
\* thread id a configured group or name announced is on record until the entry
\* that holds it leaves the file.
NoAnnouncementDropped ==
    \A x \in Groups \cup Names : known[x] # None =>
        IF x \in Names THEN nrt[x].tid = known[x]
        ELSE \E e \in DOMAIN cb : known[x] \in DOMAIN Jobs(cb[e])

\* The live threads on record run with the attributes of their entry.
Obeyed(f) ==
    \A e \in DOMAIN f : \A t \in DOMAIN Jobs(f[e]) \ refused :
        Alive(t) => sched[t] = f[e].attrs

\* A thread is given the attributes of one entry: a group that its own entry has
\* taken over is no longer known to the wildcard of its node, and whenever no
\* reapply is under way, a live thread on record runs with the attributes of its
\* entry in the loaded file unless its last system call was refused.
Governed ==
    /\ \A g \in Groups : <<"id", g>> \in DOMAIN cb /\ cb[<<"id", g>>].tid # None =>
          \A e \in DOMAIN cb : g \notin DOMAIN cb[e].matched
    /\ pc = "idle" => Obeyed(cb) /\ Obeyed(nrt)

=============================================================================
