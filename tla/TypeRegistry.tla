---------------------------- MODULE TypeRegistry ----------------------------
(***************************************************************************)
(* How the discovery agent learns what runs in its namespace.  The kernel   *)
(* module lists topics and endpoints, but neither their types nor the pids; *)
(* those come from a file per process in tmpfs, to which the library        *)
(* appends a line for every endpoint it makes.  A tick of the agent reads   *)
(* the files, sweeps those of dead processes, and then asks the kernel, one *)
(* call at a time, while endpoints and processes come and go.               *)
(*                                                                          *)
(* An endpoint is [topic, role, node]; its domain is that of its process.    *)
(* Requests and responses of services travel on topics of their own, whose  *)
(* types have no name.  A pid is not reused.                                *)
(***************************************************************************)
EXTENDS Integers

CONSTANTS
    Pids,
    DomainOf,       \* the domain of a process
    OwnDomain,      \* the domain of the agent
    EndpointsOf,    \* the endpoints a process may make
    ServiceTopics,  \* topics that carry requests or responses of services ...
    ResponseTopics, \* ... and those of them that carry responses
    MaxTicks,       \* bound: ticks of the agent
    MaxFaults       \* bound: writes and ioctls that fail

Endpoints == UNION {EndpointsOf[p] : p \in Pids}

Idle == {}

VARIABLES
    alive,      \* pid -> "new", "up" or "dead"
    making,     \* pid -> the endpoint whose line is written but which is not added yet
    kernel,     \* the kernel's endpoints: {<<pid, endpoint>>}
    files,      \* pid -> [exists, lines, torn (the last line has no end),
                \* lost (it could not be opened)]
    pc, todo,   \* where the agent is in its tick, and what it has yet to visit
    victim,     \* files the sweep has found to be of a dead process
    table,      \* TypeRegistryReader._table: endpoint -> pid
    report,     \* endpoints of the snapshot: {[end, typed, pid]}
    ticks, faults,
    settled,    \* ghost: endpoints of the kernel since the tick began
    unlucky     \* ghost: endpoints whose line was lost

vars == <<alive, making, kernel, files, pc, todo, victim, table, report, ticks, faults,
          settled, unlucky>>
processVars == <<alive, making, kernel, files>>
agentVars == <<pc, todo, victim, table, report, ticks>>

NoFile == [exists |-> FALSE, lines |-> {}, torn |-> FALSE, lost |-> FALSE]

Init ==
    /\ alive = [p \in Pids |-> "new"]
    /\ making = [p \in Pids |-> Idle]
    /\ kernel = {}
    /\ files = [p \in Pids |-> NoFile]
    /\ pc = "idle" /\ todo = {} /\ victim = {} /\ table = <<>> /\ report = {}
    /\ ticks = 0 /\ faults = 0
    /\ settled = {} /\ unlucky = {}

-----------------------------------------------------------------------------
\* The processes

Start(p) ==
    /\ alive[p] = "new"
    /\ alive' = [alive EXCEPT ![p] = "up"]
    /\ UNCHANGED <<making, kernel, files, agentVars, faults, settled, unlucky>>

Busy(p) == making[p] # Idle

\* The type of an endpoint has a name: a service has none.
HasType(e) == e.topic \notin ServiceTopics

\* register_type appends a line.  A write that fails may leave a part of it, and
\* the next line is then read as the rest of it; a process that could not open its
\* file never tries again.  The library goes on regardless.
RegisterType(p, e) ==
    /\ alive[p] = "up" /\ ~Busy(p) /\ <<p, e>> \notin kernel
    /\ HasType(e)
    /\ making' = [making EXCEPT ![p] = {e}]
    /\ \/ /\ ~files[p].lost
          /\ files' = [files EXCEPT ![p].exists = TRUE, ![p].torn = FALSE,
                         ![p].lines = IF files[p].torn THEN @ ELSE @ \cup {e}]
          /\ unlucky' = IF files[p].torn THEN unlucky \cup {<<p, e>>} ELSE unlucky \ {<<p, e>>}
          /\ UNCHANGED faults
       \/ /\ ~files[p].lost /\ faults < MaxFaults /\ faults' = faults + 1
          /\ \/ \E partly \in BOOLEAN :
                   files' = [files EXCEPT ![p].exists = TRUE, ![p].torn = @ \/ partly]
             \/ /\ ~files[p].exists
                /\ files' = [files EXCEPT ![p].lost = TRUE]
          /\ unlucky' = unlucky \cup {<<p, e>>}
       \/ /\ files[p].lost
          /\ unlucky' = unlucky \cup {<<p, e>>}
          /\ UNCHANGED <<files, faults>>
    /\ UNCHANGED <<alive, kernel, agentVars, settled>>

\* ADD_PUBLISHER or ADD_SUBSCRIBER, after the line
AddEndpoint(p, e) ==
    /\ alive[p] = "up" /\ e \in making[p]
    /\ making' = [making EXCEPT ![p] = Idle]
    /\ kernel' = kernel \cup {<<p, e>>}
    /\ UNCHANGED <<alive, files, agentVars, faults, settled, unlucky>>

\* An endpoint of a service is added without a line.
AddServiceEndpoint(p, e) ==
    /\ alive[p] = "up" /\ ~Busy(p) /\ <<p, e>> \notin kernel
    /\ ~HasType(e)
    /\ kernel' = kernel \cup {<<p, e>>}
    /\ UNCHANGED <<alive, making, files, agentVars, faults, settled, unlucky>>

\* The line of an endpoint stays when the endpoint goes.
RemoveEndpoint(p, e) ==
    /\ alive[p] = "up" /\ <<p, e>> \in kernel
    /\ kernel' = kernel \ {<<p, e>>}
    /\ settled' = settled \ {<<p, e>>}
    /\ UNCHANGED <<alive, making, files, agentVars, faults, unlucky>>

\* A process that exits removes its file first; a killed one leaves it.
Exit(p) ==
    /\ alive[p] = "up"
    /\ alive' = [alive EXCEPT ![p] = "dead"]
    /\ files' \in {files, [files EXCEPT ![p] = NoFile]}
    /\ making' = [making EXCEPT ![p] = Idle]
    /\ settled' = {x \in settled : x[1] # p}
    /\ UNCHANGED <<kernel, agentVars, faults, unlucky>>

\* The kernel's exit worker
Cleanup(p) ==
    /\ alive[p] = "dead" /\ \E x \in kernel : x[1] = p
    /\ kernel' = {x \in kernel : x[1] # p}
    /\ UNCHANGED <<alive, making, files, agentVars, faults, settled, unlucky>>

-----------------------------------------------------------------------------
\* A tick of the agent

Existing == {p \in Pids : files[p].exists}

\* rebuild: scandir, then the files one by one into a table of its own
Rebuild ==
    /\ pc = "idle" /\ ticks < MaxTicks
    /\ ticks' = ticks + 1
    /\ pc' = "rebuild" /\ todo' = Existing /\ table' = <<>> /\ report' = {}
    /\ settled' = {x \in kernel : alive[x[1]] = "up"}
    /\ UNCHANGED <<processVars, victim, faults, unlucky>>

IngestFile(p) ==
    /\ pc = "rebuild" /\ p \in todo
    /\ todo' = todo \ {p}
    /\ table' = [e \in files[p].lines \cup DOMAIN table |->
                   IF e \in files[p].lines THEN p ELSE table[e]]
    /\ UNCHANGED <<processVars, pc, victim, report, ticks, faults, settled, unlucky>>

\* cleanup_dead_pids: a second scandir; /proc is looked at first, and the file
\* removed after.
StartSweep ==
    /\ pc = "rebuild" /\ todo = {}
    /\ pc' = "sweep" /\ todo' = Existing
    /\ UNCHANGED <<processVars, victim, table, report, ticks, faults, settled, unlucky>>

\* Mutant: a process without endpoints is taken for dead.
Dead_unlisted(p) == \A x \in kernel : x[1] # p

Dead(p) == alive[p] = "dead"

CheckFile(p) ==
    /\ pc = "sweep" /\ p \in todo /\ victim = {}
    /\ todo' = todo \ {p}
    /\ victim' = IF Dead(p) THEN {p} ELSE {}
    /\ UNCHANGED <<processVars, pc, table, report, ticks, faults, settled, unlucky>>

UnlinkFile(p) ==
    /\ pc = "sweep" /\ p \in victim
    /\ victim' = {}
    /\ files' = [files EXCEPT ![p] = NoFile]
    /\ UNCHANGED <<alive, making, kernel, pc, todo, table, report, ticks, faults, settled, unlucky>>

\* GET_TOPIC_LIST names the topics of all domains, but no topic of responses.
get_topic_list ==
    {<<x[2].topic, DomainOf[x[1]]>> : x \in {y \in kernel : y[2].topic \notin ResponseTopics}}

\* read_local_topics goes on with the topics of its own domain.
OwnTopics == {t[1] : t \in {u \in get_topic_list : u[2] = OwnDomain}}

\* Each has two calls to come.  A call that fails reads as an empty answer.
ListTopics ==
    /\ pc = "sweep" /\ todo = {} /\ victim = {}
    /\ pc' = "read"
    /\ \/ todo' = OwnTopics \X {"pub", "sub"} /\ UNCHANGED <<faults, settled>>
       \/ todo' = {} /\ settled' = {} /\ faults < MaxFaults /\ faults' = faults + 1
    /\ UNCHANGED <<processVars, victim, table, report, ticks, unlucky>>

\* A call is answered for one domain; a topic may be shared with another.
Of(topic, role) ==
    {x \in kernel : x[2].topic = topic /\ x[2].role = role /\ DomainOf[x[1]] = OwnDomain}
get_topic_publisher_info(topic) == {x[2] : x \in Of(topic, "pub")}
get_topic_subscriber_info(topic) == {x[2] : x \in Of(topic, "sub")}

\* The wrapper's call for one topic and role
Rows(t) == IF t[2] = "pub" THEN get_topic_publisher_info(t[1])
           ELSE get_topic_subscriber_info(t[1])

ToEndpoint(e) ==
    [end |-> e, typed |-> e \in DOMAIN table, pid |-> IF e \in DOMAIN table THEN {table[e]} ELSE {}]

CollectEndpoints(t) ==
    /\ pc = "read" /\ t \in todo
    /\ todo' = todo \ {t}
    /\ \/ report' = report \cup {ToEndpoint(e) : e \in Rows(t)} /\ UNCHANGED <<faults, settled>>
       \/ /\ faults < MaxFaults /\ faults' = faults + 1
          /\ settled' = {x \in settled : <<x[2].topic, x[2].role>> # t}
          /\ UNCHANGED report
    /\ UNCHANGED <<processVars, pc, victim, table, ticks, unlucky>>

Publish ==
    /\ pc = "read" /\ todo = {}
    /\ pc' = "published"
    /\ UNCHANGED <<processVars, todo, victim, table, report, ticks, faults, settled, unlucky>>

EndTick ==
    /\ pc = "published"
    /\ pc' = "idle" /\ settled' = {}
    /\ UNCHANGED <<processVars, todo, victim, table, report, ticks, faults, unlucky>>

Next ==
    \/ \E p \in Pids :
          \/ Start(p) \/ Exit(p) \/ Cleanup(p)
          \/ IngestFile(p) \/ CheckFile(p) \/ UnlinkFile(p)
          \/ \E e \in EndpointsOf[p] :
                \/ RegisterType(p, e) \/ AddEndpoint(p, e)
                \/ AddServiceEndpoint(p, e) \/ RemoveEndpoint(p, e)
    \/ Rebuild \/ StartSweep \/ ListTopics \/ Publish \/ EndTick
    \/ \E t \in {e.topic : e \in Endpoints} \X {"pub", "sub"} : CollectEndpoints(t)

Spec == Init /\ [][Next]_vars

-----------------------------------------------------------------------------
\* An endpoint of the agent's domain on a topic that is listed
IsReported(x) == DomainOf[x[1]] = OwnDomain /\ x[2].topic \notin ResponseTopics

\* An endpoint that was in the kernel when the tick began and still is, of a process
\* of the agent's domain that lives, is in the snapshot unless the kernel could not be
\* asked; an endpoint of messages has its type there unless its line was lost: the line
\* is written before the endpoint is added, and the sweep removes no file of a live
\* process.
SettledIsReported ==
    pc = "published" =>
        \A x \in settled : IsReported(x) =>
            \E r \in report : r.end = x[2] /\ (HasType(x[2]) /\ x \notin unlucky => r.typed)

=============================================================================
