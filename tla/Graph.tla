------------------------------- MODULE Graph --------------------------------
(***************************************************************************)
(* What can be asked of the kernel module about processes and nodes, while *)
(* processes come, end, are cleaned up and drained, and pids are used      *)
(* again: NodeGraph::get_node_names (node_graph.cpp), the topics of a node *)
(* (node_info.cpp), and the registry of bridges.  A query runs under the   *)
(* global lock and reads only, so it is an operator; the properties ask it *)
(* in every state, in every order the hash tables may yield.  No domain    *)
(* rules are in force: a topic belongs to the domain of its endpoints.     *)
(***************************************************************************)
EXTENDS Integers, FiniteSets, Bags, SequencesExt

CONSTANTS
    Pids, Topics,
    DomainOf,     \* pid -> the domain of its processes
    Candidates,   \* endpoints that may be made: [topic, role, pid, name, bridge]
    NameHash,     \* name -> its slot in the deduplication table
    MaxNodeNum,   \* MAX_NODE_NUM
    MaxTopicNum,  \* MAX_TOPIC_NUM
    MaxEnds,      \* bound: endpoints at a time
    MaxLives      \* bound: processes that use a pid

\* NODE_NAME_SLOT_NUM: a free slot always ends a search.
SlotNum == 2 * MaxNodeNum

VARIABLES
    proc,    \* pid -> "none", "up", "ended" (not cleaned up yet) or "exited" (not drained yet)
    lives,   \* pid -> processes that have used it
    infos,   \* the publisher_infos and subscriber_infos, a bag: a candidate and a fate.
             \* "open": in use; a publisher that is gone while its messages are read is
             \* "held", and "shut" when they no longer are
    bridge   \* bridge_htable: topic -> [pid, dirs]

vars == <<proc, lives, infos, bridge>>

NoBridge == [pid |-> 0, dirs |-> {}]
InfoSet == BagToSet(infos)
End(c, fate) == [on |-> c, fate |-> fate]

Init ==
    /\ proc = [p \in Pids |-> "none"]
    /\ lives = [p \in Pids |-> 0]
    /\ infos = EmptyBag
    /\ bridge = [t \in Topics |-> NoBridge]

-----------------------------------------------------------------------------
\* Processes, their endpoints and their bridges

\* A pid may be in use again as soon as its former process is gone, but
\* ADD_PROCESS is refused, and the library exits, until the daemon has drained it.
AddProcess(p) ==
    /\ proc[p] = "none" /\ lives[p] < MaxLives
    /\ proc' = [proc EXCEPT ![p] = "up"]
    /\ lives' = [lives EXCEPT ![p] = @ + 1]
    /\ UNCHANGED <<infos, bridge>>

AddEndpoint(c) ==
    /\ proc[c.pid] = "up" /\ BagCardinality(infos) < MaxEnds
    /\ infos' = infos (+) SetToBag({End(c, "open")})
    /\ UNCHANGED <<proc, lives, bridge>>

\* What is left of an endpoint that goes: a publisher whose messages are read stays.
Leaves(c, read) == IF c.role = "pub" /\ read THEN SetToBag({End(c, "held")}) ELSE EmptyBag

RemoveEndpoint(c) ==
    /\ proc[c.pid] = "up" /\ End(c, "open") \in InfoSet
    /\ \E read \in BOOLEAN : infos' = (infos (-) SetToBag({End(c, "open")})) (+) Leaves(c, read)
    /\ UNCHANGED <<proc, lives, bridge>>

\* Mutant: an exited process is alive until the daemon has drained it.
owner_is_alive_until_drained(p) == proc[p] # "none"

\* proc_info is there and not marked; the worker marks it some time after the end.
owner_is_alive(p) == proc[p] \in {"up", "ended"}

\* The last subscriber that reads a publisher's messages goes: the publisher goes
\* with it if its process has exited, and else stays until that does.
LastReaderLeaves(c) ==
    /\ End(c, "held") \in InfoSet
    /\ infos' = (infos (-) SetToBag({End(c, "held")}))
                 (+) (IF owner_is_alive(c.pid) THEN SetToBag({End(c, "shut")}) ELSE EmptyBag)
    /\ UNCHANGED <<proc, lives, bridge>>

ProcessEnds(p) ==
    /\ proc[p] = "up"
    /\ proc' = [proc EXCEPT ![p] = "ended"]
    /\ UNCHANGED <<lives, infos, bridge>>

\* Mutant: the bridges of an exited process stay.
BridgesAfter_all(p) == bridge

BridgesAfter(p) == [t \in Topics |-> IF bridge[t].pid = p THEN NoBridge ELSE bridge[t]]

\* agnocast_process_exit_cleanup goes by the pid of an endpoint.
Cleanup(p) ==
    /\ proc[p] = "ended"
    /\ proc' = [proc EXCEPT ![p] = "exited"]
    /\ \E read \in SUBSET {i \in InfoSet : i.on.pid = p /\ i.on.role = "pub" /\ i.fate = "open"} :
         LET kept == {i \in InfoSet : i.on.pid # p \/ i.fate = "held"}
         IN  infos' = [i \in kept |-> infos[i]]
                       (+) [h \in {End(i.on, "held") : i \in read} |-> infos[End(h.on, "open")]]
    /\ bridge' = BridgesAfter(p)
    /\ UNCHANGED lives

\* GET_EXIT_PROCESS of the unlink daemon, with its commit
Drain(p) ==
    /\ proc[p] = "exited"
    /\ proc' = [proc EXCEPT ![p] = "none"]
    /\ UNCHANGED <<lives, infos, bridge>>

\* A second owner is told of the first (-EEXIST); the first adds a direction.
add_bridge(p, t, dir) ==
    /\ proc[p] = "up" /\ bridge[t].pid \in {0, p}
    /\ bridge' = [bridge EXCEPT ![t] = [pid |-> p, dirs |-> @.dirs \cup {dir}]]
    /\ UNCHANGED <<proc, lives, infos>>

Without(t, dir) ==
    IF bridge[t].dirs \subseteq {dir} THEN NoBridge ELSE [bridge[t] EXCEPT !.dirs = @ \ {dir}]

\* -ENOENT without an entry, -EPERM for another's
remove_bridge(p, t, dir) ==
    /\ proc[p] = "up" /\ bridge[t].pid = p
    /\ bridge' = [bridge EXCEPT ![t] = Without(t, dir)]
    /\ UNCHANGED <<proc, lives, infos>>

Next ==
    \/ \E p \in Pids :
         \/ AddProcess(p) \/ ProcessEnds(p) \/ Cleanup(p) \/ Drain(p)
         \/ \E t \in Topics, dir \in {"r2a", "a2r"} : add_bridge(p, t, dir) \/ remove_bridge(p, t, dir)
    \/ \E c \in Candidates : AddEndpoint(c) \/ RemoveEndpoint(c) \/ LastReaderLeaves(c)

Spec == Init /\ [][Next]_vars

-----------------------------------------------------------------------------
\* GET_NODE_NAMES

Error == <<"ENOBUFS">>
NoCollector == [slots |-> [i \in 0..SlotNum - 1 |-> <<>>], names |-> <<>>, full |-> FALSE]

\* The slot a node is found in, or else the free one it will get: the first of
\* either kind from its hash on.
Slot(slots, node) ==
    LET at(k) == (NameHash[node[2]] + k) % SlotNum
        stops == {k \in 0..SlotNum - 1 : slots[at(k)] \in {<<>>, node}}
    IN  at(CHOOSE k \in stops : \A j \in stops : k <= j)

\* A node is a pid and a name: two processes may have a node of one name.
add_unique_node(col, node) ==
    LET idx == Slot(col.slots, node)
    IN  CASE col.full \/ col.slots[idx] = node -> col
          [] Len(col.names) >= MaxNodeNum -> [col EXCEPT !.full = TRUE]
          [] OTHER -> [col EXCEPT !.slots[idx] = node, !.names = Append(@, node)]

\* One endpoint after the other; not the bridges' own, nor what outlives its process.
collect_node_names(col, i) ==
    IF i.on.bridge \/ ~owner_is_alive(i.on.pid) THEN col
    ELSE add_unique_node(col, <<i.on.pid, i.on.name>>)

InDomain(d) == {i \in InfoSet : DomainOf[i.on.pid] = d}

\* order: the caller's domain's endpoints as the hash tables yield them
agnocast_ioctl_get_node_names(order) ==
    LET col == FoldLeft(collect_node_names, NoCollector, order)
    IN  IF col.full THEN Error ELSE col.names

\* A graph that is too large reads as an empty one.
query_agnocast_node_names(order) ==
    LET answer == agnocast_ioctl_get_node_names(order)
    IN  IF answer = Error THEN <<>> ELSE [k \in 1..Len(answer) |-> answer[k][2]]

\* The caller's own name is added unless it is there.
get_node_names(self, order) ==
    LET names == query_agnocast_node_names(order)
    IN  IF Contains(names, self) THEN names ELSE Append(names, self)

-----------------------------------------------------------------------------
\* GET_NODE_SUBSCRIBER_TOPICS and GET_NODE_PUBLISHER_TOPICS: over all domains, so a
\* topic is listed once for every domain in which the node has it.

TopicsOf(ends) == {<<i.on.topic, DomainOf[i.on.pid]>> : i \in ends}

agnocast_ioctl_get_node_subscriber_topics(name) ==
    TopicsOf({i \in InfoSet : i.on.name = name /\ i.on.role = "sub"})

agnocast_ioctl_get_node_publisher_topics(name) ==
    TopicsOf({i \in InfoSet : i.on.name = name /\ i.on.role = "pub"})

\* The names go into a buffer of MAX_TOPIC_NUM: -ENOBUFS when they do not fit.
Buffered(topics) == IF Cardinality(topics) > MaxTopicNum THEN {Error} ELSE topics

get_node_subscriber_topics_cmd(name) == Buffered(agnocast_ioctl_get_node_subscriber_topics(name))
get_node_publisher_topics_cmd(name) == Buffered(agnocast_ioctl_get_node_publisher_topics(name))

\* A failure reads as "no topics".
get_agnocast_sub_topics(name) == get_node_subscriber_topics_cmd(name) \ {Error}
get_agnocast_pub_topics(name) == get_node_publisher_topics_cmd(name) \ {Error}

-----------------------------------------------------------------------------
\* The nodes of a domain that are there: an endpoint is open in a process that runs.
LiveNodes(d) ==
    {<<i.on.pid, i.on.name>> : i \in {j \in InDomain(d) : j.fate = "open" /\ proc[j.on.pid] = "up" /\ ~j.on.bridge}}

\* Nodes that are gone but may be listed: the end of their process has not been seen,
\* or their messages are read, and their pid is that of a running process: the same
\* one, or one that has come since.
Lingering(d) ==
    {<<i.on.pid, i.on.name>> :
       i \in {j \in InDomain(d) : ~j.on.bridge /\ proc[j.on.pid] \in {"up", "ended"}}}
      \ LiveNodes(d)

\* get_node_names lists every node that is there, once for each process that has it,
\* and no other but those that linger; when they are too many it lists the caller only.
\* A cleaned-up process leaves no node behind, in whatever order the tables are read
\* (add_unique_node, owner_is_alive, NodeGraph::get_node_names).
NamesExact ==
    \A p \in {q \in Pids : proc[q] = "up"} :
      LET d == DomainOf[p]
          possible == LiveNodes(d) \cup Lingering(d)
      IN  \A order \in SetToSeqs(InDomain(d)) :
            LET answer == agnocast_ioctl_get_node_names(order)
                nodes == ToSet(answer)
            IN  IF answer = Error
                THEN /\ Cardinality(possible) > MaxNodeNum
                     /\ \A self \in DOMAIN NameHash : get_node_names(self, order) = <<self>>
                ELSE /\ LiveNodes(d) \subseteq nodes /\ nodes \subseteq possible
                     /\ Len(answer) = Cardinality(nodes)

\* The topics of a node are listed all or not at all, and a topic it is said to
\* subscribe to is that of a process whose end has not been cleaned up; a topic it is
\* said to publish may be that of an exited process whose messages are still read.
TopicsExact ==
    \A i \in InfoSet :
      LET subscribed == get_agnocast_sub_topics(i.on.name)
          published == get_agnocast_pub_topics(i.on.name)
          here == <<i.on.topic, DomainOf[i.on.pid]>>
      IN  /\ i.on.role = "sub" => subscribed = {} \/ here \in subscribed
          /\ i.on.role = "pub" => published = {} \/ here \in published
          /\ i.on.role = "sub" => i.fate = "open" /\ proc[i.on.pid] \in {"up", "ended"}

\* What the kernel module says of nodes and their topics is right in every state.
GraphExact == NamesExact /\ TopicsExact

\* A bridge in the registry has a direction, and an owner that has not been cleaned up:
\* nobody is turned away by an owner that is gone, not even when its pid comes back.
BridgesOwned ==
    \A t \in Topics : bridge[t] # NoBridge =>
        bridge[t].dirs # {} /\ proc[bridge[t].pid] \in {"up", "ended"}

=============================================================================
