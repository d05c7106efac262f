------------------------------ MODULE MCTools -------------------------------
(***************************************************************************)
(* What runs beside the applications.  In the kernel module: the domain    *)
(* rules a tool declares, and the nodes and bridges others ask for.        *)
(* Outside: the discovery agent with its type registry, and the thread     *)
(* configurator with the entries whose threads announce themselves and the *)
(* kernel threads and IRQs it scans.  The parts share no state here: a     *)
(* behaviour exercises one of them while the others rest.                  *)
(***************************************************************************)
EXTENDS DomainRules, TLC

CONSTANTS Pids, ProcessDomain, OwnDomain, EndpointsOf, ServiceTopics, ResponseTopics,
    MaxTicks, MaxFaults,
    Topics, DomainOf, Candidates, NameHash, MaxNodeNum, MaxTopicNum, MaxEnds, MaxLives,
    Groups, NodeOf, ThreadNames, Files, Invalid, First, MaxTid, MaxReapplies, MaxFailures,
    Tids, Irqs, Cpus, ThreadStates, IrqStates, Edits, MaxChanges

VARIABLES
    part,   \* the part this behaviour exercises
    alive, making, kernel, files, pc, todo, victim, table, report, ticks, faults,
    settled, unlucky,
    proc, lives, infos, bridge,
    file, cb, nrt, unapplied, configPc, parsed, configTodo, thread, sched, topic, socket,
    lastTid, reapplies, failures, known, refused,
    threads, irqs, balance, systemFile, entries, systemPc, scan, systemTodo, balanceSeen,
    outcome, touched, asDumped, changes

agentVars == <<alive, making, kernel, files, pc, todo, victim, table, report, ticks, faults,
               settled, unlucky>>
graphVars == <<proc, lives, infos, bridge>>
configVars == <<file, cb, nrt, unapplied, configPc, parsed, configTodo, thread, sched, topic,
                socket, lastTid, reapplies, failures, known, refused>>
systemVars == <<threads, irqs, balance, systemFile, entries, systemPc, scan, systemTodo,
                balanceSeen, outcome, touched, asDumped, changes>>

T == INSTANCE TypeRegistry WITH DomainOf <- ProcessDomain
G == INSTANCE Graph
C == INSTANCE ThreadConfigurator WITH Names <- ThreadNames, pc <- configPc, todo <- configTodo
S == INSTANCE SystemConfig WITH file <- systemFile, pc <- systemPc, todo <- systemTodo

\* An endpoint has one of two roles.
ASSUME RegistryAssumption == \A e \in T!Endpoints : e.role \in {"pub", "sub"}

\* Threads and IRQs have numbers; a thread has a priority or a nice value in the range of
\* its policy; the user writes one number or none.
ASSUME SystemAssumption ==
    /\ Tids \subseteq Nat /\ Irqs \subseteq Nat /\ Cpus \subseteq Int
    /\ ThreadStates \subseteq
          [comm : STRING, policy : STRING, tunable : Int, affinity : SUBSET Int, fixed : BOOLEAN]
    /\ \A i \in ThreadStates :
          i.policy \in {"OTHER", "FIFO"} => i.tunable \in S!Tunables(i.policy)
    /\ IrqStates \subseteq [actions : STRING, affinity : SUBSET Int, managed : BOOLEAN]
    /\ \A y \in Edits : \A number \in {y.nice, y.priority, y.deadline} :
          number \subseteq Int /\ \A m, n \in number : m = n

\* Groups and other threads are told apart, and a valid file has finitely many entries.
ASSUME ConfigAssumption ==
    /\ Groups \cap ThreadNames = {}
    /\ First # Invalid
    /\ \A f \in (Files \cup {First}) \ {Invalid} :
          IsFiniteSet(DOMAIN f.cb) /\ IsFiniteSet(DOMAIN f.nrt)

ToolsInit ==
    /\ part \in {"rules", "agent", "graph", "announced", "scanned"}
    /\ Init /\ T!Init /\ G!Init /\ C!Init /\ S!Init
    /\ part # "scanned" =>   \* one state is enough for a part that rests
          /\ \A t \in Tids : threads[t] = CHOOSE s \in ThreadStates : TRUE
          /\ \A n \in Irqs : irqs[n] = CHOOSE s \in IrqStates : TRUE

ToolsNext ==
    \/ part = "rules" /\ Next /\ UNCHANGED <<part, agentVars, graphVars, configVars, systemVars>>
    \/ part = "agent" /\ T!Next /\ UNCHANGED <<part, vars, graphVars, configVars, systemVars>>
    \/ part = "graph" /\ G!Next /\ UNCHANGED <<part, vars, agentVars, configVars, systemVars>>
    \/ part = "announced" /\ C!Next /\ UNCHANGED <<part, vars, agentVars, graphVars, systemVars>>
    \/ part = "scanned" /\ S!Next /\ UNCHANGED <<part, vars, agentVars, graphVars, configVars>>

ToolsSpec ==
    ToolsInit /\ [][ToolsNext]_<<part, vars, agentVars, graphVars, configVars, systemVars>>

\* DomainRules: a cell is under one rule at most, and topics are grouped by it.
RulesHold == OneRulePerCell /\ GroupedByRule /\ RedeclareAccepted

\* TypeRegistry: an endpoint that outlives a whole tick is reported, and one of messages
\* with its type.
SettledIsReported == T!SettledIsReported

\* Graph: what is said of nodes and topics is right, and bridges have owners.
GraphExact == G!GraphExact /\ G!BridgesOwned

\* ThreadConfigurator: no announcement is lost between a reapply and the listeners, the
\* count of entries without a thread is right, and a thread runs with what the file in
\* force says.
AnnouncementsKept == C!CountExact /\ C!NoAnnouncementDropped /\ C!Governed

\* SystemConfig: what a pass reports as applied holds when it ends, and a pass over the
\* unedited template changes nothing.
PassHonest == S!AppliedIsEnsured /\ S!TemplateIsNoOp

-----------------------------------------------------------------------------
TopicSpec(name, remap, from, to, both, reversed) ==
    [topic |-> name, remap |-> remap, from |-> from, to |-> to,
     both |-> both, reversed |-> reversed]
MCNames == {<<"a">>, <<"a", "b">>}
MCSpecs ==
    {TopicSpec(<<"a", "b">>, <<"a", "b">>, 1, 2, TRUE, FALSE),
     TopicSpec(<<"a">>, <<"a", "b">>, 1, 2, TRUE, FALSE),
     TopicSpec(<<"a", "b">>, <<"a", "b">>, 2, 3, FALSE, TRUE)}
MCPrefixes == {<< <<"a">>, 1, 2>>, << <<"a">>, 2, 1>>, << <<"a", "b">>, 1, 2>>,
               << <<"a", "b">>, 3, 2>>, << <<"a">>, 3, 3>>}
Makes(topics) == [topic : topics, role : {"pub"}, node : {"n"}]
MCEndpointsOf == (1 :> Makes({"t", "request", "response"})) @@ (2 :> Makes({"t"}))
MCProcessDomain == [p \in Pids |-> p]
MCDomainOf == [p \in Pids |-> 1]
MCCandidates ==
    {[topic |-> "t", role |-> "pub", pid |-> 1, name |-> "m", bridge |-> FALSE],
     [topic |-> "u", role |-> "sub", pid |-> 1, name |-> "n", bridge |-> FALSE],
     [topic |-> "t", role |-> "pub", pid |-> 2, name |-> "m", bridge |-> FALSE],
     [topic |-> "u", role |-> "pub", pid |-> 2, name |-> "m", bridge |-> FALSE],
     [topic |-> "t", role |-> "sub", pid |-> 2, name |-> "b", bridge |-> TRUE]}
MCNameHash == [n \in {"m", "n", "b"} |-> IF n = "b" THEN 0 ELSE 3]

MCNodeOf == [g \in Groups |-> "n"]
MCFirst == [cb |-> (<<"node", "n">> :> "a"), nrt |-> ("x" :> "a")]
MCFiles ==
    {MCFirst, Invalid,
     [cb |-> (<<"node", "n">> :> "b") @@ (<<"id", "g">> :> "c"), nrt |-> ("x" :> "b")],
     [cb |-> (<<"id", "g">> :> "a"), nrt |-> <<>>]}

Entry(p, n, r, d, a) ==
    [policy |-> p, nice |-> n, priority |-> r, deadline |-> d, affinity |-> a]
MCEdits ==
    {Entry("FIFO", {}, {2}, {}, {0}), Entry("FIFO", {1}, {}, {}, {}),
     Entry("OTHER", {19}, {}, {}, {0, 1}), Entry("OTHER", {20}, {}, {}, {}),
     Entry("DEADLINE", {}, {}, {5}, {1}), Entry("unset", {}, {1}, {}, {0}),
     Entry("unset", {}, {}, {}, {0}), Entry("OTHER", {1}, {}, {}, {2})}

KernelThread(p, a, f) ==
    [comm |-> "k", policy |-> p, tunable |-> 1, affinity |-> a, fixed |-> f]
MCThreadStates ==
    {KernelThread("OTHER", {0, 1, 2}, FALSE), KernelThread("OTHER", {0}, TRUE),
     KernelThread("FIFO", {0}, TRUE), KernelThread("EXT", {0, 1}, FALSE),
     KernelThread("DEADLINE", {2}, FALSE)}
MCIrqStates ==
    [actions : {"disk"}, affinity : {{0}, {0, 1, 2}}, managed : BOOLEAN]
        \cup {[actions |-> "", affinity |-> {0}, managed |-> FALSE]}

=============================================================================
