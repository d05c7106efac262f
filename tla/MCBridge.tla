------------------------------ MODULE MCBridge ------------------------------
(***************************************************************************)
(* The bridges of two IPC namespaces, and the threads and the event loop   *)
(* of one bridge manager.  What the worker does with a message is the      *)
(* former's, how the message reaches it the latter's: a behaviour          *)
(* exercises one of them, the other rests.                                 *)
(***************************************************************************)
EXTENDS Bridge, TLC

CONSTANTS n1, n2, Senders, Malformed, Capacity, MaxRetries

VARIABLES
    part,   \* the part this behaviour exercises
    fds, main, ready, queue, signal, woken, hand, messages, holder, worker, batch, executor,
    flag, request, sender, arrived, served, cancelLost

loopVars == <<fds, main, ready, queue, signal, woken, hand, messages, holder, worker, batch,
    executor, flag, request, sender, arrived, served, cancelLost>>

M == INSTANCE ManagerLoop WITH pending <- messages

BridgeInit ==
    /\ part \in {"bridges", "threads"} /\ Init /\ M!Init
    /\ part = "threads" => kind = "topic" /\ loadable /\ ros = {} /\ \A n \in Namespaces : app[n] = {}

BridgeNext ==
    \/ part = "bridges" /\ Next /\ UNCHANGED <<part, loopVars>>
    \/ part = "threads" /\ M!Next /\ UNCHANGED <<part, vars>>

BridgeSpec == BridgeInit /\ [][BridgeNext]_<<part, vars, loopVars>>

\* Endpoints of two namespaces are connected through ROS 2, topics and services (Bridge).
BridgesConnect == TypeOK /\ CrossConnects /\ ServiceConnects

\* A bridge stands for a reason, and its service's shadow does (Bridge).
NoLeftOvers == NoZombieBridges /\ NoOrphanShadow

\* No thread of the manager sleeps over a shutdown, and none is joined that nobody has
\* told (ManagerLoop).
ShutdownReachesAll == M!PromptShutdown /\ M!JoinsEnd

\* No bridge message is lost, doubled or overtaken before a shutdown (ManagerLoop).
EnqueuedInOrder == M!EnqueuedInOrder

Symmetry == Permutations({n1, n2})
=============================================================================
