---------------------------- MODULE MCProcesses ----------------------------
(***************************************************************************)
(* Instances of Processes for TLC.  PoolsSpec joins two: one with unlink   *)
(* daemon and bridge manager, whose pools run out while daemons are        *)
(* killed, and one with bridge manager and discovery agent and as many     *)
(* pools as there are processes; and with them the loading and removal of  *)
(* the kernel module, which shares no state with Processes.                *)
(***************************************************************************)
EXTENDS Processes

CONSTANTS Procs, MaxLoads

VARIABLES
  part,
  stage, going, teardown, held, thread, stopping, exitQueue, taken, registry,
  pooled, exited, proc, fault, loads, early

UnlinkOnly == {"unlink"}
UnlinkAndBridge == {"unlink", "bridge"}
BridgeAndAgent == {"bridge", "agent"}
OneDomain == {"d0"}

P == INSTANCE Processes WITH
       MaxApps <- 3, MaxPid <- 4, MempoolNum <- 3, QueueSize <- 4,
       Daemons <- UnlinkAndBridge, Subscribing <- TRUE, DaemonsKilled <- TRUE

L == INSTANCE ModuleLoad WITH worker <- thread, queue <- exitQueue, cleaning <- taken
loadVars == <<stage, going, teardown, held, thread, stopping, exitQueue, taken,
              registry, pooled, exited, proc, fault, loads, early>>

PoolsInit ==
  /\ \/ part \in {"daemons", "loading"} /\ Init
     \/ part = "pools" /\ P!Init
  /\ L!Init
PoolsNext ==
  \/ part = "daemons" /\ Next /\ UNCHANGED <<part, loadVars>>
  \/ part = "pools" /\ P!Next /\ UNCHANGED <<part, loadVars>>
  \/ part = "loading" /\ L!Next /\ UNCHANGED <<part, vars>>
PoolsSpec == PoolsInit /\ [][PoolsNext]_<<part, vars, loadVars>>

\* Every running application has a bridge manager and a discovery agent, and no two of
\* them are at work (Processes); every exit has a worker to go to while the module is
\* loaded or removed, and what the module acquired is released (ModuleLoad).
NoneUnattended ==
  /\ part = "daemons" => TypeOK /\ BridgeManagerCovers /\ AgentCovers /\ Singletons
  /\ part = "pools" => P!TypeOK /\ P!Singletons
  /\ part = "loading" =>
       L!NothingStays /\ L!ProbeHasWorker /\ L!ExitAttended /\ L!FaultsOnlyEarly

-----------------------------------------------------------------------------
\* The instance that is followed to the end.
ReclaimInit == part = "reclaim" /\ Init /\ L!Init
ReclaimSpec ==
  /\ ReclaimInit
  /\ [][Next /\ UNCHANGED <<part, loadVars>>]_<<part, vars, loadVars>>
  /\ WF_vars(WorkerStep) /\ \A p \in Pids : WF_vars(UnlinkDaemonStep(p))

\* A shared memory file has a daemon that will see its owner exit, and the file of a
\* dead process is known to the registry or to a daemon (Processes).
UnlinkingCovered == UnlinkDaemonCovers /\ LeftBehindIsKnown

\* Files and pools of the dead are reclaimed in the end (Processes).
Reclaimed == ShmReclaimed /\ PoolsReclaimed
=============================================================================
