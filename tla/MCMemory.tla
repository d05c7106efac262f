------------------------------ MODULE MCMemory ------------------------------
(***************************************************************************)
(* Shared memory in the processes: the pools a reader maps, the blocks a   *)
(* writer takes from its own, the messages it borrows, and the pointers a  *)
(* polling subscription hands out.  No state they share matters to any of  *)
(* them: a behaviour exercises one while the others rest.                  *)
(***************************************************************************)
EXTENDS TakeSubscription

CONSTANTS t1, t2, Publishers, Self, Topics, MaxPublishers, PoolSize, Sizes, Aligns, Handles, MaxCalls,
    Loaners, Erased, LoanDepth, MaxLoans, MaxShares, LoanPrograms

ASSUME MappingAssumption == MaxPublishers \in Nat

ASSUME LoanAssumption ==
    MaxLoans \in Nat /\ LoanPrograms \subseteq [careful : BOOLEAN, confined : BOOLEAN]

VARIABLES
    part,   \* the part this behaviour exercises
    proc, infos, sent, nodes, others, received, need, listed, mapped, mutex, step, topic, todo, held,
    exits, late,
    up, shm, forked, borrowed, ptrs, heap, mem, calls, wrong,
    user, made, loans, block, handles, memory, contents, tree, read, work, ended

mapVars == <<proc, infos, sent, nodes, others, received, need, listed, mapped, mutex, step, topic,
             todo, held, exits, late>>
heapVars == <<up, shm, forked, borrowed, ptrs, heap, mem, calls, wrong>>
loanVars == <<user, made, loans, block, handles, memory, contents, tree, read, work, ended>>

M == INSTANCE ShmMapping WITH entries <- nodes, got <- received, pc <- step, fatal <- exits
H == INSTANCE Heaphook WITH blocks <- heap
L == INSTANCE LoanedMessage WITH program <- user, up <- made, borrowed <- loans, failed <- ended,
         Publishers <- Loaners, Depth <- LoanDepth, MaxCopies <- MaxShares,
         Programs <- LoanPrograms

MemoryInit ==
    /\ part \in {"take", "mapping", "heap", "loans"} /\ Init /\ M!Init /\ H!Init /\ L!Init
    /\ part # "take" => program = CHOOSE p \in Programs : TRUE
    /\ part # "loans" => user = CHOOSE p \in LoanPrograms : TRUE

MemoryNext ==
    \/ part = "take" /\ Next /\ UNCHANGED <<part, mapVars, heapVars, loanVars>>
    \/ part = "mapping" /\ M!Next /\ UNCHANGED <<part, vars, heapVars, loanVars>>
    \/ part = "heap" /\ H!Next /\ UNCHANGED <<part, vars, mapVars, loanVars>>
    \/ part = "loans" /\ L!Next /\ UNCHANGED <<part, vars, mapVars, heapVars>>

MemorySpec == MemoryInit /\ [][MemoryNext]_<<part, vars, mapVars, heapVars, loanVars>>

\* TakeSubscription: a pointer keeps its message, no release fails, no reference outlives
\* its pointers, and take(true) keeps up with the publisher.
TakenStaysValid == [](TypeOK /\ BlocksBacked /\ NeverFails /\ BitsOwned) /\ LagBounded

\* ShmMapping: what a callback reads is mapped, and only an exit that comes between the
\* ioctl and the mapping brings the reader down.
ReadsMapped == M!TypeOK /\ M!ReadsMapped /\ M!OnlyLateExitsFatal

\* Heaphook: headers, data and bounds of the blocks in a pool hold, and a block goes
\* back to where it came from.
HeapIntact == H!HeapIntact /\ H!RightAllocator

\* LoanedMessage: a message in shared memory has one owner from borrow to release, and a
\* thread's count of loans is right, in programs that heed what the classes document.
LoansSafe == L!LoansSafe

-----------------------------------------------------------------------------
TwoThreads == {t1, t2}

\* Any thread takes, but only new messages.
TakesNew == [takers |-> TwoThreads, modes |-> {FALSE}]
\* One thread takes, and takes the last message again if there is no other.
TakesSame == [takers |-> {t1}, modes |-> {TRUE}]

\* The uses the documentation of take() is about.
Separate == {TakesNew, TakesSame}

\* Programs that use messages with care, on one thread or on several, and others.
LoanUsers == {u \in [careful : BOOLEAN, confined : BOOLEAN] : u.careful \/ u.confined}
=============================================================================
