------------------------------ MODULE Heaphook ------------------------------
(***************************************************************************)
(* The preloaded heap.  malloc and its kin take memory from the process's   *)
(* shared pool while the calling thread has borrowed a message, and from    *)
(* libc otherwise; free and realloc tell the two apart by address.  In the  *)
(* pool each block starts with padding, then the address TLSF gave, then    *)
(* what the caller sees, aligned as it asked.                               *)
(*                                                                          *)
(* A process forks at most one child, before its own pool exists (the       *)
(* bridge manager, which makes a pool of its own) or later (a child that    *)
(* shares its parent's pool and must leave it alone).  The unit of memory   *)
(* is a pointer.  TLSF is external: it places a block anywhere it fits,     *)
(* may refuse, and writes into memory that is free.                         *)
(***************************************************************************)
EXTENDS Integers, FiniteSets, FiniteSetsExt, Functions, TLC

CONSTANTS
    PoolSize,
    Sizes,       \* bound: sizes asked for
    Aligns,      \* bound: alignments asked for
    Handles,     \* bound: pointers a process holds
    MaxCalls     \* bound: calls that take memory

Procs == {"parent", "child"}
POINTER_SIZE == 1
POINTER_ALIGN == 1
MIN_ALIGN == 2
Heap == -1               \* an address of libc's
Junk == 0
Data(h, i) == 100 * h + i + 1       \* what the caller writes
Address(a) == -2 - a                \* a stored pointer
PowersOfTwo == {1, 2, 4, 8}

VARIABLES
    up,        \* processes that run
    shm,       \* process -> the addresses of AGNOCAST_SHARED_MEMORY, {} before it is set
    forked,    \* process -> IS_FORKED_CHILD
    borrowed,  \* process -> its thread has borrowed a message
    ptrs,      \* process -> handle -> [ptr, size, align]
    blocks,    \* TLSF: {[orig, len]} in use
    mem,       \* contents of the pools
    calls,
    wrong      \* ghost: a block was given to the allocator it did not come from

vars == <<up, shm, forked, borrowed, ptrs, blocks, mem, calls, wrong>>
processVars == <<up, shm, forked, borrowed>>

ParentPool == 0 .. PoolSize - 1
ChildPool == PoolSize .. 2 * PoolSize - 1
Own(p) == IF p = "parent" THEN ParentPool ELSE ChildPool

Init ==
    /\ up = {"parent"}
    /\ shm = [p \in Procs |-> {}] /\ forked = [p \in Procs |-> FALSE]
    /\ borrowed = [p \in Procs |-> FALSE] /\ ptrs = [p \in Procs |-> <<>>]
    /\ blocks = {} /\ mem = [a \in ParentPool \cup ChildPool |-> Junk]
    /\ calls = 0 /\ wrong = FALSE

-----------------------------------------------------------------------------
\* Processes

\* __libc_start_main
StartMain ==
    /\ shm["parent"] = {}
    /\ shm' = [shm EXCEPT !["parent"] = ParentPool]
    /\ UNCHANGED <<up, forked, borrowed, ptrs, blocks, mem, calls, wrong>>

\* fork, and post_fork_handler_in_child
Fork ==
    /\ up = {"parent"}
    /\ up' = Procs
    /\ shm' = [shm EXCEPT !["child"] = shm["parent"]]
    /\ forked' = [forked EXCEPT !["child"] = TRUE]
    /\ borrowed' = [borrowed EXCEPT !["child"] = borrowed["parent"]]
    /\ ptrs' = [ptrs EXCEPT !["child"] = ptrs["parent"]]
    /\ UNCHANGED <<blocks, mem, calls, wrong>>

\* init_child_allocator, in a child whose parent had no pool
InitChildAllocator ==
    /\ "child" \in up /\ shm["child"] = {} /\ forked["child"]
    /\ forked' = [forked EXCEPT !["child"] = FALSE]
    /\ shm' = [shm EXCEPT !["child"] = ChildPool]
    /\ UNCHANGED <<up, borrowed, ptrs, blocks, mem, calls, wrong>>

\* borrow_loaned_message and publish; only a process with a pool publishes.
Borrow(p) ==
    /\ p \in up /\ shm[p] # {} /\ ~forked[p]
    /\ borrowed' = [borrowed EXCEPT ![p] = ~@]
    /\ UNCHANGED <<up, shm, forked, ptrs, blocks, mem, calls, wrong>>

-----------------------------------------------------------------------------
\* The allocator of the pool

should_use_heap(p) == forked[p] \/ ~borrowed[p]
is_shared(p, a) == a \in shm[p]

Cells(b) == b.orig .. b.orig + b.len - 1
Used(bs) == UNION {Cells(b) : b \in bs}
AlignUp(a, n) == ((a + n - 1) \div n) * n

\* Where TLSF may put len units among bs
Places(p, len, bs) ==
    {o \in Own(p) : LET c == o .. o + len - 1 IN c \subseteq Own(p) /\ c \cap Used(bs) = {}}

\* Free memory holds what TLSF keeps there.
Settle(m, bs) == [a \in DOMAIN m |-> IF a \in Used(bs) THEN m[a] ELSE Junk]

Write(m, from, h, lo, size) ==
    [a \in DOMAIN m |-> IF a \in from + lo .. from + size - 1 THEN Data(h, a - from) ELSE m[a]]

\* The size asked of TLSF
Need(size, alignment) == POINTER_SIZE + size + alignment

\* TLSFAllocator::allocate, and the caller filling the block
allocate(p, h, size, align) ==
    LET alignment == Max({align, POINTER_ALIGN})
    IN  \E o \in Places(p, Need(size, alignment), blocks) :
            LET b == [orig |-> o, len |-> Need(size, alignment)]
                ptr == AlignUp(o + POINTER_SIZE, alignment)
            IN  /\ blocks' = blocks \cup {b}
                /\ ptrs' = [ptrs EXCEPT ![p] =
                        (h :> [ptr |-> ptr, size |-> size, align |-> align]) @@ @]
                /\ mem' = Write([mem EXCEPT ![ptr - POINTER_SIZE] = Address(o)], ptr, h, 0, size)

HeapBlock == [ptr |-> Heap, size |-> 0, align |-> 1]   \* libc's business

\* malloc and its kin with a valid layout: a null pointer when TLSF refuses
Take(p, h, size, align) ==
    /\ p \in up /\ h \notin DOMAIN ptrs[p] /\ calls < MaxCalls
    /\ calls' = calls + 1
    /\ IF should_use_heap(p)
       THEN ptrs' = [ptrs EXCEPT ![p] = (h :> HeapBlock) @@ @] /\ UNCHANGED <<blocks, mem>>
       ELSE allocate(p, h, size, align)
    /\ UNCHANGED <<processVars, wrong>>

malloc(p, h, size) == Take(p, h, size, MIN_ALIGN)
calloc(p, h, size) == Take(p, h, size, MIN_ALIGN)    \* num * size, if that fits
posix_memalign(p, h, align, size) ==
    align \in PowersOfTwo /\ align % POINTER_SIZE = 0 /\ Take(p, h, size, align)
aligned_alloc(p, h, align, size) ==
    align \in PowersOfTwo /\ size % align = 0 /\ Take(p, h, size, Max({align, MIN_ALIGN}))
memalign(p, h, align, size) == align \in PowersOfTwo /\ Take(p, h, size, align)

\* Mutant: the new block is sized for the new alignment only.
InternalSize_new(size, offset) == Need(size, MIN_ALIGN)

\* Room for the final layout, and for the data at its old offset
InternalSize(size, offset) == Max({Need(size, MIN_ALIGN), offset + size})

\* Mutant: the data is left where TLSF copied it.
Shift_not(m, from, to, size) == m

\* The data is moved when the offset in the block changed.
Shift(m, from, to, size) ==
    [a \in DOMAIN m |-> IF a \in to .. to + size - 1 THEN m[a - to + from] ELSE m[a]]

\* TLSFAllocator::reallocate: TLSF copies raw bytes, in place or elsewhere.
reallocate(p, h, size) ==
    LET ptr == ptrs[p][h].ptr
        old == CHOOSE b \in blocks : Address(b.orig) = mem[ptr - POINTER_SIZE]
        offset == ptr - old.orig
        len == InternalSize(size, offset)
        rest == blocks \ {old}
        kept == Min({ptrs[p][h].size, size})
    IN  \E o \in Places(p, len, rest) :
            LET b == [orig |-> o, len |-> len]
                moved == [a \in DOMAIN mem |->
                             IF a \in o .. o + Min({len, old.len}) - 1
                             THEN mem[a - o + old.orig] ELSE mem[a]]
                new == AlignUp(o + POINTER_SIZE, MIN_ALIGN)
                settled == Settle(moved, rest \cup {b})
                shifted == IF o + offset = new THEN settled
                           ELSE Shift(settled, o + offset, new, size)
            IN  /\ o # old.orig => Cells(b) \cap Cells(old) = {}
                /\ blocks' = rest \cup {b}
                /\ mem' = Write([shifted EXCEPT ![new - POINTER_SIZE] = Address(o)],
                                new, h, kept, size)
                /\ ptrs' = [ptrs EXCEPT ![p][h] =
                        [ptr |-> new, size |-> size, align |-> MIN_ALIGN]]

\* A realloc of shared memory by a thread that has borrowed nothing returns null
\* and leaves the block as it is, as does one that TLSF refuses.
realloc(p, h, size) ==
    /\ p \in up /\ h \in DOMAIN ptrs[p] /\ calls < MaxCalls
    /\ calls' = calls + 1
    /\ IF ~is_shared(p, ptrs[p][h].ptr)
       THEN wrong' = (wrong \/ ptrs[p][h].ptr # Heap) /\ UNCHANGED <<ptrs, blocks, mem>>
       ELSE ~should_use_heap(p) /\ reallocate(p, h, size) /\ UNCHANGED wrong
    /\ UNCHANGED processVars

Forget(p, h) == [ptrs EXCEPT ![p] = Restrict(@, DOMAIN @ \ {h})]

\* TLSFAllocator::deallocate
deallocate(p, h) ==
    LET left == {b \in blocks : Address(b.orig) # mem[ptrs[p][h].ptr - POINTER_SIZE]}
    IN  blocks' = left /\ mem' = Settle(mem, left)

\* Mutant: who frees is told from where it would allocate.
free_byBorrow(p, h) ==
    /\ p \in up /\ h \in DOMAIN ptrs[p]
    /\ ptrs' = Forget(p, h)
    /\ IF should_use_heap(p)
       THEN wrong' = (wrong \/ ptrs[p][h].ptr # Heap) /\ UNCHANGED <<blocks, mem>>
       ELSE deallocate(p, h) /\ UNCHANGED wrong
    /\ UNCHANGED <<processVars, calls>>

free(p, h) ==
    /\ p \in up /\ h \in DOMAIN ptrs[p]
    /\ ptrs' = Forget(p, h)
    /\ IF ~is_shared(p, ptrs[p][h].ptr)
       THEN wrong' = (wrong \/ ptrs[p][h].ptr # Heap) /\ UNCHANGED <<blocks, mem>>
       ELSE IF forked[p] THEN UNCHANGED <<blocks, mem, wrong>>
       ELSE deallocate(p, h) /\ UNCHANGED wrong
    /\ UNCHANGED <<processVars, calls>>

Next ==
    \/ StartMain \/ Fork \/ InitChildAllocator
    \/ \E p \in Procs :
          \/ Borrow(p)
          \/ \E h \in Handles :
                \/ free(p, h)
                \/ \E size \in Sizes :
                      \/ malloc(p, h, size) \/ calloc(p, h, size) \/ realloc(p, h, size)
                      \/ \E align \in Aligns :
                            \/ posix_memalign(p, h, align, size)
                            \/ aligned_alloc(p, h, align, size)
                            \/ memalign(p, h, align, size)

Spec == Init /\ [][Next]_vars

-----------------------------------------------------------------------------
\* The owner of a pool: a forked child holds copies of its parent's pointers.
Owned(p) == {h \in DOMAIN ptrs[p] : ptrs[p][h].ptr \in Own(p)}

\* Every block a process has in its pool is aligned as it asked, keeps its header
\* and what was written to it through every realloc, and lies in a block that TLSF
\* has in use for it alone; and TLSF has no other block in use.
HeapIntact ==
    /\ \A p \in up : \A h \in Owned(p) :
          LET x == ptrs[p][h]
          IN  /\ x.ptr % x.align = 0
              /\ \A i \in 0 .. x.size - 1 : mem[x.ptr + i] = Data(h, i)
              /\ \E b \in blocks : /\ Address(b.orig) = mem[x.ptr - POINTER_SIZE]
                                  /\ x.ptr - POINTER_SIZE .. x.ptr + x.size - 1 \subseteq Cells(b)
    /\ Cardinality(blocks) = Cardinality({u \in up \X Handles : u[2] \in Owned(u[1])})

\* Memory goes back to the allocator it came from, whatever the thread has borrowed
\* since, and a forked child gives back none of its parent's.
RightAllocator ==
    /\ ~wrong
    /\ \A p \in up : \A h \in Owned(p) :
          \E b \in blocks : ptrs[p][h].ptr \in Cells(b)

=============================================================================
