-------------------------- MODULE TakeSubscription --------------------------
(***************************************************************************)
(* The user-space half of a polling subscription: threads of one process   *)
(* call take() on one TakeSubscription and destroy the ipc_shared_ptr      *)
(* copies it hands out.  The kernel keeps one reference bit per entry and  *)
(* subscriber, so all copies of one entry have to share one control block: *)
(* the block whose count drops to zero clears the bit.                     *)
(*                                                                         *)
(* take() is an ioctl under mmap_mtx followed, after that mutex has been   *)
(* released, by the construction of the pointer; the destructor is an      *)
(* atomic decrement followed by an ioctl.  The topic is reduced to one     *)
(* publisher whose entries are all deliverable (module Topic has the rest).*)
(***************************************************************************)
EXTENDS Integers, FiniteSets

CONSTANTS
  Threads,     \* threads that may hold and destroy copies
  Programs,    \* the ways of using the subscription: the threads that call
               \* take() and the values of allow_same_message they use
  PubDepth,    \* qos_depth of the publisher
  SubDepth,    \* qos_depth of the subscription
  MaxEntries,  \* bound: messages published
  MaxBlocks,   \* bound: control blocks created
  MaxCopies    \* bound: ref_count of a control block

ASSUME TakeAssumption ==
  /\ Programs \subseteq [takers : SUBSET Threads, modes : SUBSET BOOLEAN]
  /\ PubDepth \in Nat /\ SubDepth \in Nat
  /\ MaxEntries \in Nat \ {0} /\ MaxBlocks \in Nat /\ MaxCopies \in Nat

Ids == 0 .. (MaxEntries - 1)
Blocks == 1 .. MaxBlocks
NoBlock == 0
NoEntry == -1

VARIABLES
  program,    \* the program that runs, fixed from the start
  entries,    \* entries of the topic
  bits,       \* those that carry this subscriber's reference bit
  latest,     \* latest_received_entry_id
  nextEntry,
  blocks,     \* control blocks, live while their ref_count is not zero
  nextBlock,
  cache,      \* last_taken_ptr_
  pc,         \* where each thread is
  arg,        \* allow_same_message of its take()
  got,        \* ret_entry_id of its take(), or the entry it has to release
  old,        \* old_ptr of its take()
  fatal       \* an ioctl failed and the process exited

vars == <<program, entries, bits, latest, nextEntry, blocks, nextBlock, cache,
          pc, arg, got, old, fatal>>

control_block == [entry : Ids, ref_count : Nat]

Init ==
  /\ program \in Programs
  /\ entries = {}
  /\ bits = {}
  /\ latest = -1
  /\ nextEntry = 0
  /\ blocks = [b \in Blocks |-> [entry |-> 0, ref_count |-> 0]]
  /\ nextBlock = 1
  /\ cache = NoBlock
  /\ pc = [t \in Threads |-> "idle"]
  /\ arg = [t \in Threads |-> FALSE]
  /\ got = [t \in Threads |-> NoEntry]
  /\ old = [t \in Threads |-> NoBlock]
  /\ fatal = FALSE

Live == {b \in Blocks : blocks[b].ref_count > 0}

Newest(E, n) == {e \in E : Cardinality({f \in E : f > e}) < n}
MinOf(E) == CHOOSE e \in E : \A f \in E : e <= f

-----------------------------------------------------------------------------
(* The kernel module, as seen from this subscription.                      *)

\* A publish deletes what is beyond the depth and not referenced.
Publish ==
  /\ nextEntry < MaxEntries
  /\ LET all == entries \cup {nextEntry}
     IN  entries' = Newest(all, PubDepth) \cup (all \cap bits)
  /\ nextEntry' = nextEntry + 1
  /\ UNCHANGED <<program, bits, latest, blocks, nextBlock, cache, pc, arg, got,
                 old, fatal>>

\* Mutant: the walk back from the newest entry is not limited.
Candidates_unlimited(same) ==
  {e \in entries : e > latest \/ (same /\ e = latest)}

\* The entry TAKE_MSG returns: the oldest in the window of the SubDepth newest
\* ones that is not older than the last one received.
Candidates(same) ==
  Newest({e \in entries : e > latest \/ (same /\ e = latest)}, SubDepth)

TakeIoctl(t, same) ==
  /\ ~fatal
  /\ t \in program.takers
  /\ pc[t] = "idle"
  /\ nextBlock <= MaxBlocks
  /\ IF Candidates(same) = {}
     THEN UNCHANGED <<bits, latest, pc, arg, got, fatal>>
     ELSE LET e == MinOf(Candidates(same))
          IN  IF e \in bits /\ ~same
              THEN fatal' = TRUE /\ UNCHANGED <<bits, latest, pc, arg, got>>
              ELSE /\ bits' = bits \cup {e}
                   /\ latest' = e
                   /\ pc' = [pc EXCEPT ![t] = "construct"]
                   /\ arg' = [arg EXCEPT ![t] = same]
                   /\ got' = [got EXCEPT ![t] = e]
                   /\ UNCHANGED fatal
  /\ UNCHANGED <<program, entries, nextEntry, blocks, nextBlock, cache, old>>

\* RELEASE_SUB_REF, the last thing the destructor of a last copy does.
release_subscriber_reference(t) ==
  /\ ~fatal
  /\ pc[t] = "release"
  /\ fatal' = (got[t] \notin entries \cap bits)
  /\ bits' = bits \ {got[t]}
  /\ pc' = [pc EXCEPT ![t] = "idle"]
  /\ got' = [got EXCEPT ![t] = NoEntry]
  /\ UNCHANGED <<program, entries, latest, nextEntry, blocks, nextBlock, cache,
                 arg, old>>

-----------------------------------------------------------------------------
(* The smart pointer.                                                      *)

NewBlock(e, copies) ==
  /\ nextBlock <= MaxBlocks
  /\ blocks' = [blocks EXCEPT ![nextBlock] = [entry |-> e, ref_count |-> copies]]
  /\ nextBlock' = nextBlock + 1

\* Mutant: the cached pointer is not looked at.
IsCached_never(e) == FALSE

IsCached(e) == cache # NoBlock /\ blocks[cache].entry = e

\* take(true), under last_taken_ptr_mtx_: a copy of the cached pointer, or a
\* new one that replaces it; old_ptr outlives the lock.
ConstructCached(t) ==
  /\ ~fatal
  /\ pc[t] = "construct" /\ arg[t]
  /\ IF IsCached(got[t])
     THEN /\ blocks[cache].ref_count < MaxCopies
          /\ blocks' = [blocks EXCEPT ![cache].ref_count = @ + 1]
          /\ pc' = [pc EXCEPT ![t] = "idle"]
          /\ UNCHANGED <<nextBlock, cache, old>>
     ELSE /\ NewBlock(got[t], 2)
          /\ cache' = nextBlock
          /\ old' = [old EXCEPT ![t] = cache]
          /\ pc' = [pc EXCEPT ![t] = IF cache = NoBlock THEN "idle" ELSE "drop"]
  /\ got' = [got EXCEPT ![t] = NoEntry]
  /\ UNCHANGED <<program, entries, bits, latest, nextEntry, arg, fatal>>

\* take(false).
Construct(t) ==
  /\ ~fatal
  /\ pc[t] = "construct" /\ ~arg[t]
  /\ NewBlock(got[t], 1)
  /\ pc' = [pc EXCEPT ![t] = "idle"]
  /\ got' = [got EXCEPT ![t] = NoEntry]
  /\ UNCHANGED <<program, entries, bits, latest, nextEntry, cache, arg, old,
                 fatal>>

\* Mutant: every copy notifies the kernel, not only the last one.
WasLast_always(b) == TRUE

\* Mutant: fetch_sub is taken for the new value.
WasLast_never(b) == blocks[b].ref_count = 0

WasLast(b) == blocks[b].ref_count = 1

\* reset() on a copy of block b by thread t.
reset(t, b) ==
  /\ blocks' = [blocks EXCEPT ![b].ref_count = @ - 1]
  /\ pc' = [pc EXCEPT ![t] = IF WasLast(b) THEN "release" ELSE "idle"]
  /\ got' = [got EXCEPT ![t] = IF WasLast(b) THEN blocks[b].entry ELSE NoEntry]
  /\ UNCHANGED <<program, entries, bits, latest, nextEntry, nextBlock, cache,
                 arg, fatal>>

DropOld(t) ==
  /\ ~fatal
  /\ pc[t] = "drop"
  /\ reset(t, old[t])
  /\ old' = [old EXCEPT ![t] = NoBlock]

\* Mutant: reset() leaves control_ set, so a copy can be reset again.
UserCopies_not_cleared(b) == IF b < nextBlock THEN 1 ELSE 0

\* Copies of b that the program holds: all but the cache and old_ptr.
UserCopies(b) ==
  blocks[b].ref_count - Cardinality({t \in Threads : old[t] = b})
    - (IF cache = b THEN 1 ELSE 0)

CopyHandle(b) ==
  /\ ~fatal
  /\ UserCopies(b) > 0
  /\ blocks[b].ref_count < MaxCopies
  /\ blocks' = [blocks EXCEPT ![b].ref_count = @ + 1]
  /\ UNCHANGED <<program, entries, bits, latest, nextEntry, nextBlock, cache,
                 pc, arg, got, old, fatal>>

DestroyCopy(t, b) ==
  /\ ~fatal
  /\ pc[t] = "idle"
  /\ UserCopies(b) > 0
  /\ reset(t, b)
  /\ UNCHANGED old

Next ==
  \/ Publish
  \/ \E b \in Blocks : CopyHandle(b)
  \/ \E t \in Threads :
       \/ \E same \in program.modes : TakeIoctl(t, same)
       \/ ConstructCached(t)
       \/ Construct(t)
       \/ DropOld(t)
       \/ release_subscriber_reference(t)
       \/ \E b \in Blocks : DestroyCopy(t, b)

Spec == Init /\ [][Next]_vars

-----------------------------------------------------------------------------
(* Correctness.                                                            *)

\* The subscription's state has its declared types.
TypeOK ==
  /\ program \in Programs
  /\ entries \subseteq Ids /\ bits \subseteq Ids
  /\ latest \in Ids \cup {-1}
  /\ nextEntry \in 0 .. MaxEntries
  /\ blocks \in [Blocks -> control_block]
  /\ nextBlock \in 1 .. (MaxBlocks + 1)
  /\ cache \in Blocks \cup {NoBlock}
  /\ pc \in [Threads -> {"idle", "construct", "drop", "release"}]
  /\ arg \in [Threads -> BOOLEAN]
  /\ got \in [Threads -> Ids \cup {NoEntry}]
  /\ old \in [Threads -> Blocks \cup {NoBlock}]
  /\ fatal \in BOOLEAN

\* The kernel-side reference stays until all copies are destroyed: the entry of
\* a live control block is still in the topic and carries the bit.
BlocksBacked ==
  \A b \in Live : blocks[b].entry \in entries \cap bits

\* take() and the destructor never make an ioctl fail.
NeverFails == ~fatal

\* take(true) does not fall behind: the message it returns lags the newest
\* published one by at most SubDepth - 1, however old the cached pointer is.
LagBounded ==
  [][\A t \in Threads :
       (pc[t] = "idle" /\ pc'[t] = "construct" /\ arg'[t])
       => got'[t] >= nextEntry - SubDepth]_vars

\* No reference leaks: a bit belongs to a live block, or a thread is on its way
\* to build the pointer or to release it.
BitsOwned ==
  \A e \in bits : \/ \E b \in Live : blocks[b].entry = e
                  \/ \E t \in Threads : got[t] = e
=============================================================================
