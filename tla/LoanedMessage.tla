--------------------------- MODULE LoanedMessage ---------------------------
(***************************************************************************)
(* The publisher's side of a message: it is borrowed, filled, copied       *)
(* between threads as an ipc_shared_ptr, and published, cancelled or       *)
(* dropped (agnocast_publisher.hpp, agnocast_publisher.cpp,                *)
(* agnocast_smart_pointer.hpp).  Two things are shared without a lock: the *)
(* control block of the copies, with its reference count and valid flag,   *)
(* and, per thread, the number of loans that makes the heap hook put what  *)
(* the thread allocates into shared memory.  The kernel's side of publish  *)
(* is cut down to the entries of each publisher and the ones somebody      *)
(* reads; module Topic has all of it.  Each publisher has its own topic,   *)
(* and the topic is what publish() compares.                               *)
(***************************************************************************)
EXTENDS Naturals, FiniteSets, Sequences

CONSTANTS
    Threads, Publishers,
    Erased,      \* publishers that are a TypeErasedPublisher or a GenericPublisher
    Depth,       \* qos_depth of every publisher
    MaxLoans,    \* bound: messages borrowed in a behaviour
    MaxCopies,   \* bound: ipc_shared_ptrs to one message
    Programs     \* the kinds of programs looked at

VARIABLES
    program,     \* [careful, confined]: what the program does not do, see below
    up,          \* publisher -> "none", "up" or "gone"
    borrowed,    \* borrowed_publisher_num of each thread
    block,       \* loan -> its control block, with the thread that borrowed it
    handles,     \* thread -> loan -> its ipc_shared_ptrs to that message
    memory,      \* loan -> "none", "loaned", "published", "freed", "freed twice" or "left"
    contents,    \* loan -> where the message and its fields have been allocated
    tree,        \* the kernel's entries, in order
    read,        \* the entries a subscriber has a reference to
    work,        \* thread -> where it is in publish() or cancel_message()
    failed       \* the library has ended the process

vars == <<program, up, borrowed, block, handles, memory, contents, tree, read, work, failed>>

Loans == 1..MaxLoans
Made == DOMAIN block
control_block(p, t) == [pub |-> p, by |-> t, valid |-> TRUE, count |-> 1]
Rest == [step |-> "idle", loan |-> 0, todo |-> {}]
Working(step, c, todo) == [step |-> step, loan |-> c, todo |-> todo]
InTree == {tree[i] : i \in DOMAIN tree}

Init ==
    /\ program \in Programs
    /\ up = [p \in Publishers |-> "none"]
    /\ borrowed = [t \in Threads |-> 0]
    /\ block = <<>> /\ handles = [t \in Threads |-> [c \in Loans |-> 0]]
    /\ memory = [c \in Loans |-> "none"] /\ contents = [c \in Loans |-> {}]
    /\ tree = <<>> /\ read = {}
    /\ work = [t \in Threads |-> Rest]
    /\ failed = FALSE

\* What programs may do.  A careful one does not use a message it knows to be published,
\* publishes it once and on its own publisher, and cancels a type-erased one instead of
\* dropping it.  A confined one leaves filling, publishing and the last drop of an
\* unpublished message to the thread that has borrowed it.
Careful(c) == program.careful => block[c].valid
Confined(t, c) == program.confined => block[c].by = t
Alone(t, c) == program.careful => \A u \in Threads \ {t} : work[u].loan # c

-----------------------------------------------------------------------------
\* Publishers and loans

init_base(p) ==
    /\ up[p] = "none"
    /\ up' = [up EXCEPT ![p] = "up"]
    /\ UNCHANGED <<program, borrowed, block, handles, memory, contents, tree, read, work, failed>>

\* Where the heap hook puts what a thread with n loans allocates.
Placed(n) == IF n > 0 THEN "shared" ELSE "heap"

Lend(t, p) ==
    LET c == Len(block) + 1
    IN /\ up[p] = "up" /\ work[t] = Rest /\ c \in Loans
       /\ borrowed' = [borrowed EXCEPT ![t] = @ + 1]
       /\ block' = Append(block, control_block(p, t))
       /\ handles' = [handles EXCEPT ![t][c] = 1]
       /\ memory' = [memory EXCEPT ![c] = "loaned"]
       /\ contents' = [contents EXCEPT ![c] = {Placed(borrowed'[t])}]

borrow_loaned_message(t, p) ==
    /\ Lend(t, p)
    /\ UNCHANGED <<program, up, tree, read, work, failed>>

\* operator-> and operator*, used to fill in a field.
Fill(t, c) ==
    /\ work[t] = Rest /\ handles[t][c] > 0 /\ Careful(c) /\ Confined(t, c)
    /\ IF block[c].valid
       THEN /\ contents' = [contents EXCEPT ![c] = @ \cup {Placed(borrowed[t])}]
            /\ UNCHANGED failed
       ELSE failed' = TRUE /\ UNCHANGED contents
    /\ UNCHANGED <<program, up, borrowed, block, handles, memory, tree, read, work>>

\* The copy and move constructors and assignments, to the same thread or to another.
CopyTo(t, u, c) ==
    /\ work[t] = Rest /\ handles[t][c] > 0 /\ block[c].count < MaxCopies
    /\ handles' = [handles EXCEPT ![u][c] = @ + 1]
    /\ block' = [block EXCEPT ![c].count = @ + 1]
    /\ UNCHANGED <<program, up, borrowed, memory, contents, tree, read, work, failed>>

MoveTo(t, u, c) ==
    /\ t # u /\ work[t] = Rest /\ handles[t][c] > 0
    /\ handles' = [handles EXCEPT ![t][c] = @ - 1, ![u][c] = @ + 1]
    /\ UNCHANGED <<program, up, borrowed, block, memory, contents, tree, read, work, failed>>

-----------------------------------------------------------------------------
\* Dropping a handle

\* Mutant: the count is looked at before it is decremented.
decrement_and_check_early(c) == block[c].count = 0

decrement_and_check(c) == block[c].count = 1

Freed(m) == IF memory[m] = "freed" THEN "freed twice" ELSE "freed"

\* decrement_borrowed_publisher_num ends the process of a thread that has no loan.
Returned(t) == [borrowed EXCEPT ![t] = IF @ = 0 THEN 0 ELSE @ - 1]

Unhandled(t, c) ==
    /\ handles' = [handles EXCEPT ![t][c] = @ - 1]
    /\ block' = [block EXCEPT ![c].count = @ - 1]

\* The last handle of an unpublished message frees it, if its type is known.
LastUnpublished(c) == decrement_and_check(c) /\ block[c].valid

Drop(t, c) ==
    /\ Unhandled(t, c)
    /\ IF LastUnpublished(c)
       THEN /\ borrowed' = Returned(t)
            /\ failed' = (borrowed[t] = 0 \/ block[c].pub \in Erased)
            /\ memory' = IF failed' THEN memory ELSE [memory EXCEPT ![c] = Freed(c)]
       ELSE UNCHANGED <<borrowed, memory, failed>>

reset(t, c) ==
    /\ work[t] = Rest /\ handles[t][c] > 0
    /\ LastUnpublished(c) => Confined(t, c) /\ (program.careful => block[c].pub \notin Erased)
    /\ Drop(t, c)
    /\ UNCHANGED <<program, up, contents, tree, read, work>>

-----------------------------------------------------------------------------
\* publish() and cancel_message()

\* The check at the start of both, with what comes next if it is passed.
Accept(t, c, p, step) ==
    /\ work[t] = Rest /\ handles[t][c] > 0 /\ up[p] = "up"
    /\ Careful(c) /\ Confined(t, c) /\ Alone(t, c) /\ (program.careful => block[c].pub = p)
    /\ IF block[c].valid /\ block[c].pub = p
       THEN work' = [work EXCEPT ![t] = Working(step, c, {})] /\ UNCHANGED failed
       ELSE failed' = TRUE /\ UNCHANGED work
    /\ UNCHANGED <<program, up, borrowed, block, handles, memory, contents, tree, read>>

publish(t, c, p) == Accept(t, c, p, "publish")
cancel_message(t, c, p) == p \in Erased /\ Accept(t, c, p, "cancel")

\* GenericPublisher::publish: borrow, deserialise into the message, and go on with
\* publish() or, if that has failed, with cancel_message().
GenericPublish(t, p, ok) ==
    /\ p \in Erased /\ Lend(t, p)
    /\ work' = [work EXCEPT ![t] = Working(IF ok THEN "publish" ELSE "cancel", Len(block) + 1, {})]
    /\ UNCHANGED <<program, up, tree, read, failed>>

\* Mutant: the copies stay valid.
invalidate_none(v) == v

invalidate_all_references(v) == FALSE

\* Invalidate the copies and return the loan.
Invalidate(t) ==
    /\ work[t].step \in {"publish", "cancel"}
    /\ block' = [block EXCEPT ![work[t].loan].valid = invalidate_all_references(@)]
    /\ borrowed' = Returned(t)
    /\ IF borrowed[t] = 0
       THEN failed' = TRUE /\ UNCHANGED work
       ELSE /\ work' = [work EXCEPT ![t].step = IF @ = "publish" THEN "ioctl" ELSE "deleter"]
            /\ UNCHANGED failed
    /\ UNCHANGED <<program, up, handles, memory, contents, tree, read>>

\* The entries of the same publisher as c beyond the depth that nobody reads.
Released(c) ==
    LET own == {m \in InTree \cup {c} : block[m].pub = block[c].pub}
        newer(i) == {j \in DOMAIN tree : j > i /\ tree[j] \in own}
    IN {tree[i] : i \in {j \in DOMAIN tree :
            tree[j] \in own \ read /\ Cardinality(newer(j)) + 1 >= Depth}}

insert_message_entry(c) == Append(tree, c)

\* The entries that stay when some are gone, in the same order.
Without(entries, gone) ==
    LET kept == {i \in DOMAIN entries : entries[i] \notin gone}
        place(i) == Cardinality({j \in kept : j <= i})
    IN [k \in 1..Cardinality(kept) |-> entries[CHOOSE i \in kept : place(i) = k]]

\* The ioctl inserts the message and names the released ones, which publish() deletes.
publish_core(t) ==
    /\ work[t].step = "ioctl"
    /\ LET c == work[t].loan
           released == Released(c)
       IN /\ tree' = Without(insert_message_entry(c), released)
          /\ memory' = [memory EXCEPT ![c] = "published"]
          /\ work' = [work EXCEPT ![t] = Working("delete", c, released)]
    /\ UNCHANGED <<program, up, borrowed, block, handles, contents, read, failed>>

DeleteReleased(t) ==
    /\ work[t].step = "delete"
    /\ \E m \in work[t].todo :
         /\ memory' = [memory EXCEPT ![m] = Freed(m)]
         /\ work' = [work EXCEPT ![t].todo = @ \ {m}]
    /\ UNCHANGED <<program, up, borrowed, block, handles, contents, tree, read, failed>>

RunDeleter(t) ==
    /\ work[t].step = "deleter"
    /\ memory' = [memory EXCEPT ![work[t].loan] = Freed(work[t].loan)]
    /\ work' = [work EXCEPT ![t].step = "delete"]
    /\ UNCHANGED <<program, up, borrowed, block, handles, contents, tree, read, failed>>

\* message.reset(), which finds the message invalid and does not free it.
EndPublish(t) ==
    /\ work[t].step = "delete" /\ work[t].todo = {}
    /\ Drop(t, work[t].loan)
    /\ work' = [work EXCEPT ![t] = Rest]
    /\ UNCHANGED <<program, up, contents, tree, read>>

\* ~PublisherBase: the kernel drops the entries nobody reads; the process is not told of
\* them, so their memory stays as it is until the process ends.
RemovePublisher(p) ==
    LET unread == {m \in InTree \ read : block[m].pub = p}
    IN /\ up[p] = "up" /\ \A t \in Threads : work[t] # Rest => block[work[t].loan].pub # p
       /\ up' = [up EXCEPT ![p] = "gone"]
       /\ tree' = Without(tree, unread)
       /\ memory' = [m \in Loans |-> IF m \in unread THEN "left" ELSE memory[m]]
       /\ UNCHANGED <<program, borrowed, block, handles, contents, read, work, failed>>

\* Subscribers receive and release.
Reference(m) ==
    /\ m \in InTree \ read
    /\ read' = read \cup {m}
    /\ UNCHANGED <<program, up, borrowed, block, handles, memory, contents, tree, work, failed>>

Unreference(m) ==
    /\ m \in read
    /\ read' = read \ {m}
    /\ UNCHANGED <<program, up, borrowed, block, handles, memory, contents, tree, work, failed>>

Next ==
    /\ ~failed
    /\ \/ \E p \in Publishers : init_base(p) \/ RemovePublisher(p)
       \/ \E t \in Threads, p \in Publishers :
            \/ borrow_loaned_message(t, p)
            \/ \E ok \in BOOLEAN : GenericPublish(t, p, ok)
            \/ \E c \in Made : publish(t, c, p) \/ cancel_message(t, c, p)
       \/ \E t \in Threads, c \in Made :
            \/ Fill(t, c) \/ reset(t, c)
            \/ \E u \in Threads : CopyTo(t, u, c) \/ MoveTo(t, u, c)
       \/ \E t \in Threads :
            Invalidate(t) \/ publish_core(t) \/ DeleteReleased(t) \/ RunDeleter(t) \/ EndPublish(t)
       \/ \E m \in Made : Reference(m) \/ Unreference(m)

Spec == Init /\ [][Next]_vars

-----------------------------------------------------------------------------
\* A thread that is to return the loan of c, or to publish or free its message.
InHand(c) == \E t \in Threads : work[t].loan = c /\ work[t].step \in {"ioctl", "deleter"}

\* A message in shared memory has one owner at a time: what a subscriber may read is
\* neither freed nor on its way to be, a handle that can be used points to a loan that
\* has not been freed or published, nothing is freed twice, and nothing is lost: a loan
\* has a handle left that can give it back (reset, publish, cancel_message).
OneOwner ==
    /\ \A m \in InTree :
         /\ memory[m] = "published"
         /\ \A t \in Threads : m \notin work[t].todo
    /\ \A i, j \in DOMAIN tree : tree[i] = tree[j] => i = j
    /\ \A c \in Made :
         /\ memory[c] # "freed twice"
         /\ block[c].valid /\ block[c].count > 0 => memory[c] = "loaned"
         /\ memory[c] = "loaned" => InHand(c) \/ (block[c].valid /\ block[c].count > 0)
         /\ memory[c] = "published" => (c \in InTree \/ \E t \in Threads : c \in work[t].todo)

\* The loans that thread t still has to return.
Unreturned(t) == {c \in Made : block[c].by = t /\ block[c].valid /\ block[c].count > 0}

\* borrowed_publisher_num is the number of the thread's own loans, so that it is not zero
\* while a message is being filled, nothing of a published message is in private memory,
\* and the library does not end the process (agnocast_get_borrowed_publisher_num).
LoansCounted ==
    /\ \A t \in Threads : borrowed[t] = Cardinality(Unreturned(t))
    /\ \A m \in InTree : contents[m] = {"shared"}
    /\ ~failed

\* Loans are safe in programs that use them as the classes' documentation has it.
LoansSafe ==
    program.careful =>
        /\ ~failed => OneOwner
        /\ program.confined => LoansCounted
=============================================================================
