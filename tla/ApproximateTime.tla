--------------------------- MODULE ApproximateTime ---------------------------
(***************************************************************************)
(* The ApproximateTime policy of agnocast's message_filters: N topics feed *)
(* deques, and the policy publishes the tightest sets it can form, one      *)
(* message per topic.  A set is the best one that contains its pivot, the   *)
(* message that was the latest when the search for the set began.           *)
(*                                                                          *)
(* add() holds data_mutex_ from its first line to its last, so calls do not *)
(* interleave; what is hard is the search inside one call.  Each iteration  *)
(* of its loops is a step here, and the assertions of the code become       *)
(* statements about every state the loops go through.                       *)
(***************************************************************************)
EXTENDS Integers, Sequences, FiniteSets, FiniteSetsExt, SequencesExt

CONSTANTS
    N,              \* RealTypeCount: how many topics are synchronized
    QueueSize,      \* queue_size_
    MaxInterval,    \* max_interval_duration_
    AgePenalty,     \* age_penalty_, in tenths
    LowerBound,     \* inter_message_lower_bounds_, one per topic
    MaxTime,        \* bound: the stamps the inputs carry
    MaxMessages     \* bound: how many messages each topic gets

Topics == 1 .. N

NoPivot == 0

VARIABLES
    q,        \* the policy: deques, past, numNonEmpty, pivot, pivotTime,
              \* candidate with its start and end, dropped
    pc,       \* where the running add() is; "idle" between calls
    again,    \* whether the overflow check has already been made
    topic,    \* the topic the running add() was called for
    heads,    \* start and end of the interval the iteration looks at
    moves,    \* num_virtual_moves
    arrived,  \* history: the stamps each topic has delivered
    sent      \* history: the sets handed to the synchronizer's signal

vars == <<q, pc, again, topic, heads, moves, arrived, sent>>

None == [i \in Topics |-> 0]

Init ==
    /\ q = [deques |-> [i \in Topics |-> <<>>], past |-> [i \in Topics |-> <<>>],
            numNonEmpty |-> 0, pivot |-> NoPivot, pivotTime |-> 0,
            candidate |-> <<>>, candStart |-> 0, candEnd |-> 0,
            dropped |-> [i \in Topics |-> FALSE]]
    /\ pc = "idle"
    /\ again = FALSE
    /\ topic = 0
    /\ heads = [start |-> 0, startTime |-> 0, end |-> 0, endTime |-> 0]
    /\ moves = None
    /\ arrived = [i \in Topics |-> <<>>]
    /\ sent = <<>>

-----------------------------------------------------------------------------
\* The helpers of the search

\* The topic with the earliest of the given times and the one with the latest;
\* among equals the scan keeps the first start and the last end.
Boundaries(time) ==
    LET lo == Min({time[i] : i \in Topics})
        hi == Max({time[i] : i \in Topics})
    IN  [start |-> Min({i \in Topics : time[i] = lo}), startTime |-> lo,
         end   |-> Max({i \in Topics : time[i] = hi}), endTime   |-> hi]

CandidateBoundaries == Boundaries([i \in Topics |-> Head(q.deques[i]).time])

\* The earliest time the next message of a topic can have.
VirtualTime_ahead(i) ==
    IF q.deques[i] = <<>>
    THEN Max({Last(q.past[i]).time + LowerBound[i], q.pivotTime}) + 1
    ELSE Head(q.deques[i]).time

VirtualTime(i) ==
    IF q.deques[i] = <<>>
    THEN Max({Last(q.past[i]).time + LowerBound[i], q.pivotTime})
    ELSE Head(q.deques[i]).time

VirtualBoundaries == Boundaries([i \in Topics |-> VirtualTime(i)])

NonEmpty(deques) == Cardinality({i \in Topics : deques[i] # <<>>})

\* An interval that ends at e and starts at s is no better than the candidate.
NoBetter(e, s) ==
    (e - q.candEnd) * (10 + AgePenalty) >= 10 * (s - q.candStart)

DequeDeleteFront(s, i) ==
    [s EXCEPT !.deques[i] = Tail(@),
              !.numNonEmpty = IF Len(s.deques[i]) = 1 THEN @ - 1 ELSE @]

DequeMoveFrontToPast(s, i) ==
    [DequeDeleteFront(s, i) EXCEPT !.past[i] = Append(@, Head(s.deques[i]))]

\* The heads of the deques become the candidate, and the past is forgotten.
MakeCandidate(s, b) ==
    [s EXCEPT !.candidate = [i \in Topics |-> Head(s.deques[i])],
              !.past = [i \in Topics |-> <<>>],
              !.candStart = b.startTime,
              !.candEnd = b.endTime]

\* The last n[i] messages of past i return to the front of deque i.
Recover(s, n) ==
    LET kept(i) == Len(s.past[i]) - n[i]
        deques == [i \in Topics |->
                     SubSeq(s.past[i], kept(i) + 1, Len(s.past[i])) \o s.deques[i]]
    IN  [s EXCEPT !.deques = deques,
                  !.past = [i \in Topics |-> SubSeq(s.past[i], 1, kept(i))],
                  !.numNonEmpty = NonEmpty(deques)]

WholePast(s) == [i \in Topics |-> Len(s.past[i])]

\* The candidate is signalled; the messages hidden in the past come back, all
\* but the first of each topic, which is the one that was published.
RecoverAndDelete_keepsFront(s) == Recover(s, WholePast(s))

RecoverAndDelete(s) ==
    LET all == Recover(s, WholePast(s))
        deques == [i \in Topics |-> Tail(all.deques[i])]
    IN  [all EXCEPT !.deques = deques, !.numNonEmpty = NonEmpty(deques)]

PublishCandidate ==
    /\ sent' = Append(sent, [set |-> q.candidate, pivot |-> q.pivot])
    /\ q' = RecoverAndDelete([q EXCEPT !.candidate = <<>>, !.pivot = NoPivot])

-----------------------------------------------------------------------------
\* add(): a message arrives on topic i

Add(i, t) ==
    /\ pc = "idle"
    /\ Len(arrived[i]) < MaxMessages
    /\ arrived[i] # <<>> => t >= Last(arrived[i]) + LowerBound[i]
    /\ arrived' = [arrived EXCEPT ![i] = Append(@, t)]
    /\ topic' = i
    /\ again' = FALSE
    /\ LET first == q.deques[i] = <<>>
           num == IF first THEN q.numNonEmpty + 1 ELSE q.numNonEmpty
       IN  /\ q' = [q EXCEPT !.deques[i] =
                              Append(@, [time |-> t, no |-> Len(arrived[i]) + 1]),
                             !.numNonEmpty = num]
           /\ pc' = IF first /\ num = N THEN "process" ELSE "overflow"
    /\ UNCHANGED <<heads, moves, sent>>

\* More messages than queue_size_: the search is cancelled and the oldest
\* message of the topic goes; what is left may still make a candidate.
Popped ==
    LET back == Recover(q, WholePast(q))
    IN  [back EXCEPT !.deques[topic] = Tail(@), !.dropped[topic] = TRUE]

Overflow_keepsPivot ==
    /\ pc = "overflow"
    /\ Len(q.deques[topic]) + Len(q.past[topic]) > QueueSize
    /\ q' = Popped
    /\ pc' = IF q.pivot = NoPivot THEN "idle" ELSE "process"
    /\ again' = TRUE
    /\ UNCHANGED <<topic, heads, moves, arrived, sent>>

Overflow ==
    /\ pc = "overflow"
    /\ Len(q.deques[topic]) + Len(q.past[topic]) > QueueSize
    /\ \/ q.pivot = NoPivot /\ pc' = "idle" /\ q' = Popped
       \/ /\ q.pivot # NoPivot
          /\ pc' = "process"
          /\ q' = [Popped EXCEPT !.candidate = <<>>, !.pivot = NoPivot]
    /\ again' = TRUE
    /\ UNCHANGED <<topic, heads, moves, arrived, sent>>

WithinQueue ==
    /\ pc = "overflow"
    /\ Len(q.deques[topic]) + Len(q.past[topic]) <= QueueSize
    /\ pc' = "idle"
    /\ UNCHANGED <<q, again, topic, heads, moves, arrived, sent>>

-----------------------------------------------------------------------------
\* process(): the loop runs while no deque is empty

LoopEnds ==
    /\ pc = "process"
    /\ q.numNonEmpty < N
    /\ pc' = IF again THEN "idle" ELSE "overflow"
    /\ UNCHANGED <<q, again, topic, heads, moves, arrived, sent>>

\* A topic that is not the latest cannot have dropped a better message.
Cleared(b) ==
    [q EXCEPT !.dropped = [i \in Topics |-> i = b.end /\ @[i]]]

\* Without a pivot: the interval is too wide, or its last topic has dropped
\* messages and makes no good pivot.
SkipStart ==
    /\ pc = "process" /\ q.numNonEmpty = N /\ q.pivot = NoPivot
    /\ LET b == CandidateBoundaries
       IN  /\ \/ b.endTime - b.startTime > MaxInterval
              \/ q.dropped[b.end]
           /\ q' = DequeDeleteFront(Cleared(b), b.start)
           /\ heads' = b
    /\ UNCHANGED <<pc, again, topic, moves, arrived, sent>>

\* Without a pivot: the heads are the first candidate and the latest of them
\* is the pivot.
TakeCandidate ==
    /\ pc = "process" /\ q.numNonEmpty = N /\ q.pivot = NoPivot
    /\ LET b == CandidateBoundaries
           taken == [MakeCandidate(Cleared(b), b) EXCEPT !.pivot = b.end,
                                                         !.pivotTime = b.endTime]
       IN  /\ b.endTime - b.startTime <= MaxInterval
           /\ ~q.dropped[b.end]
           /\ q' = DequeMoveFrontToPast(taken, b.start)
           /\ heads' = b
    /\ pc' = "decide"
    /\ UNCHANGED <<again, topic, moves, arrived, sent>>

\* With a pivot: the heads replace the candidate if they are better.
CompareCandidate ==
    /\ pc = "process" /\ q.numNonEmpty = N /\ q.pivot # NoPivot
    /\ LET b == CandidateBoundaries
           best == IF NoBetter(b.endTime, b.startTime)
                   THEN Cleared(b) ELSE MakeCandidate(Cleared(b), b)
       IN  /\ q' = DequeMoveFrontToPast(best, b.start)
           /\ heads' = b
    /\ pc' = "decide"
    /\ UNCHANGED <<again, topic, moves, arrived, sent>>

\* The candidate is published when its pivot is exhausted, or when any set
\* still to come is already too wide.
PublishNow ==
    /\ pc = "decide"
    /\ \/ heads.start = q.pivot
       \/ NoBetter(heads.endTime, q.pivotTime)
    /\ PublishCandidate
    /\ pc' = "process"
    /\ UNCHANGED <<again, topic, heads, moves, arrived>>

Undecided ==
    /\ pc = "decide"
    /\ heads.start # q.pivot
    /\ ~NoBetter(heads.endTime, q.pivotTime)

KeepSearching ==
    /\ Undecided
    /\ q.numNonEmpty = N
    /\ pc' = "process"
    /\ UNCHANGED <<q, again, topic, heads, moves, arrived, sent>>

\* A deque ran empty: the rate bounds stand in for its next message.
StartVirtualSearch ==
    /\ Undecided
    /\ q.numNonEmpty < N
    /\ moves' = None
    /\ pc' = "virtual"
    /\ UNCHANGED <<q, again, topic, heads, arrived, sent>>

Proven(v) == NoBetter(v.endTime, q.pivotTime)

Refuted(v) == ~NoBetter(v.endTime, v.startTime)

VirtualPublish ==
    /\ pc = "virtual"
    /\ Proven(VirtualBoundaries)
    /\ PublishCandidate
    /\ pc' = "process"
    /\ UNCHANGED <<again, topic, heads, moves, arrived>>

VirtualGiveUp ==
    /\ pc = "virtual"
    /\ ~Proven(VirtualBoundaries)
    /\ Refuted(VirtualBoundaries)
    /\ q' = Recover(q, moves)
    /\ pc' = "process"
    /\ UNCHANGED <<again, topic, heads, moves, arrived, sent>>

VirtualMove ==
    /\ pc = "virtual"
    /\ LET v == VirtualBoundaries
       IN  /\ ~Proven(v)
           /\ ~Refuted(v)
           /\ q' = DequeMoveFrontToPast(q, v.start)
           /\ moves' = [moves EXCEPT ![v.start] = @ + 1]
    /\ UNCHANGED <<pc, again, topic, heads, arrived, sent>>

Next ==
    \/ \E i \in Topics, t \in 0 .. MaxTime : Add(i, t)
    \/ Overflow \/ WithinQueue
    \/ LoopEnds \/ SkipStart \/ TakeCandidate \/ CompareCandidate
    \/ PublishNow \/ KeepSearching
    \/ StartVirtualSearch \/ VirtualPublish \/ VirtualGiveUp \/ VirtualMove

Spec == Init /\ [][Next]_vars

-----------------------------------------------------------------------------
\* Properties

\* What the assertions and the INVARIANT comments of process() claim: the count
\* of non-empty deques is exact whenever add() returns or the loop tests it,
\* nothing waits in the past without a pivot, no topic with a candidate has
\* dropped messages, a topic without a visible message has one in the past
\* while a candidate exists, and a virtual move never takes the pivot.
AssertsHold ==
    /\ pc \in {"idle", "process"} => q.numNonEmpty = NonEmpty(q.deques)
    /\ q.pivot = NoPivot => \A i \in Topics : q.past[i] = <<>>
    /\ q.pivot # NoPivot => \A i \in Topics :
          /\ ~q.dropped[i] \/ pc = "overflow"
          /\ q.deques[i] \o q.past[i] # <<>>
    /\ pc = "virtual" /\ ~Proven(VirtualBoundaries) /\ ~Refuted(VirtualBoundaries)
          => /\ VirtualBoundaries.start # q.pivot
             /\ VirtualBoundaries.startTime < q.pivotTime

\* A message is published at most once, and the sets follow the order of every
\* topic: no later set uses an older message than an earlier set.
SetsInOrder ==
    \A a, b \in DOMAIN sent : a < b =>
        \A i \in Topics : sent[a].set[i].no < sent[b].set[i].no

\* All sets that contain the pivot of published set a and use no message of an
\* earlier set.  Messages that arrived after the set was published count too.
Rivals(a) ==
    LET from(i) == IF a = 1 THEN 1 ELSE sent[a - 1].set[i].no + 1
    IN  {r \in [Topics -> 1 .. MaxMessages] :
            /\ \A i \in Topics : r[i] \in from(i) .. Len(arrived[i])
            /\ r[sent[a].pivot] = sent[a].set[sent[a].pivot].no}

\* A published set is the best one with its pivot, weighed by age: neither the
\* early exits of the search nor the virtual messages of the rate bounds give
\* up a better set, not even one a later arrival would have completed.
SetsOptimal ==
    \A a \in DOMAIN sent : \A r \in Rivals(a) :
        LET times(f) == {arrived[i][f[i]] : i \in Topics}
            mine == [i \in Topics |-> sent[a].set[i].no]
        IN  (Max(times(r)) - Max(times(mine))) * (10 + AgePenalty)
               >= 10 * (Min(times(r)) - Min(times(mine)))

=============================================================================
