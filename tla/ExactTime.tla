------------------------------ MODULE ExactTime ------------------------------
(***************************************************************************)
(* The ExactTime policy of agnocast's message_filters: messages of N topics *)
(* meet in one tuple per stamp, a full tuple is signalled, and every tuple  *)
(* that can no longer be filled goes to the drop callback.                  *)
(***************************************************************************)
EXTENDS Integers, FiniteSets, FiniteSetsExt

CONSTANTS
    Inputs,       \* how many topics are synchronized
    TupleLimit,   \* queue_size_
    LastStamp     \* bound: the stamps of the inputs

Channels == 1 .. Inputs
Stamps == 1 .. LastStamp

VARIABLES
    tuples,       \* tuples_: the channels present, for every stamp in the map
    lastSignal,   \* last_signal_time_, 0 before the first signal
    delivered,    \* history: the messages of each channel, as stamps
    signalled,    \* history: the stamps of the tuples signalled
    dropped       \* history: the messages given to the drop callback

vars == <<tuples, lastSignal, delivered, signalled, dropped>>

Init ==
    /\ tuples = [s \in {} |-> {}]
    /\ lastSignal = 0
    /\ delivered = [c \in Channels |-> {}]
    /\ signalled = {}
    /\ dropped = {}

Keep(map, stamps) == [s \in DOMAIN map \cap stamps |-> map[s]]

MessagesOf(map) == UNION {map[s] \X {s} : s \in DOMAIN map}

\* The tuples a signal at stamp t leaves behind: the map is ordered, and all
\* that is not later than t goes.
ClearOldTuples_none(map, t) == map

ClearOldTuples(map, t) == Keep(map, {s \in Stamps : s > t})

\* queue_size_ = 0 means no limit; otherwise the oldest tuples go.
Trim(map) ==
    IF TupleLimit = 0 THEN map
    ELSE Keep(map, {s \in DOMAIN map :
                      Cardinality({r \in DOMAIN map : r >= s}) <= TupleLimit})

\* add() and checkTuple(), under the mutex of the policy
Add(c, s) ==
    /\ \A r \in delivered[c] : r < s
    /\ delivered' = [delivered EXCEPT ![c] = @ \cup {s}]
    /\ LET filled == [r \in DOMAIN tuples \cup {s} |->
                        (IF r \in DOMAIN tuples THEN tuples[r] ELSE {})
                          \cup (IF r = s THEN {c} ELSE {})]
           full == filled[s] = Channels
           rest == IF full THEN Keep(filled, Stamps \ {s}) ELSE filled
           kept == Trim(IF full THEN ClearOldTuples(rest, s) ELSE rest)
       IN  /\ tuples' = kept
           /\ signalled' = IF full THEN signalled \cup {s} ELSE signalled
           /\ lastSignal' = IF full THEN s ELSE lastSignal
           /\ dropped' = dropped \cup (MessagesOf(rest) \ MessagesOf(kept))

Next == \E c \in Channels, s \in Stamps : Add(c, s)

Spec == Init /\ [][Next]_vars

-----------------------------------------------------------------------------
\* Channels deliver in order.  Then a tuple is never signalled after a later
\* one, no tuple outlives a signal that is not older, and every message that
\* came in is in exactly one place: waiting, part of a signalled tuple, or
\* handed to the drop callback.
ExactAccounted ==
    /\ \A s \in DOMAIN tuples : s > lastSignal
    /\ signalled # {} => lastSignal = Max(signalled)
    /\ LET all == UNION {{c} \X delivered[c] : c \in Channels}
           waiting == MessagesOf(tuples)
           used == Channels \X signalled
       IN  /\ all = waiting \cup used \cup dropped
           /\ waiting \cap used = {} /\ waiting \cap dropped = {} /\ used \cap dropped = {}

=============================================================================
