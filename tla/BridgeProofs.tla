---------------------------- MODULE BridgeProofs ----------------------------
(***************************************************************************)
(* Proofs about the bridge manager's threads, for any number of senders,   *)
(* any capacity of the socket and any number of retries: every thread is   *)
(* told of the shutdown, and until then no message is lost, doubled or     *)
(* overtaken.  The bridges rest in a behaviour that exercises the threads. *)
(***************************************************************************)
EXTENDS MCBridge, WellFoundedInduction, TLAPS

-----------------------------------------------------------------------------
\* The shutdown

\* Where the threads may be, and what they share.
LoopTypes ==
  /\ main \in M!Setup \cup {"execution", "worker", "check", "poll", "events", "dtor", "joinWorker",
                            "joinExecutor", "cleanup", "gone", "threw"}
  /\ worker \in {"none", "check", "lock", "test", "dozing", "asleep", "dispatch", "sweep", "done"}
  /\ executor \in {"none", "starting", "spinning", "told", "crashed", "done"}
  /\ flag \in BOOLEAN /\ woken \in BOOLEAN /\ holder \in BOOLEAN
  /\ request \in [M!Threads -> {"none", "store", "notify", "cancel", "wakeup"}]

\* The worker holds pending_msgs_mtx_ from its lock to its wait, and nobody stores the
\* flag meanwhile.
WorkerHolds ==
  /\ holder <=> worker \in {"test", "dozing"}
  /\ flag => worker # "dozing"
  /\ main \in M!Setup \cup {"execution", "worker", "threw"} => worker = "none"

\* A worker that sleeps through the store of the flag is about to be notified, a loop
\* that polls through it about to be woken.
StillToCome ==
  /\ flag /\ worker = "asleep" => \E t \in M!Threads : request[t] = "notify"
  /\ flag /\ main = "poll" /\ ~woken =>
       \E t \in M!Threads : request[t] \in {"notify", "cancel", "wakeup"}

\* How far the destructor has got with its own request.
DtorAsks ==
  /\ main \in {"dtor", "joinWorker", "joinExecutor", "cleanup", "gone"} => flag
  /\ main \in {"check", "poll", "events", "dtor", "joinWorker", "joinExecutor", "worker"}
       => executor # "none"
  /\ main \in {"joinWorker", "joinExecutor"} /\ request["main"] \notin {"store", "notify"}
       => worker # "asleep"
  /\ main \in {"joinWorker", "joinExecutor"} /\ request["main"] \notin {"store", "notify", "cancel"}
       => executor \in {"told", "crashed", "done"} \/ cancelLost

\* The inductive invariant of the shutdown.
ShutdownInv == LoopTypes /\ WorkerHolds /\ StillToCome /\ DtorAsks

\* Every step of the manager's threads keeps the invariant.
LEMMA ShutdownInvSteps == ShutdownInv /\ M!Next => ShutdownInv'
<1> USE DEF ShutdownInv, LoopTypes, WorkerHolds, StillToCome, DtorAsks, M!Threads, M!Setup,
            M!loopVars, M!workVars, M!endVars, M!sendVars, M!Starts, M!Idle
<1> SUFFICES ASSUME ShutdownInv, M!Next PROVE ShutdownInv'
  OBVIOUS
<1>1. ASSUME NEW s \in Senders, M!send_bridge_uds_message(s) PROVE ShutdownInv'
  BY <1>1 DEF M!send_bridge_uds_message
<1>2. ASSUME M!SignalArrives PROVE ShutdownInv'
  BY <1>2 DEF M!SignalArrives
<1>3. ASSUME M!SetupFails PROVE ShutdownInv'
  BY <1>3 DEF M!SetupFails, M!After
<1>4. ASSUME M!SpinFails PROVE ShutdownInv'
  BY <1>4 DEF M!SpinFails
<1>5. ASSUME M!handle_socket PROVE ShutdownInv'
  BY <1>5 DEF M!handle_socket
<1>6. ASSUME NEW t \in M!Threads, M!RequestStore(t) PROVE ShutdownInv'
  BY <1>6 DEF M!RequestStore, M!MayStore
<1>7. ASSUME NEW t \in M!Threads, M!RequestNotify(t) PROVE ShutdownInv'
  BY <1>7 DEF M!RequestNotify
<1>8. ASSUME NEW t \in M!Threads, M!RequestCancel(t) PROVE ShutdownInv'
  BY <1>8 DEF M!RequestCancel
<1>9. ASSUME NEW t \in M!Threads, M!RequestWakeup(t) PROVE ShutdownInv'
  BY <1>9 DEF M!RequestWakeup, M!Wakes
<1>10. ASSUME M!SetupStep PROVE ShutdownInv'
  BY <1>10 DEF M!SetupStep, M!After
<1>11. ASSUME M!start_ros_execution PROVE ShutdownInv'
  BY <1>11 DEF M!start_ros_execution
<1>12. ASSUME M!start_worker_thread PROVE ShutdownInv'
  BY <1>12 DEF M!start_worker_thread
<1>13. ASSUME M!run PROVE ShutdownInv'
  BY <1>13 DEF M!run
<1>14. ASSUME M!spin_once PROVE ShutdownInv'
  BY <1>14 DEF M!spin_once
<1>15. ASSUME M!EventsEnd PROVE ShutdownInv'
  BY <1>15 DEF M!EventsEnd
<1>16. ASSUME M!drain_listener PROVE ShutdownInv'
  BY <1>16 DEF M!drain_listener
<1>17. ASSUME M!parse_and_enqueue PROVE ShutdownInv'
  BY <1>17 DEF M!parse_and_enqueue, M!Awake
<1>18. ASSUME M!on_signal PROVE ShutdownInv'
  BY <1>18 DEF M!on_signal, M!Handling
<1>19. ASSUME M!ReadWakeup PROVE ShutdownInv'
  BY <1>19 DEF M!ReadWakeup, M!Handling
<1>20. ASSUME M!Destroy PROVE ShutdownInv'
  BY <1>20 DEF M!Destroy
<1>21. ASSUME M!Join PROVE ShutdownInv'
  BY <1>21 DEF M!Join
<1>22. ASSUME M!cleanup_resources PROVE ShutdownInv'
  BY <1>22 DEF M!cleanup_resources
<1>23. ASSUME M!WorkerEnds PROVE ShutdownInv'
  BY <1>23 DEF M!WorkerEnds
<1>24. ASSUME M!WorkerLocks PROVE ShutdownInv'
  BY <1>24 DEF M!WorkerLocks
<1>25. ASSUME M!WorkerWaits PROVE ShutdownInv'
  BY <1>25 DEF M!WorkerWaits
<1>26. ASSUME M!WorkerSleeps PROVE ShutdownInv'
  BY <1>26 DEF M!WorkerSleeps
<1>27. ASSUME M!WorkerTakes PROVE ShutdownInv'
  BY <1>27 DEF M!WorkerTakes, M!SwapBatch, M!Left
<1>28. ASSUME M!WorkerTimeout PROVE ShutdownInv'
  BY <1>28 DEF M!WorkerTimeout, M!SwapBatch, M!Left
<1>29. ASSUME M!dispatch_bridge_message PROVE ShutdownInv'
  BY <1>29 DEF M!dispatch_bridge_message
<1>30. ASSUME NEW u \in BOOLEAN, M!WorkerSweeps(u) PROVE ShutdownInv'
  BY <1>30 DEF M!WorkerSweeps
<1>31. ASSUME M!ExecutorSpins PROVE ShutdownInv'
  BY <1>31 DEF M!ExecutorSpins
<1>32. ASSUME M!ExecutorReturns PROVE ShutdownInv'
  BY <1>32 DEF M!ExecutorReturns
<1>33. ASSUME M!ExecutorCrashes PROVE ShutdownInv'
  BY <1>33 DEF M!ExecutorCrashes
<1>34. ASSUME M!CrashEnds PROVE ShutdownInv'
  BY <1>34 DEF M!CrashEnds
<1> QED BY <1>1, <1>2, <1>3, <1>4, <1>5, <1>6, <1>7, <1>8, <1>9, <1>10, <1>11, <1>12, <1>13,
       <1>14, <1>15, <1>16, <1>17, <1>18, <1>19, <1>20, <1>21, <1>22, <1>23, <1>24, <1>25,
       <1>26, <1>27, <1>28, <1>29, <1>30, <1>31, <1>32, <1>33, <1>34 DEF M!Next,
       M!request_shutdown, M!MainSteps, M!WorkerSteps, M!ExecutorSteps

\* It holds when the manager starts ...
LEMMA ShutdownInvStarts == M!Init => ShutdownInv
BY DEF M!Init, ShutdownInv, LoopTypes, WorkerHolds, StillToCome, DtorAsks, M!Threads, M!Setup

\* ... and as long as the manager rests.
LEMMA ShutdownInvStutters == ShutdownInv /\ UNCHANGED loopVars => ShutdownInv'
BY DEF loopVars, ShutdownInv, LoopTypes, WorkerHolds, StillToCome, DtorAsks, M!Threads, M!Setup

\* The invariant says what the run checks.
LEMMA ShutdownInvSays == ShutdownInv => ShutdownReachesAll
BY DEF ShutdownInv, LoopTypes, WorkerHolds, StillToCome, DtorAsks, M!Threads, M!Setup,
       ShutdownReachesAll, M!PromptShutdown, M!JoinsEnd, M!Past, M!Idle

\* A request for shutdown reaches the worker, the event loop and the executor, in every
\* interleaving of request_shutdown with worker_loop, run and ~BridgeManager: no thread
\* sleeps over the flag, and none is joined that nobody has told.
THEOREM ShutdownReaches == BridgeSpec => []ShutdownReachesAll
<1>1. BridgeInit => ShutdownInv
  BY ShutdownInvStarts DEF BridgeInit
<1>2. ShutdownInv /\ [BridgeNext]_<<part, vars, loopVars>> => ShutdownInv'
  BY ShutdownInvSteps, ShutdownInvStutters DEF BridgeNext
<1> QED
  BY <1>1, <1>2, ShutdownInvSays, PTL DEF BridgeSpec

-----------------------------------------------------------------------------
\* The filter of the well-formed datagrams

\* A nonempty set of natural numbers has a least member.
LEMMA LeastNat ==
  ASSUME NEW T \in SUBSET Nat, T # {}
  PROVE  \E k \in T : \A j \in T : k <= j
<1>1. IsWellFoundedOn(OpToRel(<, Nat), Nat)
  BY NatLessThanWellFounded
<1>2. PICK k \in T : \A j \in T : <<j, k>> \notin OpToRel(<, Nat)
  BY <1>1, WFMin
<1>3. \A j \in T : ~(j < k)
  BY <1>2 DEF OpToRel
<1> QED BY <1>3

\* kept is the sequence of the filtered prefixes of msgs, up to length n.
Filters(kept, msgs, n) ==
  /\ kept \in [0 .. n -> Seq(Senders)]
  /\ \A i \in 0 .. n :
       kept[i] = IF i = 0 THEN <<>>
                 ELSE IF msgs[i] \in Malformed THEN kept[i - 1] ELSE Append(kept[i - 1], msgs[i])

\* There are filtered prefixes up to every length.
LEMMA FiltersExist ==
  ASSUME NEW msgs \in Seq(Senders), NEW n \in 0 .. Len(msgs)
  PROVE  \E kept : Filters(kept, msgs, n)
<1> DEFINE T == {k \in 0 .. Len(msgs) : ~ \E kept : Filters(kept, msgs, k)}
<1> SUFFICES ASSUME T # {} PROVE FALSE
  OBVIOUS
<1>1. PICK k \in T : \A j \in T : k <= j
  <2>1. T \in SUBSET Nat
    OBVIOUS
  <2> HIDE DEF T
  <2> QED BY <2>1, LeastNat
<1>2. k \in 0 .. Len(msgs) /\ ~ \E kept : Filters(kept, msgs, k)
  OBVIOUS
<1>3. k # 0
  <2>1. Filters([i \in 0 .. 0 |-> <<>>], msgs, 0)
    BY DEF Filters
  <2> QED BY <1>2, <2>1
<1>4. k - 1 \in 0 .. Len(msgs) /\ k - 1 \notin T
  BY <1>1, <1>3
<1>5. PICK kept : Filters(kept, msgs, k - 1)
  BY <1>4
<1> HIDE DEF T
<1> DEFINE new == IF msgs[k] \in Malformed THEN kept[k - 1] ELSE Append(kept[k - 1], msgs[k])
           more == [i \in 0 .. k |-> IF i = k THEN new ELSE kept[i]]
<1>6. kept[k - 1] \in Seq(Senders) /\ msgs[k] \in Senders
  BY <1>2, <1>3, <1>5 DEF Filters
<1>7. new \in Seq(Senders)
  BY <1>6
<1> HIDE DEF new
<1>8. Filters(more, msgs, k)
  <2>1. more \in [0 .. k -> Seq(Senders)]
    BY <1>2, <1>3, <1>5, <1>7 DEF Filters
  <2>2. ASSUME NEW i \in 0 .. k
        PROVE  more[i] = IF i = 0 THEN <<>>
                 ELSE IF msgs[i] \in Malformed THEN more[i - 1] ELSE Append(more[i - 1], msgs[i])
    <3>1. CASE i = k
      <4>1. more[i] = new /\ more[i - 1] = kept[k - 1]
        BY <3>1, <1>2, <1>3
      <4> HIDE DEF more
      <4> QED BY <3>1, <4>1, <1>3 DEF new
    <3>2. CASE i # k
      <4>1. more[i] = kept[i] /\ (i # 0 => more[i - 1] = kept[i - 1]) /\ i \in 0 .. k - 1
        BY <3>2, <1>2, <1>3
      <4> HIDE DEF more
      <4> QED BY <4>1, <1>5 DEF Filters
    <3> QED BY <3>1, <3>2
  <2> HIDE DEF more
  <2> QED BY <2>1, <2>2 DEF Filters
<1> QED BY <1>2, <1>8

\* Sequences that agree up to n have the same filtered prefix of length n.
LEMMA FiltersAgree ==
  ASSUME NEW one \in Seq(Senders), NEW two \in Seq(Senders), NEW n \in Nat, n <= Len(one), n <= Len(two),
         \A i \in 1 .. n : one[i] = two[i],
         NEW f, NEW g, NEW a \in Nat, NEW b \in Nat, n <= a, n <= b, Filters(f, one, a), Filters(g, two, b)
  PROVE  f[n] = g[n]
<1> DEFINE T == {k \in 0 .. n : f[k] # g[k]}
<1> SUFFICES ASSUME T # {} PROVE FALSE
  OBVIOUS
<1>1. PICK k \in T : \A j \in T : k <= j
  <2>1. T \in SUBSET Nat
    OBVIOUS
  <2> HIDE DEF T
  <2> QED BY <2>1, LeastNat
<1>2. k \in 0 .. n /\ f[k] # g[k] /\ k \in 0 .. a /\ k \in 0 .. b
  OBVIOUS
<1>3. k # 0
  BY <1>2 DEF Filters
<1>4. f[k - 1] = g[k - 1] /\ one[k] = two[k]
  BY <1>1, <1>2, <1>3
<1> HIDE DEF T
<1> QED BY <1>2, <1>3, <1>4 DEF Filters

\* WellFormed is computed by its prefixes.
LEMMA WellFormedIs ==
  ASSUME NEW msgs \in Seq(Senders)
  PROVE  \E kept : Filters(kept, msgs, Len(msgs)) /\ M!WellFormed(msgs) = kept[Len(msgs)]
<1> DEFINE rule(f) == [i \in 0 .. Len(msgs) |->
                         IF i = 0 THEN <<>>
                         ELSE IF msgs[i] \in Malformed THEN f[i - 1] ELSE Append(f[i - 1], msgs[i])]
           it == CHOOSE f : f = rule(f)
<1>1. PICK kept : Filters(kept, msgs, Len(msgs))
  BY FiltersExist
<1>2. kept = rule(kept)
  BY <1>1 DEF Filters
<1>3. it = rule(it)
  <2> HIDE DEF rule
  <2> QED BY <1>2
<1>4. M!WellFormed(msgs) = it[Len(msgs)]
  BY DEF M!WellFormed
<1> HIDE DEF it
<1>5. it[Len(msgs)] = kept[Len(msgs)]
  <2> DEFINE T == {k \in 0 .. Len(msgs) : it[k] # kept[k]}
  <2> SUFFICES ASSUME T # {} PROVE FALSE
    OBVIOUS
  <2>1. PICK k \in T : \A j \in T : k <= j
    <3>1. T \in SUBSET Nat
      OBVIOUS
    <3> HIDE DEF T
    <3> QED BY <3>1, LeastNat
  <2>2. k \in 0 .. Len(msgs) /\ it[k] # kept[k]
    OBVIOUS
  <2>3. it[k] = rule(it)[k] /\ kept[k] = rule(kept)[k]
    BY <1>2, <1>3
  <2>4. k # 0
    BY <2>2, <2>3
  <2>5. it[k - 1] = kept[k - 1]
    BY <2>1, <2>2, <2>4
  <2> QED BY <2>2, <2>3, <2>4, <2>5
<1> QED BY <1>1, <1>4, <1>5

\* The filter keeps its argument's type.
LEMMA WellFormedType ==
  ASSUME NEW msgs \in Seq(Senders)
  PROVE  M!WellFormed(msgs) \in Seq(Senders)
BY WellFormedIs DEF Filters

\* Nothing is left of nothing.
LEMMA WellFormedEmpty == M!WellFormed(<<>>) = <<>>
<1>1. <<>> \in Seq(Senders) /\ Len(<<>>) = 0
  OBVIOUS
<1>2. PICK kept : Filters(kept, <<>>, 0) /\ M!WellFormed(<<>>) = kept[0]
  BY <1>1, WellFormedIs
<1> QED BY <1>2 DEF Filters

\* Appending to a concatenation appends to its second part.
LEMMA ConcatAppend ==
  ASSUME NEW S, NEW f \in Seq(S), NEW g \in Seq(S), NEW x \in S
  PROVE  Append(f \o g, x) = f \o Append(g, x)
OBVIOUS

\* The filter drops a malformed last datagram and keeps a well-formed one ...
LEMMA WellFormedAppend ==
  ASSUME NEW msgs \in Seq(Senders), NEW m \in Senders
  PROVE  M!WellFormed(Append(msgs, m))
           = IF m \in Malformed THEN M!WellFormed(msgs) ELSE Append(M!WellFormed(msgs), m)
<1> DEFINE more == Append(msgs, m)
           n == Len(msgs)
<1>1. more \in Seq(Senders) /\ Len(more) = n + 1 /\ n \in Nat /\ more[n + 1] = m
      /\ \A i \in 1 .. n : msgs[i] = more[i]
  OBVIOUS
<1>2. PICK f : Filters(f, msgs, n) /\ M!WellFormed(msgs) = f[n]
  BY WellFormedIs
<1> HIDE DEF more
<1>3. PICK g : Filters(g, more, n + 1) /\ M!WellFormed(more) = g[n + 1]
  BY <1>1, WellFormedIs
<1> HIDE DEF n
<1>4. f[n] = g[n]
  <2>1. n <= n + 1 /\ n <= n /\ n + 1 \in Nat /\ n <= Len(more) /\ n <= Len(msgs)
    BY <1>1 DEF n
  <2> QED BY <1>1, <1>2, <1>3, <2>1, FiltersAgree
<1>5. g[n + 1] = IF m \in Malformed THEN g[n] ELSE Append(g[n], m)
  <2>1. n + 1 \in 0 .. n + 1 /\ n + 1 # 0 /\ (n + 1) - 1 = n
    BY <1>1
  <2> QED BY <1>1, <1>3, <2>1 DEF Filters
<1> QED BY <1>2, <1>3, <1>4, <1>5 DEF more

\* ... and the first likewise.
LEMMA WellFormedCons ==
  ASSUME NEW msgs \in Seq(Senders), NEW m \in Senders
  PROVE  M!WellFormed(<<m>> \o msgs)
           = (IF m \in Malformed THEN <<>> ELSE <<m>>) \o M!WellFormed(msgs)
<1> DEFINE first == IF m \in Malformed THEN <<>> ELSE <<m>>
           Fits(s) == M!WellFormed(<<m>> \o s) = first \o M!WellFormed(s)
           T == {k \in Nat : \E s \in Seq(Senders) : Len(s) = k /\ ~Fits(s)}
<1>0. first \in Seq(Senders)
  OBVIOUS
<1> HIDE DEF first
<1> SUFFICES ASSUME T # {} PROVE FALSE
  <2>1. Len(msgs) \in Nat
    OBVIOUS
  <2>2. ~Fits(msgs) => Len(msgs) \in T
    BY <2>1
  <2> QED BY <2>2 DEF first
<1> HIDE DEF Fits
<1>1. PICK k \in T : \A j \in T : k <= j
  <2>1. T \in SUBSET Nat
    OBVIOUS
  <2> HIDE DEF T
  <2> QED BY <2>1, LeastNat
<1>2. PICK s \in Seq(Senders) : Len(s) = k /\ ~Fits(s)
  OBVIOUS
<1>3. CASE k = 0
  <2>1. s = <<>> /\ <<m>> \o s = Append(<<>>, m) /\ <<>> \in Seq(Senders) /\ Append(<<>>, m) = <<m>>
    BY <1>2, <1>3
  <2>2. M!WellFormed(Append(<<>>, m)) = IF m \in Malformed THEN <<>> ELSE <<m>>
    BY <2>1, WellFormedAppend, WellFormedEmpty
  <2>3. first \o <<>> = first
    BY <1>0
  <2> QED BY <1>2, <2>1, <2>2, <2>3, WellFormedEmpty DEF Fits, first
<1>4. CASE k # 0
  <2> DEFINE short == SubSeq(s, 1, k - 1)
             last == s[k]
  <2>1. k \in Nat
    OBVIOUS
  <2>2. short \in Seq(Senders) /\ Len(short) = k - 1 /\ last \in Senders /\ k - 1 \in Nat
    BY <1>2, <1>4, <2>1
  <2>3. s = Append(short, last)
    BY <1>2, <1>4, <2>1
  <2> HIDE DEF short, last
  <2>4. Fits(short)
    <3>1. k - 1 \notin T
      BY <1>1, <2>1, <2>2
    <3> QED BY <3>1, <2>2
  <2> HIDE DEF T
  <2>5. <<m>> \o short \in Seq(Senders) /\ <<m>> \o Append(short, last) = Append(<<m>> \o short, last)
    BY <2>2
  <2> DEFINE w == M!WellFormed(short)
             v == M!WellFormed(<<m>> \o short)
  <2>6. w \in Seq(Senders)
    BY <2>2, WellFormedType
  <2>7. M!WellFormed(s) = IF last \in Malformed THEN w ELSE Append(w, last)
    BY <2>2, <2>3, WellFormedAppend
  <2>8. M!WellFormed(<<m>> \o s) = IF last \in Malformed THEN v ELSE Append(v, last)
    <3> DEFINE head == <<m>> \o short
    <3>1. head \in Seq(Senders)
      BY <2>5
    <3> HIDE DEF head
    <3>2. M!WellFormed(Append(head, last))
            = IF last \in Malformed THEN M!WellFormed(head) ELSE Append(M!WellFormed(head), last)
      BY <3>1, <2>2, WellFormedAppend
    <3> QED BY <3>2, <2>3, <2>5 DEF head
  <2>9. v = first \o w
    BY <2>4 DEF Fits
  <2> HIDE DEF w, v
  <2>10. first \o Append(w, last) = Append(first \o w, last)
    BY <1>0, <2>2, <2>6
  <2> QED BY <1>2, <2>7, <2>8, <2>9, <2>10 DEF Fits
<1> QED BY <1>3, <1>4

-----------------------------------------------------------------------------
\* The messages

\* Senders send what they are; the main thread holds at most one datagram.
QueueTypes ==
  /\ arrived \in Seq(Senders) /\ queue \in Seq(Senders) /\ messages \in Seq(Senders)
  /\ batch \in Seq(Senders) /\ served \in Seq(Senders)
  /\ hand = <<>> \/ \E m \in Senders : hand = <<m>>

\* The messages on their way, in the order in which they arrived.
OnTheirWay ==
  ~flag /\ main # "threw" =>
    M!WellFormed(arrived) = served \o batch \o messages \o M!WellFormed(hand \o queue)

\* Outside its dispatch the worker holds no batch, and it does not sleep over a message.
WorkerIdle ==
  ~flag => /\ worker # "dispatch" => batch = <<>>
           /\ worker \in {"dozing", "asleep"} => messages = <<>>

\* The inductive invariant of the messages.
QueueInv == QueueTypes /\ OnTheirWay /\ WorkerIdle

\* Where the messages are.
queueVars == <<arrived, queue, messages, batch, served, hand>>

\* A step that leaves the messages where they are.
LEMMA QueueKept ==
  ASSUME QueueInv, UNCHANGED queueVars, flag => flag', main = "threw" => main' = "threw",
         ~flag' /\ worker' = "dispatch" => worker = "dispatch",
         ~flag' /\ worker = "dispatch" => worker' = "dispatch" \/ batch = <<>>,
         ~flag' /\ worker' \in {"dozing", "asleep"} => worker \in {"dozing", "asleep"} \/ messages = <<>>
  PROVE  QueueInv'
<1>2. QueueTypes'
  BY DEF QueueInv, QueueTypes, queueVars
<1>3. OnTheirWay'
  BY DEF QueueInv, OnTheirWay, queueVars
<1>4. WorkerIdle'
  BY DEF QueueInv, WorkerIdle, queueVars
<1> QED BY <1>2, <1>3, <1>4 DEF QueueInv

\* The worker takes the whole of what has been enqueued.
LEMMA QueueSwapped ==
  ASSUME QueueInv, worker # "dispatch", M!SwapBatch
  PROVE  QueueInv'
<1>1. /\ batch' = messages /\ messages' = <<>> /\ worker' = "dispatch"
      /\ UNCHANGED <<main, flag, arrived, queue, hand, served>>
  BY DEF M!SwapBatch, M!Left, M!loopVars, M!endVars, M!sendVars
<1>2. QueueTypes' /\ WorkerIdle'
  BY <1>1 DEF QueueInv, QueueTypes, WorkerIdle
<1>3. ~flag => served' \o batch' \o messages' = served \o batch \o messages
  BY <1>1 DEF QueueInv, QueueTypes, WorkerIdle
<1>4. OnTheirWay'
  BY <1>1, <1>3 DEF QueueInv, OnTheirWay
<1> QED BY <1>2, <1>4 DEF QueueInv

\* Every step of the manager's threads keeps the invariant of the messages.
LEMMA QueueInvSteps == ShutdownInv /\ QueueInv /\ M!Next => QueueInv'
<1> SUFFICES ASSUME ShutdownInv, QueueInv, M!Next PROVE QueueInv'
  OBVIOUS
<1> USE DEF M!loopVars, M!workVars, M!endVars, M!sendVars, M!Setup, queueVars
<1>0. /\ flag \in BOOLEAN
      /\ holder <=> worker \in {"test", "dozing"}
      /\ main \in {"dtor", "joinWorker", "joinExecutor", "cleanup", "gone"} => flag
      /\ main \in M!Setup \cup {"execution", "worker", "threw"} => worker = "none"
  BY DEF ShutdownInv, LoopTypes, WorkerHolds, DtorAsks
<1>1. ASSUME NEW s \in Senders, M!send_bridge_uds_message(s) PROVE QueueInv'
  <2>1. CASE UNCHANGED <<queue, arrived>>
    BY <1>0, <1>1, <2>1, QueueKept DEF M!send_bridge_uds_message, M!workVars, M!endVars, queueVars
  <2>2. CASE queue' = Append(queue, s) /\ arrived' = Append(arrived, s)
    <3>1. UNCHANGED <<main, flag, hand, messages, batch, served, worker>>
      BY <1>1 DEF M!send_bridge_uds_message, M!workVars, M!endVars
    <3>2. QueueTypes' /\ WorkerIdle'
      BY <2>2, <3>1 DEF QueueInv, QueueTypes, WorkerIdle
    <3>3. OnTheirWay'
      <4> SUFFICES ASSUME ~flag, main # "threw"
                   PROVE  M!WellFormed(Append(arrived, s))
                            = served \o batch \o messages \o M!WellFormed(hand \o Append(queue, s))
        BY <2>2, <3>1 DEF OnTheirWay
      <4> DEFINE rest == hand \o queue
                 front == served \o batch \o messages
                 left == M!WellFormed(rest)
                 all == M!WellFormed(arrived)
      <4>0. hand \in Seq(Senders) /\ served \o batch \in Seq(Senders)
        <5>1. \A m \in Senders : <<m>> \in Seq(Senders)
          OBVIOUS
        <5>2. <<>> \in Seq(Senders)
          OBVIOUS
        <5>3. hand \in Seq(Senders)
          BY <5>1, <5>2 DEF QueueInv, QueueTypes
        <5> QED BY <5>3 DEF QueueInv, QueueTypes
      <4>1. rest \in Seq(Senders) /\ front \in Seq(Senders) /\ arrived \in Seq(Senders)
        BY <4>0 DEF QueueInv, QueueTypes
      <4>2. hand \o Append(queue, s) = Append(rest, s)
        BY DEF QueueInv, QueueTypes
      <4>3. all = front \o left
        BY DEF QueueInv, OnTheirWay
      <4> HIDE DEF rest, front
      <4>4. left \in Seq(Senders)
        BY <4>1, WellFormedType
      <4>5. M!WellFormed(Append(rest, s)) = IF s \in Malformed THEN left ELSE Append(left, s)
        BY <4>1, WellFormedAppend
      <4>6. M!WellFormed(Append(arrived, s)) = IF s \in Malformed THEN all ELSE Append(all, s)
        BY <4>1, WellFormedAppend
      <4> HIDE DEF left, all
      <4>7. Append(front \o left, s) = front \o Append(left, s)
        <5>1. \A f, g \in Seq(Senders) : \A x \in Senders : Append(f \o g, x) = f \o Append(g, x)
          BY ConcatAppend
        <5> QED BY <4>1, <4>4, <5>1
      <4> QED BY <4>2, <4>3, <4>5, <4>6, <4>7 DEF front
    <3> QED BY <3>2, <3>3 DEF QueueInv
  <2> QED BY <1>1, <2>1, <2>2 DEF M!send_bridge_uds_message
<1>2. ASSUME M!SignalArrives PROVE QueueInv'
  BY <1>0, <1>2, QueueKept DEF M!SignalArrives, QueueInv, WorkerIdle
<1>3. ASSUME M!SetupFails PROVE QueueInv'
  <2>1. UNCHANGED <<flag, arrived, hand, messages, batch, served, worker>> /\ main \in M!Setup
    BY <1>3 DEF M!SetupFails, M!workVars, M!endVars, M!sendVars
  <2>2. CASE main = "socket"
    BY <1>3, <2>1, <2>2, QueueKept DEF M!SetupFails, queueVars
  <2>3. CASE main # "socket"
    <3>1. main' = "threw" /\ queue' = <<>>
      BY <1>3, <2>3 DEF M!SetupFails
    <3> QED BY <2>1, <3>1 DEF QueueInv, QueueTypes, OnTheirWay, WorkerIdle
  <2> QED BY <2>2, <2>3
<1>4. ASSUME M!SpinFails PROVE QueueInv'
  BY <1>0, <1>4, QueueKept DEF M!SpinFails, QueueInv, WorkerIdle
<1>5. ASSUME M!handle_socket PROVE QueueInv'
  BY <1>0, <1>5, QueueKept DEF M!handle_socket, QueueInv, WorkerIdle
<1>6. ASSUME NEW t \in M!Threads, M!RequestStore(t) PROVE QueueInv'
  BY <1>0, <1>6, QueueKept DEF M!RequestStore, M!MayStore, QueueInv, WorkerIdle
<1>7. ASSUME NEW t \in M!Threads, M!RequestNotify(t) PROVE QueueInv'
  BY <1>0, <1>7, QueueKept DEF M!RequestNotify, QueueInv, WorkerIdle
<1>8. ASSUME NEW t \in M!Threads, M!RequestCancel(t) PROVE QueueInv'
  BY <1>0, <1>8, QueueKept DEF M!RequestCancel, QueueInv, WorkerIdle
<1>9. ASSUME NEW t \in M!Threads, M!RequestWakeup(t) PROVE QueueInv'
  BY <1>0, <1>9, QueueKept DEF M!RequestWakeup, M!Wakes, QueueInv, WorkerIdle
<1>10. ASSUME M!SetupStep PROVE QueueInv'
  BY <1>0, <1>10, QueueKept DEF M!SetupStep, M!After, QueueInv, WorkerIdle
<1>11. ASSUME M!start_ros_execution PROVE QueueInv'
  BY <1>0, <1>11, QueueKept DEF M!start_ros_execution, QueueInv, WorkerIdle
<1>12. ASSUME M!start_worker_thread PROVE QueueInv'
  BY <1>0, <1>12, QueueKept DEF M!start_worker_thread, QueueInv, WorkerIdle
<1>13. ASSUME M!run PROVE QueueInv'
  BY <1>0, <1>13, QueueKept DEF M!run, QueueInv, WorkerIdle
<1>14. ASSUME M!spin_once PROVE QueueInv'
  BY <1>0, <1>14, QueueKept DEF M!spin_once, QueueInv, WorkerIdle
<1>15. ASSUME M!EventsEnd PROVE QueueInv'
  BY <1>0, <1>15, QueueKept DEF M!EventsEnd, QueueInv, WorkerIdle
<1>16. ASSUME M!drain_listener PROVE QueueInv'
  <2>1. UNCHANGED <<main, flag, arrived, messages, batch, served, worker>> /\ hand = <<>>
    BY <1>16 DEF M!drain_listener, M!Handling, M!workVars, M!endVars, M!sendVars
  <2>2. CASE queue = <<>>
    BY <1>16, <2>1, <2>2, QueueKept DEF M!drain_listener, queueVars
  <2>3. CASE queue # <<>>
    <3>1. hand' = <<Head(queue)>> /\ queue' = Tail(queue)
      BY <1>16, <2>3 DEF M!drain_listener
    <3>2. Head(queue) \in Senders /\ Tail(queue) \in Seq(Senders) /\ hand' \o queue' = hand \o queue
      BY <2>1, <2>3, <3>1 DEF QueueInv, QueueTypes
    <3>3. QueueTypes' /\ WorkerIdle'
      BY <2>1, <3>1, <3>2 DEF QueueInv, QueueTypes, WorkerIdle
    <3>4. OnTheirWay'
      BY <2>1, <3>2 DEF QueueInv, OnTheirWay
    <3> QED BY <3>3, <3>4 DEF QueueInv
  <2> QED BY <2>2, <2>3
<1>17. ASSUME M!parse_and_enqueue PROVE QueueInv'
  <2>1. UNCHANGED <<main, flag, arrived, queue, batch, served>> /\ hand # <<>> /\ hand' = <<>>
    BY <1>17 DEF M!parse_and_enqueue, M!endVars, M!sendVars
  <2>2. PICK m \in Senders : hand = <<m>>
    BY <2>1 DEF QueueInv, QueueTypes
  <2>3. M!WellFormed(hand \o queue)
          = (IF m \in Malformed THEN <<>> ELSE <<m>>) \o M!WellFormed(queue)
    BY <2>2, WellFormedCons DEF QueueInv, QueueTypes
  <2>4. hand' \o queue' = queue /\ M!WellFormed(queue) \in Seq(Senders)
    BY <2>1, WellFormedType DEF QueueInv, QueueTypes
  <2>5. CASE flag \/ m \in Malformed
    <3>1. UNCHANGED <<messages, worker>>
      BY <1>17, <2>2, <2>5 DEF M!parse_and_enqueue
    <3>2. QueueTypes' /\ WorkerIdle'
      BY <2>1, <3>1 DEF QueueInv, QueueTypes, WorkerIdle
    <3>3. ~flag => M!WellFormed(hand \o queue) = M!WellFormed(hand' \o queue')
      BY <2>3, <2>4, <2>5
    <3>4. OnTheirWay'
      BY <2>1, <3>1, <3>3 DEF QueueInv, OnTheirWay
    <3> QED BY <3>2, <3>4 DEF QueueInv
  <2>6. CASE ~flag /\ m \notin Malformed
    <3>1. ~holder /\ messages' = messages \o <<m>> /\ worker' = M!Awake(worker)
      BY <1>17, <2>2, <2>6 DEF M!parse_and_enqueue
    <3>2. QueueTypes'
      BY <2>1, <2>2, <3>1 DEF QueueInv, QueueTypes
    <3>3. WorkerIdle'
      BY <1>0, <2>1, <3>1 DEF QueueInv, WorkerIdle, M!Awake
    <3>4. OnTheirWay'
      <4> DEFINE front == served \o batch
                 rest == M!WellFormed(queue)
      <4>1. front \in Seq(Senders) /\ messages \in Seq(Senders) 
            /\ rest \in Seq(Senders) /\ <<m>> \in Seq(Senders)
        BY <2>4 DEF QueueInv, QueueTypes
      <4>2. main # "threw" => M!WellFormed(arrived) = front \o messages \o (<<m>> \o rest)
        BY <2>3, <2>6 DEF QueueInv, OnTheirWay
      <4> HIDE DEF front, rest
      <4>3. front \o messages \o (<<m>> \o rest) = front \o (messages \o <<m>>) \o rest
        BY <4>1
      <4> QED BY <2>1, <2>4, <3>1, <4>2, <4>3 DEF OnTheirWay, front, rest
    <3> QED BY <3>2, <3>3, <3>4 DEF QueueInv
  <2> QED BY <1>0, <2>5, <2>6
<1>18. ASSUME M!on_signal PROVE QueueInv'
  BY <1>0, <1>18, QueueKept DEF M!on_signal, M!Handling, QueueInv, WorkerIdle
<1>19. ASSUME M!ReadWakeup PROVE QueueInv'
  BY <1>0, <1>19, QueueKept DEF M!ReadWakeup, M!Handling, QueueInv, WorkerIdle
<1>20. ASSUME M!Destroy PROVE QueueInv'
  BY <1>0, <1>20, QueueKept DEF M!Destroy, QueueInv, WorkerIdle
<1>21. ASSUME M!Join PROVE QueueInv'
  BY <1>0, <1>21, QueueKept DEF M!Join, QueueInv, WorkerIdle
<1>22. ASSUME M!cleanup_resources PROVE QueueInv'
  BY <1>0, <1>22 DEF M!cleanup_resources, M!workVars, M!endVars, M!sendVars, QueueInv, QueueTypes,
                     OnTheirWay, WorkerIdle
<1>23. ASSUME M!WorkerEnds PROVE QueueInv'
  BY <1>0, <1>23, QueueKept DEF M!WorkerEnds, QueueInv, WorkerIdle
<1>24. ASSUME M!WorkerLocks PROVE QueueInv'
  BY <1>0, <1>24, QueueKept DEF M!WorkerLocks, QueueInv, WorkerIdle
<1>25. ASSUME M!WorkerWaits PROVE QueueInv'
  BY <1>0, <1>25, QueueKept DEF M!WorkerWaits, QueueInv, WorkerIdle
<1>26. ASSUME M!WorkerSleeps PROVE QueueInv'
  BY <1>0, <1>26, QueueKept DEF M!WorkerSleeps, QueueInv, WorkerIdle
<1>27. ASSUME M!WorkerTakes PROVE QueueInv'
  BY <1>27, QueueSwapped DEF M!WorkerTakes
<1>28. ASSUME M!WorkerTimeout PROVE QueueInv'
  BY <1>28, QueueSwapped DEF M!WorkerTimeout
<1>29. ASSUME M!dispatch_bridge_message PROVE QueueInv'
  <2>1. UNCHANGED <<main, flag, arrived, queue, hand, messages>> /\ worker = "dispatch"
    BY <1>29 DEF M!dispatch_bridge_message, M!loopVars, M!endVars, M!sendVars
  <2>2. CASE batch = <<>> \/ flag
    <3>1. UNCHANGED <<batch, served>> /\ worker' = "sweep"
      BY <1>29, <2>2 DEF M!dispatch_bridge_message
    <3> QED BY <2>1, <2>2, <3>1, QueueKept DEF queueVars
  <2>3. CASE batch # <<>> /\ ~flag
    <3>1. batch' = Tail(batch) /\ served' = Append(served, Head(batch)) /\ worker' = worker
      BY <1>29, <2>3 DEF M!dispatch_bridge_message
    <3>2. batch' \in Seq(Senders) /\ served' \in Seq(Senders) /\ served' \o batch' = served \o batch
      BY <2>3, <3>1 DEF QueueInv, QueueTypes
    <3>3. QueueTypes' /\ WorkerIdle'
      BY <2>1, <3>1, <3>2 DEF QueueInv, QueueTypes, WorkerIdle
    <3>4. OnTheirWay'
      BY <2>1, <3>2 DEF QueueInv, OnTheirWay
    <3> QED BY <3>3, <3>4 DEF QueueInv
  <2> QED BY <1>0, <2>2, <2>3
<1>30. ASSUME NEW u \in BOOLEAN, M!WorkerSweeps(u) PROVE QueueInv'
  BY <1>0, <1>30, QueueKept DEF M!WorkerSweeps, QueueInv, WorkerIdle
<1>31. ASSUME M!ExecutorSpins PROVE QueueInv'
  BY <1>0, <1>31, QueueKept DEF M!ExecutorSpins, QueueInv, WorkerIdle
<1>32. ASSUME M!ExecutorReturns PROVE QueueInv'
  BY <1>0, <1>32, QueueKept DEF M!ExecutorReturns, QueueInv, WorkerIdle
<1>33. ASSUME M!ExecutorCrashes PROVE QueueInv'
  BY <1>0, <1>33, QueueKept DEF M!ExecutorCrashes, QueueInv, WorkerIdle
<1>34. ASSUME M!CrashEnds PROVE QueueInv'
  BY <1>0, <1>34, QueueKept DEF M!CrashEnds, QueueInv, WorkerIdle
<1> QED BY <1>1, <1>2, <1>3, <1>4, <1>5, <1>6, <1>7, <1>8, <1>9, <1>10, <1>11, <1>12, <1>13,
       <1>14, <1>15, <1>16, <1>17, <1>18, <1>19, <1>20, <1>21, <1>22, <1>23, <1>24, <1>25,
       <1>26, <1>27, <1>28, <1>29, <1>30, <1>31, <1>32, <1>33, <1>34 DEF M!Next,
       M!request_shutdown, M!MainSteps, M!WorkerSteps, M!ExecutorSteps

\* It holds when the manager starts ...
LEMMA QueueInvStarts == M!Init => QueueInv
<1> SUFFICES ASSUME M!Init PROVE QueueInv
  OBVIOUS
<1>1. QueueTypes /\ WorkerIdle
  BY DEF M!Init, QueueTypes, WorkerIdle
<1>2. <<>> \o <<>> = <<>> /\ <<>> \o <<>> \o <<>> \o <<>> = <<>>
  OBVIOUS
<1>3. OnTheirWay
  BY <1>2, WellFormedEmpty DEF M!Init, OnTheirWay
<1> QED BY <1>1, <1>3 DEF QueueInv

\* ... and as long as the manager rests.
LEMMA QueueInvStutters == QueueInv /\ UNCHANGED loopVars => QueueInv'
BY DEF loopVars, QueueInv, QueueTypes, OnTheirWay, WorkerIdle

\* The invariant says what the run checks.
LEMMA QueueInvSays == QueueInv => EnqueuedInOrder
BY DEF QueueInv, OnTheirWay, WorkerIdle, EnqueuedInOrder, M!EnqueuedInOrder

\* Until the shutdown every well-formed bridge message that reached the socket is
\* dispatched once and in order, however drain_listener, parse_and_enqueue and
\* worker_loop interleave, and the worker does not sleep over one.
THEOREM MessagesInOrder == BridgeSpec => []EnqueuedInOrder
<1>1. BridgeInit => ShutdownInv /\ QueueInv
  BY ShutdownInvStarts, QueueInvStarts DEF BridgeInit
<1>2. ShutdownInv /\ QueueInv /\ [BridgeNext]_<<part, vars, loopVars>> => ShutdownInv' /\ QueueInv'
  BY ShutdownInvSteps, ShutdownInvStutters, QueueInvSteps, QueueInvStutters DEF BridgeNext
<1> QED
  BY <1>1, <1>2, QueueInvSays, PTL DEF BridgeSpec

====
