---------------------------- MODULE MemoryProofs ----------------------------
(***************************************************************************)
(* Proofs about shared memory in the processes, for every value of the     *)
(* constants: a reader has mapped what its callbacks read (ShmMapping),    *)
(* the pointers of a polling subscription keep their messages              *)
(* (TakeSubscription), and a borrowed message has one owner                *)
(* (LoanedMessage).  The parts of MCMemory share no state, so each         *)
(* invariant is about the variables of one part and the others' steps      *)
(* leave it alone.                                                         *)
(***************************************************************************)
EXTENDS MCMemory, Sequences, FiniteSetTheorems, WellFoundedInduction, TLAPS

\* All variables.
memoryVars == <<part, vars, mapVars, heapVars, loanVars>>

-----------------------------------------------------------------------------
(* ShmMapping                                                              *)

\* The types of what TypeOK of ShmMapping leaves out.
MapTypes ==
  /\ M!TypeOK
  /\ need \in [Topics -> BOOLEAN]
  /\ step \in [Threads -> {"idle", "locked", "mapping", "callback"}]
  /\ topic \in [Threads -> Topics \cup {CHOOSE t \in Topics : TRUE}]
  /\ \A k \in Threads : step[k] # "idle" => topic[k] \in Topics
  /\ todo \in [Threads -> SUBSET Publishers]
  /\ held \in [Threads -> SUBSET nodes]
  /\ exits \in BOOLEAN

\* mmap_mtx is held from the ioctl to the last mapping, by one thread.
MapLocks ==
  /\ \A k \in Threads : step[k] \in {"locked", "mapping"} => mutex = {k}
  /\ \A k \in Threads : todo[k] # {} => step[k] = "mapping"
  /\ \A k \in Threads : held[k] # {} => step[k] \in {"mapping", "callback"}

\* An entry is handed out once.
HandedOnce ==
  /\ \A k \in Threads : held[k] \subseteq received
  /\ \A j, k \in Threads : j # k => held[j] \cap held[k] = {}

\* A pool on whose list the reader is has been mapped, or the thread that was told
\* of it is about to.
ListedIsMapped == \A p \in listed : p \in mapped \/ \E k \in Threads : p \in todo[k]

\* A subscriber that need not ask has nothing to ask for.
NothingUnlisted ==
  \A t \in Topics, p \in Publishers :
    ~need[t] /\ <<p, t>> \in infos /\ M!Alive(p) => p \in listed

\* What a thread has been handed comes from listed pools, and what a callback has
\* from mapped ones.
HeldIsListed ==
  /\ Self \in mapped
  /\ \A k \in Threads : \A x \in held[k] : x[1] = Self \/ x[1] \in listed
  /\ M!ReadsMapped

\* Pools are named while their process is alive; a topic has few enough of them.
NamedAlive ==
  /\ \A k \in Threads : \A p \in todo[k] : M!Alive(p) \/ p \in late
  /\ M!OnlyLateExitsFatal

\* A topic has at most MAX_PUBLISHER_NUM publishers.
FewPublishers ==
  /\ IsFiniteSet(infos)
  /\ \A t \in Topics : Cardinality({x \in infos : x[2] = t}) <= MaxPublishers

\* The invariant of ShmMapping.
MapInv ==
  /\ MapTypes /\ MapLocks /\ HandedOnce /\ ListedIsMapped /\ NothingUnlisted /\ HeldIsListed
  /\ NamedAlive /\ FewPublishers

\* ShmMapping counts as FiniteSets does.
LEMMA CardinalityOfM == \A S : M!Cardinality(S) = Cardinality(S)
BY DEF M!Cardinality, Cardinality

\* Sets of at most one thread.
LEMMA AtMostOne ==
  /\ M!Cardinality({}) <= 1
  /\ \A k : M!Cardinality({k}) <= 1
<1>1. M!Cardinality({}) = 0
  BY CardinalityOfM, FS_EmptySet, Zenon
<1>2. \A k : M!Cardinality({k}) = 1
  BY CardinalityOfM, FS_Singleton, Zenon
<1> QED BY <1>1, <1>2

\* Taking publishers away keeps them few.
LEMMA FewerPublishers ==
  ASSUME FewPublishers, infos' \subseteq infos
  PROVE  FewPublishers'
<1>1. IsFiniteSet(infos')
  BY FS_Subset DEF FewPublishers
<1>2. ASSUME NEW t \in Topics
      PROVE  Cardinality({x \in infos' : x[2] = t}) <= MaxPublishers
  <2> DEFINE before == {x \in infos : x[2] = t}
             after == {x \in infos' : x[2] = t}
  <2>1. IsFiniteSet(before) /\ after \subseteq before
    BY FS_Subset DEF FewPublishers
  <2>2. Cardinality(after) <= Cardinality(before) /\ Cardinality(after) \in Nat /\ Cardinality(before) \in Nat
    BY <2>1, FS_Subset, FS_CardinalityType
  <2> QED BY <2>2, MappingAssumption DEF FewPublishers
<1> QED BY <1>1, <1>2 DEF FewPublishers

\* set_publisher_shm_info never names more pools than the reader's buffer holds.
LEMMA NamesFit ==
  ASSUME MapTypes, FewPublishers, NEW t \in Topics
  PROVE  ~(M!Cardinality(M!ToMap(t)) > MaxPublishers)
<1> DEFINE S == {x \in infos : x[2] = t}
           N == M!ToMap(t)
           f == [p \in N |-> <<p, t>>]
<1>1. IsFiniteSet(S) /\ Cardinality(S) \in Nat /\ Cardinality(S) <= MaxPublishers
  BY FS_Subset, FS_CardinalityType DEF FewPublishers
<1>2. f \in Injection(N, S)
  BY DEF M!ToMap, Injection, IsInjective
<1>3. IsFiniteSet(N) /\ Cardinality(N) <= Cardinality(S)
  <2> HIDE DEF S, N, f
  <2> QED BY <1>1, <1>2, FS_Injection
<1>4. Cardinality(N) \in Nat
  BY <1>3, FS_CardinalityType
<1>5. M!Cardinality(N) = Cardinality(N)
  BY CardinalityOfM
<1> HIDE DEF S, N
<1> QED BY <1>1, <1>3, <1>4, <1>5, MappingAssumption DEF N

\* add_publisher makes the subscribers ask again, so nobody is left unlisted.
LEMMA AddPublisherMaps ==
  ASSUME MapInv, NEW p \in M!All, NEW t \in Topics, M!AddPublisher(p, t)
  PROVE  MapInv'
<1> USE DEF M!AddPublisher, M!readerVars
<1>1. MapTypes'
  BY DEF MapInv, M!Held, MapTypes, M!TypeOK, M!Held, M!All
<1>2. MapLocks'
  BY DEF MapInv, MapTypes, M!TypeOK, M!Held, M!All, MapLocks, HandedOnce, MapLocks
<1>3. HandedOnce'
  BY DEF MapInv, MapTypes, M!TypeOK, M!Held, M!All, MapLocks, HandedOnce, HandedOnce
<1>4. ListedIsMapped'
  BY DEF MapInv, MapTypes, M!TypeOK, M!Held, M!All, MapLocks, HandedOnce, ListedIsMapped
<1>5. NothingUnlisted'
  BY DEF MapInv, MapTypes, M!TypeOK, M!Held, M!All, MapLocks, HandedOnce, NothingUnlisted, M!Alive
<1>6. HeldIsListed'
  BY DEF MapInv, MapTypes, M!TypeOK, M!Held, M!All, MapLocks, HandedOnce, HeldIsListed, M!ReadsMapped
<1>7. NamedAlive'
  BY DEF MapInv, MapTypes, M!TypeOK, M!Held, M!All, MapLocks, HandedOnce, NamedAlive, M!Alive, M!OnlyLateExitsFatal
<1>8. FewPublishers'
  <2>1. IsFiniteSet(infos')
    BY FS_AddElement DEF MapInv, FewPublishers
  <2>2. ASSUME NEW u \in Topics
        PROVE  Cardinality({x \in infos' : x[2] = u}) <= MaxPublishers
    <3> DEFINE S == {x \in infos : x[2] = u}
    <3>1. IsFiniteSet(S) /\ Cardinality(S) \in Nat /\ Cardinality(S) <= MaxPublishers
      BY FS_Subset, FS_CardinalityType DEF MapInv, FewPublishers
    <3>2. CASE u # t
      <4>1. {x \in infos' : x[2] = u} = S
        BY <3>2
      <4> QED BY <3>1, <4>1
    <3>3. CASE u = t
      <4>1. {x \in infos' : x[2] = u} = S \cup {<<p, t>>}
        BY <3>3
      <4>2. Cardinality(S) < MaxPublishers
        BY <3>3, CardinalityOfM
      <4> HIDE DEF S
      <4>3. Cardinality(S \cup {<<p, t>>}) \in {Cardinality(S), Cardinality(S) + 1}
        BY <3>1, FS_AddElement
      <4> QED BY <3>1, <4>1, <4>2, <4>3, MappingAssumption
    <3> QED BY <3>2, <3>3
  <2> QED BY <2>1, <2>2 DEF FewPublishers
<1> QED BY <1>1, <1>2, <1>3, <1>4, <1>5, <1>6, <1>7, <1>8 DEF MapInv

\* A publish names no pool.
LEMMA PublishMaps ==
  ASSUME MapInv, NEW p \in M!All, NEW t \in Topics, M!Publish(p, t)
  PROVE  MapInv'
<1> USE DEF M!Publish, M!readerVars
<1>1. MapTypes'
  BY DEF MapInv, M!Held, MapTypes, M!TypeOK, M!Held, M!All
<1>2. MapLocks'
  BY DEF MapInv, MapTypes, M!TypeOK, M!Held, M!All, MapLocks, HandedOnce, MapLocks
<1>3. HandedOnce'
  BY DEF MapInv, MapTypes, M!TypeOK, M!Held, M!All, MapLocks, HandedOnce, HandedOnce
<1>4. ListedIsMapped'
  BY DEF MapInv, MapTypes, M!TypeOK, M!Held, M!All, MapLocks, HandedOnce, ListedIsMapped
<1>5. NothingUnlisted'
  BY DEF MapInv, MapTypes, M!TypeOK, M!Held, M!All, MapLocks, HandedOnce, NothingUnlisted, M!Alive
<1>6. HeldIsListed'
  BY DEF MapInv, MapTypes, M!TypeOK, M!Held, M!All, MapLocks, HandedOnce, HeldIsListed, M!ReadsMapped
<1>7. NamedAlive'
  BY DEF MapInv, MapTypes, M!TypeOK, M!Held, M!All, MapLocks, HandedOnce, NamedAlive, M!Alive, M!OnlyLateExitsFatal
<1>8. FewPublishers'
  BY DEF MapInv, FewPublishers
<1> QED BY <1>1, <1>2, <1>3, <1>4, <1>5, <1>6, <1>7, <1>8 DEF MapInv

\* Another reader changes nothing of this one.
LEMMA OtherReceivesMaps ==
  ASSUME MapInv, NEW x \in Publishers \X Topics, M!OtherReceives(x)
  PROVE  MapInv'
<1> USE DEF M!OtherReceives, M!readerVars
<1>1. MapTypes'
  BY DEF MapInv, M!Held, MapTypes, M!TypeOK, M!Held, M!All
<1>2. MapLocks'
  BY DEF MapInv, MapTypes, M!TypeOK, M!Held, M!All, MapLocks, HandedOnce, MapLocks
<1>3. HandedOnce'
  BY DEF MapInv, MapTypes, M!TypeOK, M!Held, M!All, MapLocks, HandedOnce, HandedOnce
<1>4. ListedIsMapped'
  BY DEF MapInv, MapTypes, M!TypeOK, M!Held, M!All, MapLocks, HandedOnce, ListedIsMapped
<1>5. NothingUnlisted'
  BY DEF MapInv, MapTypes, M!TypeOK, M!Held, M!All, MapLocks, HandedOnce, NothingUnlisted, M!Alive
<1>6. HeldIsListed'
  BY DEF MapInv, MapTypes, M!TypeOK, M!Held, M!All, MapLocks, HandedOnce, HeldIsListed, M!ReadsMapped
<1>7. NamedAlive'
  BY DEF MapInv, MapTypes, M!TypeOK, M!Held, M!All, MapLocks, HandedOnce, NamedAlive, M!Alive, M!OnlyLateExitsFatal
<1>8. FewPublishers'
  BY DEF MapInv, FewPublishers
<1> QED BY <1>1, <1>2, <1>3, <1>4, <1>5, <1>6, <1>7, <1>8 DEF MapInv

\* What another reader lets go is dropped only if this one does not hold it.
LEMMA OtherReleasesMaps ==
  ASSUME MapInv, NEW x \in Publishers \X Topics, M!OtherReleases(x)
  PROVE  MapInv'
<1> USE DEF M!OtherReleases, M!readerVars
<1>1. MapTypes'
  <2>1. \A j \in Threads : held'[j] \subseteq nodes'
    BY DEF MapInv, MapTypes, M!TypeOK, M!Held, M!Dropped, HandedOnce
  <2>2. M!Held' \subseteq nodes'
    BY <2>1 DEF M!Held
  <2>3. M!TypeOK'
    BY <2>2 DEF MapInv, MapTypes, M!TypeOK, M!All, M!Dropped
  <2> QED BY <2>1, <2>3 DEF MapInv, MapTypes, MapLocks
<1>2. MapLocks'
  BY DEF MapInv, MapTypes, M!TypeOK, M!Held, M!All, MapLocks, HandedOnce, MapLocks
<1>3. HandedOnce'
  BY DEF MapInv, MapTypes, M!TypeOK, M!Held, M!All, MapLocks, HandedOnce, HandedOnce
<1>4. ListedIsMapped'
  BY DEF MapInv, MapTypes, M!TypeOK, M!Held, M!All, MapLocks, HandedOnce, ListedIsMapped
<1>5. NothingUnlisted'
  BY DEF MapInv, MapTypes, M!TypeOK, M!Held, M!All, MapLocks, HandedOnce, NothingUnlisted, M!Alive
<1>6. HeldIsListed'
  BY DEF MapInv, MapTypes, M!TypeOK, M!Held, M!All, MapLocks, HandedOnce, HeldIsListed, M!ReadsMapped
<1>7. NamedAlive'
  BY DEF MapInv, MapTypes, M!TypeOK, M!Held, M!All, MapLocks, HandedOnce, NamedAlive, M!Alive, M!OnlyLateExitsFatal
<1>8. FewPublishers'
  BY FewerPublishers DEF MapInv
<1> QED BY <1>1, <1>2, <1>3, <1>4, <1>5, <1>6, <1>7, <1>8 DEF MapInv

\* A process that exits is alive to the kernel until its exit is handled.
LEMMA ExitMaps ==
  ASSUME MapInv, NEW p \in M!All, M!Exit(p)
  PROVE  MapInv'
<1> USE DEF M!Exit, M!readerVars
<1>1. MapTypes'
  BY DEF MapInv, M!Held, MapTypes, M!TypeOK, M!Held, M!All
<1>2. MapLocks'
  BY DEF MapInv, MapTypes, M!TypeOK, M!Held, M!All, MapLocks, HandedOnce, MapLocks
<1>3. HandedOnce'
  BY DEF MapInv, MapTypes, M!TypeOK, M!Held, M!All, MapLocks, HandedOnce, HandedOnce
<1>4. ListedIsMapped'
  BY DEF MapInv, MapTypes, M!TypeOK, M!Held, M!All, MapLocks, HandedOnce, ListedIsMapped
<1>5. NothingUnlisted'
  BY DEF MapInv, MapTypes, M!TypeOK, M!Held, M!All, MapLocks, HandedOnce, NothingUnlisted, M!Alive
<1>6. HeldIsListed'
  BY DEF MapInv, MapTypes, M!TypeOK, M!Held, M!All, MapLocks, HandedOnce, HeldIsListed, M!ReadsMapped
<1>7. NamedAlive'
  BY DEF MapInv, MapTypes, M!TypeOK, M!Held, M!All, MapLocks, HandedOnce, NamedAlive, M!Alive, M!OnlyLateExitsFatal
<1>8. FewPublishers'
  BY DEF MapInv, FewPublishers
<1> QED BY <1>1, <1>2, <1>3, <1>4, <1>5, <1>6, <1>7, <1>8 DEF MapInv

\* The cleanup keeps what is held, and marks the pools that were about to be mapped.
LEMMA ExitCleanupMaps ==
  ASSUME MapInv, NEW p \in M!All, M!ExitCleanup(p)
  PROVE  MapInv'
<1> USE DEF M!ExitCleanup, M!readerVars
<1>1. MapTypes'
  BY DEF MapInv, M!Held, MapTypes, M!TypeOK, M!Held, M!All
<1>2. MapLocks'
  BY DEF MapInv, MapTypes, M!TypeOK, M!Held, M!All, MapLocks, HandedOnce, MapLocks
<1>3. HandedOnce'
  BY DEF MapInv, MapTypes, M!TypeOK, M!Held, M!All, MapLocks, HandedOnce, HandedOnce
<1>4. ListedIsMapped'
  BY DEF MapInv, MapTypes, M!TypeOK, M!Held, M!All, MapLocks, HandedOnce, ListedIsMapped
<1>5. NothingUnlisted'
  BY DEF MapInv, MapTypes, M!TypeOK, M!Held, M!All, MapLocks, HandedOnce, NothingUnlisted, M!Alive
<1>6. HeldIsListed'
  BY DEF MapInv, MapTypes, M!TypeOK, M!Held, M!All, MapLocks, HandedOnce, HeldIsListed, M!ReadsMapped
<1>7. NamedAlive'
  BY DEF MapInv, MapTypes, M!TypeOK, M!Held, M!All, MapLocks, HandedOnce, NamedAlive, M!Alive, M!OnlyLateExitsFatal
<1>8. FewPublishers'
  <2>1. infos' \subseteq infos
    BY DEF MapInv, MapTypes, M!TypeOK
  <2> QED BY <2>1, FewerPublishers DEF MapInv
<1> QED BY <1>1, <1>2, <1>3, <1>4, <1>5, <1>6, <1>7, <1>8 DEF MapInv

\* Only a process that was cleaned up is unlinked.
LEMMA ShmUnlinkMaps ==
  ASSUME MapInv, NEW p \in M!All, M!ShmUnlink(p)
  PROVE  MapInv'
<1> USE DEF M!ShmUnlink, M!readerVars
<1>1. MapTypes'
  BY DEF MapInv, M!Held, MapTypes, M!TypeOK, M!Held, M!All
<1>2. MapLocks'
  BY DEF MapInv, MapTypes, M!TypeOK, M!Held, M!All, MapLocks, HandedOnce, MapLocks
<1>3. HandedOnce'
  BY DEF MapInv, MapTypes, M!TypeOK, M!Held, M!All, MapLocks, HandedOnce, HandedOnce
<1>4. ListedIsMapped'
  BY DEF MapInv, MapTypes, M!TypeOK, M!Held, M!All, MapLocks, HandedOnce, ListedIsMapped
<1>5. NothingUnlisted'
  BY DEF MapInv, MapTypes, M!TypeOK, M!Held, M!All, MapLocks, HandedOnce, NothingUnlisted, M!Alive
<1>6. HeldIsListed'
  BY DEF MapInv, MapTypes, M!TypeOK, M!Held, M!All, MapLocks, HandedOnce, HeldIsListed, M!ReadsMapped
<1>7. NamedAlive'
  BY DEF MapInv, MapTypes, M!TypeOK, M!Held, M!All, MapLocks, HandedOnce, NamedAlive, M!Alive, M!OnlyLateExitsFatal
<1>8. FewPublishers'
  BY DEF MapInv, FewPublishers
<1> QED BY <1>1, <1>2, <1>3, <1>4, <1>5, <1>6, <1>7, <1>8 DEF MapInv

\* mmap_mtx is taken when nobody has it.
LEMMA LockMaps ==
  ASSUME MapInv, NEW k \in Threads, NEW t \in Topics, M!Lock(k, t)
  PROVE  MapInv'
<1> USE DEF M!Lock, M!readerVars
<1>1. MapTypes'
  <2>1. M!Held' = M!Held /\ M!Cardinality(mutex') <= 1
    BY AtMostOne DEF M!Held
  <2>2. M!TypeOK'
    BY <2>1 DEF MapInv, MapTypes, M!TypeOK, M!All
  <2> QED BY <2>2 DEF MapInv, MapTypes
<1>2. MapLocks'
  BY DEF MapInv, MapTypes, M!TypeOK, M!Held, M!All, MapLocks, HandedOnce, MapLocks
<1>3. HandedOnce'
  BY DEF MapInv, MapTypes, M!TypeOK, M!Held, M!All, MapLocks, HandedOnce, HandedOnce
<1>4. ListedIsMapped'
  BY DEF MapInv, MapTypes, M!TypeOK, M!Held, M!All, MapLocks, HandedOnce, ListedIsMapped
<1>5. NothingUnlisted'
  BY DEF MapInv, MapTypes, M!TypeOK, M!Held, M!All, MapLocks, HandedOnce, NothingUnlisted, M!Alive
<1>6. HeldIsListed'
  BY DEF MapInv, MapTypes, M!TypeOK, M!Held, M!All, MapLocks, HandedOnce, HeldIsListed, M!ReadsMapped
<1>7. NamedAlive'
  BY DEF MapInv, MapTypes, M!TypeOK, M!Held, M!All, MapLocks, HandedOnce, NamedAlive, M!Alive, M!OnlyLateExitsFatal
<1>8. FewPublishers'
  BY DEF MapInv, FewPublishers
<1> QED BY <1>1, <1>2, <1>3, <1>4, <1>5, <1>6, <1>7, <1>8 DEF MapInv

\* The ioctl hands out entries and names, of their pools, those the reader was not told
\* of before.
LEMMA ReceiveMaps ==
  ASSUME MapInv, NEW k \in Threads, M!Receive(k)
  PROVE  MapInv'
<1> DEFINE names == M!ToMap(topic[k])
           es == {x \in nodes \ received : x[2] = topic[k] /\ M!Alive(x[1])}
<1>a. step[k] = "locked" /\ mutex = {k} /\ topic[k] \in Topics /\ ~exits
  BY DEF MapInv, MapTypes, MapLocks, M!Receive
<1>b. ~(M!Cardinality(names) > MaxPublishers)
  BY <1>a, NamesFit DEF MapInv
<1>c. /\ held' = [held EXCEPT ![k] = es] /\ received' = received \cup es
      /\ todo' = [todo EXCEPT ![k] = names] /\ listed' = listed \cup names
      /\ need' = [need EXCEPT ![topic[k]] = FALSE] /\ step' = [step EXCEPT ![k] = "mapping"]
      /\ UNCHANGED <<mapped, mutex, topic, exits, proc, infos, sent, nodes, others, late>>
  BY <1>b DEF M!Receive, M!is_entry_deliverable
<1>d. /\ es \subseteq nodes \ received
      /\ names \subseteq Publishers /\ \A p \in names : M!Alive(p)
      /\ need[topic[k]] => \A p \in Publishers :
           <<p, topic[k]>> \in infos /\ M!Alive(p) => p \in listed \cup names
  BY DEF M!ToMap
<1>e. \A x \in es : x[1] = Self \/ x[1] \in listed \cup names
  <2> SUFFICES ASSUME NEW x \in es, x[1] # Self PROVE x[1] \in listed \cup names
    OBVIOUS
  <2>1. x \in infos /\ x = <<x[1], topic[k]>> /\ x[1] \in Publishers /\ M!Alive(x[1])
    BY DEF MapInv, MapTypes, M!TypeOK, M!All
  <2>2. CASE need[topic[k]]
    BY <2>1, <2>2, <1>d
  <2>3. CASE ~need[topic[k]]
    BY <2>1, <2>3, <1>a DEF MapInv, NothingUnlisted
  <2> QED BY <2>2, <2>3
<1> HIDE DEF names, es
<1>1. MapTypes'
  <2>1. \A j \in Threads : held'[j] \subseteq nodes'
    BY <1>c, <1>d DEF MapInv, MapTypes, M!TypeOK, M!Held
  <2>2. M!Held' \subseteq nodes'
    BY <2>1 DEF M!Held
  <2>3. M!TypeOK'
    BY <1>c, <1>d, <2>2 DEF MapInv, MapTypes, M!TypeOK, M!All
  <2>4. /\ need' \in [Topics -> BOOLEAN]
        /\ step' \in [Threads -> {"idle", "locked", "mapping", "callback"}]
        /\ \A j \in Threads : step'[j] # "idle" => topic[j] \in Topics
        /\ todo' \in [Threads -> SUBSET Publishers]
        /\ held' \in [Threads -> SUBSET nodes]
    BY <1>a, <1>c, <1>d DEF MapInv, MapTypes, M!TypeOK
  <2> QED BY <1>c, <2>3, <2>4 DEF MapInv, MapTypes
<1>2. MapLocks'
  BY <1>a, <1>c DEF MapInv, MapTypes, MapLocks
<1>3. HandedOnce'
  BY <1>c, <1>d DEF MapInv, MapTypes, HandedOnce
<1>4. ListedIsMapped'
  <2>1. todo[k] = {}
    BY <1>a DEF MapInv, MapLocks
  <2> QED BY <1>c, <2>1 DEF MapInv, MapTypes, ListedIsMapped
<1>5. NothingUnlisted'
  BY <1>c, <1>d DEF MapInv, MapTypes, NothingUnlisted, M!Alive
<1>6. HeldIsListed'
  BY <1>a, <1>c, <1>e DEF MapInv, MapTypes, HeldIsListed, M!ReadsMapped
<1>7. NamedAlive'
  BY <1>c, <1>d DEF MapInv, MapTypes, NamedAlive, M!Alive, M!OnlyLateExitsFatal
<1>8. FewPublishers'
  BY <1>c DEF MapInv, FewPublishers
<1> QED BY <1>1, <1>2, <1>3, <1>4, <1>5, <1>6, <1>7, <1>8 DEF MapInv

\* Mapping a pool: it fails only for one whose process was cleaned up meanwhile.
LEMMA MapAreaMaps ==
  ASSUME MapInv, NEW k \in Threads, NEW p \in Publishers, M!MapArea(k, p)
  PROVE  MapInv'
<1> USE DEF M!MapArea, M!readerVars
<1>1. MapTypes'
  <2>1. M!TypeOK'
    BY DEF MapInv, MapTypes, M!TypeOK, M!Held, M!All
  <2>2. todo' \in [Threads -> SUBSET Publishers] /\ exits' \in BOOLEAN
    BY DEF MapInv, MapTypes
  <2> QED BY <2>1, <2>2 DEF MapInv, MapTypes
<1>2. MapLocks'
  BY DEF MapInv, MapTypes, M!TypeOK, M!Held, M!All, MapLocks, HandedOnce, MapLocks
<1>3. HandedOnce'
  BY DEF MapInv, MapTypes, M!TypeOK, M!Held, M!All, MapLocks, HandedOnce, HandedOnce
<1>4. ListedIsMapped'
  BY DEF MapInv, MapTypes, M!TypeOK, M!Held, M!All, MapLocks, HandedOnce, ListedIsMapped
<1>5. NothingUnlisted'
  BY DEF MapInv, MapTypes, M!TypeOK, M!Held, M!All, MapLocks, HandedOnce, NothingUnlisted, M!Alive
<1>6. HeldIsListed'
  BY DEF MapInv, MapTypes, M!TypeOK, M!Held, M!All, MapLocks, HandedOnce, HeldIsListed, M!ReadsMapped
<1>7. NamedAlive'
  BY DEF MapInv, MapTypes, M!TypeOK, M!Held, M!All, MapLocks, HandedOnce, NamedAlive, M!Alive, M!OnlyLateExitsFatal
<1>8. FewPublishers'
  BY DEF MapInv, FewPublishers
<1> QED BY <1>1, <1>2, <1>3, <1>4, <1>5, <1>6, <1>7, <1>8 DEF MapInv

\* When mmap_mtx is let go all listed pools are mapped.
LEMMA UnlockMaps ==
  ASSUME MapInv, NEW k \in Threads, M!Unlock(k)
  PROVE  MapInv'
<1> USE DEF M!Unlock, M!readerVars
<1>1. MapTypes'
  <2>1. M!TypeOK'
    BY AtMostOne DEF MapInv, MapTypes, M!TypeOK, M!Held, M!All
  <2> QED BY <2>1 DEF MapInv, MapTypes, MapLocks, M!TypeOK
<1>2. MapLocks'
  BY DEF MapInv, MapTypes, M!TypeOK, M!Held, M!All, MapLocks, HandedOnce, MapLocks
<1>3. HandedOnce'
  BY DEF MapInv, MapTypes, M!TypeOK, M!Held, M!All, MapLocks, HandedOnce, HandedOnce
<1>4. ListedIsMapped'
  BY DEF MapInv, MapTypes, M!TypeOK, M!Held, M!All, MapLocks, HandedOnce, ListedIsMapped
<1>5. NothingUnlisted'
  BY DEF MapInv, MapTypes, M!TypeOK, M!Held, M!All, MapLocks, HandedOnce, NothingUnlisted, M!Alive
<1>6. HeldIsListed'
  <2>1. \A j \in Threads : todo[j] = {}
    BY DEF MapInv, MapLocks
  <2>2. listed \subseteq mapped
    BY <2>1 DEF MapInv, ListedIsMapped
  <2> QED BY <2>2 DEF MapInv, MapTypes, HeldIsListed, M!ReadsMapped
<1>7. NamedAlive'
  BY DEF MapInv, MapTypes, M!TypeOK, M!Held, M!All, MapLocks, HandedOnce, NamedAlive, M!Alive, M!OnlyLateExitsFatal
<1>8. FewPublishers'
  BY DEF MapInv, FewPublishers
<1> QED BY <1>1, <1>2, <1>3, <1>4, <1>5, <1>6, <1>7, <1>8 DEF MapInv

\* A callback lets its entries go, which nobody else of this process holds.
LEMMA CallbackMaps ==
  ASSUME MapInv, NEW k \in Threads, M!Callback(k)
  PROVE  MapInv'
<1> USE DEF M!Callback, M!readerVars
<1>1. MapTypes'
  <2>1. \A j \in Threads : held'[j] \subseteq nodes'
    BY DEF MapInv, MapTypes, M!TypeOK, M!Held, M!Dropped, HandedOnce
  <2>2. M!Held' \subseteq nodes'
    BY <2>1 DEF M!Held
  <2>3. M!TypeOK'
    BY <2>2 DEF MapInv, MapTypes, M!TypeOK, M!All, M!Dropped
  <2> QED BY <2>1, <2>3 DEF MapInv, MapTypes, MapLocks
<1>2. MapLocks'
  BY DEF MapInv, MapTypes, M!TypeOK, M!Held, M!All, MapLocks, HandedOnce, MapLocks
<1>3. HandedOnce'
  BY DEF MapInv, MapTypes, M!TypeOK, M!Held, M!All, MapLocks, HandedOnce, HandedOnce
<1>4. ListedIsMapped'
  BY DEF MapInv, MapTypes, M!TypeOK, M!Held, M!All, MapLocks, HandedOnce, ListedIsMapped
<1>5. NothingUnlisted'
  BY DEF MapInv, MapTypes, M!TypeOK, M!Held, M!All, MapLocks, HandedOnce, NothingUnlisted, M!Alive
<1>6. HeldIsListed'
  BY DEF MapInv, MapTypes, M!TypeOK, M!Held, M!All, MapLocks, HandedOnce, HeldIsListed, M!ReadsMapped
<1>7. NamedAlive'
  BY DEF MapInv, MapTypes, M!TypeOK, M!Held, M!All, MapLocks, HandedOnce, NamedAlive, M!Alive, M!OnlyLateExitsFatal
<1>8. FewPublishers'
  BY FewerPublishers DEF MapInv
<1> QED BY <1>1, <1>2, <1>3, <1>4, <1>5, <1>6, <1>7, <1>8 DEF MapInv

\* Steps of the other parts leave the invariant alone.
LEMMA MapInvStutters == MapInv /\ UNCHANGED mapVars => MapInv'
BY DEF mapVars, MapInv, MapTypes, M!TypeOK, M!Held, M!All, MapLocks, HandedOnce, ListedIsMapped,
       NothingUnlisted, M!Alive, HeldIsListed, M!ReadsMapped, NamedAlive, M!OnlyLateExitsFatal,
       FewPublishers

\* In the beginning nothing is listed.
LEMMA MapInvStarts == M!Init => MapInv
<1> SUFFICES ASSUME M!Init PROVE MapInv
  OBVIOUS
<1>1. M!TypeOK
  BY AtMostOne DEF M!Init, M!TypeOK, M!Held, M!All
<1>2. \A t \in Topics : {x \in infos : x[2] = t} = {}
  BY DEF M!Init
<1>3. FewPublishers
  BY <1>2, FS_EmptySet, MappingAssumption DEF M!Init, FewPublishers
<1> QED BY <1>1, <1>3 DEF M!Init, M!All, MapInv, MapTypes, MapLocks, HandedOnce, ListedIsMapped,
       NothingUnlisted, HeldIsListed, M!ReadsMapped, NamedAlive, M!OnlyLateExitsFatal

\* Every step of ShmMapping preserves the invariant.
LEMMA MapInvSteps == MapInv /\ M!Next => MapInv'
BY AddPublisherMaps, PublishMaps, OtherReceivesMaps, OtherReleasesMaps, ExitMaps, ExitCleanupMaps,
   ShmUnlinkMaps, LockMaps, ReceiveMaps, MapAreaMaps, UnlockMaps, CallbackMaps DEF M!Next

\* ShmMapping: no callback reads memory its process has not mapped, whichever subscription
\* was told of the pool, and a publisher's exit brings the reader down only between the
\* ioctl that names its pool and shm_open (map_read_only_area).
THEOREM MappedBeforeRead == MemorySpec => []ReadsMapped
<1>1. MemoryInit => MapInv
  BY MapInvStarts DEF MemoryInit
<1>2. MapInv /\ [MemoryNext]_memoryVars => MapInv'
  BY MapInvStutters, MapInvSteps DEF MemoryNext, memoryVars
<1>3. MapInv => ReadsMapped
  BY DEF MapInv, MapTypes, HeldIsListed, NamedAlive, ReadsMapped
<1> QED BY <1>1, <1>2, <1>3, PTL DEF MemorySpec, memoryVars
-----------------------------------------------------------------------------
(* TakeSubscription                                                        *)

\* Every bit has one owner: a live block, or the thread that is about to build one or to
\* release the bit; only the cached block may be about to get another copy.
TakeOwned ==
  /\ \A b \in Live : blocks[b].entry \in bits
  /\ \A t \in Threads : got[t] # NoEntry => got[t] \in bits
  /\ \A b, c \in Live : blocks[b].entry = blocks[c].entry => b = c
  /\ \A t, u \in Threads : got[t] = got[u] /\ got[t] # NoEntry => t = u
  /\ \A b \in Live, t \in Threads :
       blocks[b].entry = got[t] => pc[t] = "construct" /\ arg[t] /\ b = cache
  /\ BitsOwned

\* Referenced entries exist and are not newer than the last one received.
TakeReferenced ==
  /\ bits \subseteq entries
  /\ \A e \in bits : e <= latest
  /\ \A e \in entries : e < nextEntry

\* What the threads have in hand.
TakeSteps ==
  /\ \A t \in Threads : got[t] # NoEntry <=> pc[t] \in {"construct", "release"}
  /\ \A t \in Threads : pc[t] = "construct" => t \in program.takers /\ arg[t] \in program.modes
  /\ \A t \in Threads : old[t] # NoBlock <=> pc[t] = "drop"
  /\ \A t \in Threads : pc[t] = "drop" => t \in program.takers /\ TRUE \in program.modes
  /\ ~fatal

\* The cache and the old pointers keep their blocks alive, each for itself.
TakePointers ==
  /\ cache # NoBlock => cache \in Live /\ TRUE \in program.modes
  /\ \A t \in Threads : old[t] # NoBlock => old[t] \in Live /\ old[t] # cache
  /\ \A b \in Blocks : b >= nextBlock => blocks[b].ref_count = 0
  /\ cache < nextBlock

\* After take(true) the cached pointer is the one of the last message received, unless its
\* thread is about to replace it.
LatestCached ==
  /\ TRUE \in program.modes /\ latest # -1 =>
       \/ cache # NoBlock /\ blocks[cache].entry = latest
       \/ \E t \in Threads : pc[t] = "construct" /\ got[t] = latest
  /\ \A t \in Threads : pc[t] = "construct" /\ arg[t] => got[t] = latest

\* The PubDepth newest messages are in the topic.
RecentKept == \A e \in Ids : e < nextEntry /\ e >= nextEntry - PubDepth => e \in entries

\* The invariant of TakeSubscription.
TakeInv == TypeOK /\ TakeOwned /\ TakeReferenced /\ TakeSteps /\ TakePointers /\ LatestCached /\ RecentKept

\* The documented ways to take: new messages only, or the same message again on one thread.
SeparateUse ==
  \A p \in Programs :
    p.modes \subseteq {FALSE} \/ (p.modes \subseteq {TRUE} /\ \A t, u \in p.takers : t = u)

\* The oldest of some entries exists.
LEMMA IdsMin ==
  ASSUME NEW E \in SUBSET Ids, E # {}
  PROVE  MinOf(E) \in E /\ \A f \in E : MinOf(E) <= f
<1> DEFINE F == {0 .. e : e \in E}
<1>1. IsFiniteSet(Ids) /\ E \subseteq Nat
  BY FS_Interval, TakeAssumption DEF Ids
<1>2. F \subseteq SUBSET Ids /\ F # {}
  <2>1. \A e \in E : 0 .. e \subseteq Ids
    BY TakeAssumption DEF Ids
  <2>2. F \subseteq SUBSET Ids
    BY <2>1
  <2> QED BY <2>2
<1>3. FiniteSubsetsOf(Ids) = SUBSET Ids
  BY <1>1, FS_FiniteSubsetsOfFinite
<1>4. IsWellFoundedOn(StrictSubsetOrdering(Ids), SUBSET Ids)
  BY <1>3, FS_StrictSubsetOrderingWellFounded
<1>5. PICK X \in F : \A Y \in F : ~(<<Y, X>> \in StrictSubsetOrdering(Ids))
  <2> HIDE DEF F
  <2> QED BY <1>2, <1>4, WFMin
<1>6. PICK m \in E : X = 0 .. m
  BY <1>5
<1>7. ASSUME NEW f \in E PROVE m <= f
  <2>1. ~(f < m)
    <3> SUFFICES ASSUME f < m PROVE FALSE
      OBVIOUS
    <3>1. 0 .. f \in F /\ 0 .. f \subseteq X /\ 0 .. f # X
      BY <1>1, <1>6
    <3>2. <<0 .. f, X>> \in (SUBSET Ids) \X (SUBSET Ids)
      BY <1>2, <1>5, <3>1
    <3> QED BY <1>5, <3>1, <3>2 DEF StrictSubsetOrdering
  <2> QED BY <1>1, <2>1
<1> QED BY <1>7 DEF MinOf

\* A copy that the program holds keeps its block alive without the cache's and the
\* old pointer's share.
LEMMA UserCopiesLeave ==
  ASSUME TakeInv, SeparateUse, NEW b \in Blocks, UserCopies(b) > 0
  PROVE  /\ b \in Live
         /\ cache = b \/ (\E t \in Threads : old[t] = b) => blocks[b].ref_count > 1
<1> DEFINE Keepers == {t \in Threads : old[t] = b}
           n == blocks[b].ref_count
<1>0. n \in Nat /\ b # NoBlock
  BY DEF TakeInv, TypeOK, control_block, Blocks, NoBlock
<1>1. CASE Keepers = {}
  <2>1. Cardinality(Keepers) = 0
    BY <1>1, FS_EmptySet
  <2>2. n - 0 - (IF cache = b THEN 1 ELSE 0) > 0
    BY <2>1 DEF UserCopies
  <2> QED BY <1>0, <1>1, <2>2 DEF Live
<1>2. ASSUME NEW u \in Keepers PROVE Keepers = {u} /\ cache # b
  <2>1. program \in Programs /\ TRUE \in program.modes
    BY <1>0, <1>2 DEF TakeInv, TypeOK, TakeSteps
  <2>2. \A t, w \in program.takers : t = w
    BY <2>1 DEF SeparateUse
  <2>3. \A w \in Keepers : w \in program.takers
    BY <1>0 DEF TakeInv, TypeOK, TakeSteps
  <2>4. cache # b
    BY <1>0, <1>2 DEF TakeInv, TakePointers
  <2> QED BY <1>2, <2>2, <2>3, <2>4
<1>3. CASE Keepers # {}
  <2>1. PICK u : u \in Keepers
    BY <1>3
  <2>2. Cardinality(Keepers) = 1 /\ cache # b
    BY <1>2, <2>1, FS_Singleton
  <2>3. n - 1 - 0 > 0
    BY <2>2 DEF UserCopies
  <2> QED BY <1>0, <2>3 DEF Live
<1> QED BY <1>1, <1>3

\* What a step that changes the count of one block only does.
Recount(b, n) ==
  /\ blocks' \in [Blocks -> control_block]
  /\ \A c \in Blocks : blocks'[c].entry = blocks[c].entry
  /\ \A c \in Blocks \ {b} : blocks'[c].ref_count = blocks[c].ref_count
  /\ blocks'[b].ref_count = n

\* Setting the count of one block.
LEMMA RecountBlock ==
  ASSUME TypeOK, NEW b \in Blocks, NEW n \in Nat,
         blocks' = [blocks EXCEPT ![b].ref_count = n]
  PROVE  Recount(b, n)
BY DEF TypeOK, control_block, Recount

\* A publish deletes no referenced entry and keeps the PubDepth newest ones.
LEMMA PublishTakes ==
  ASSUME SeparateUse, TakeInv, Publish
  PROVE  TakeInv'
<1> DEFINE all == entries \cup {nextEntry}
<1>0. /\ nextEntry \in Ids /\ nextEntry + 1 \in 0 .. MaxEntries /\ nextEntry \in Nat
      /\ entries' \subseteq all /\ all \subseteq Ids
      /\ bits \cap entries \subseteq entries'
      /\ nextEntry' = nextEntry + 1
      /\ UNCHANGED <<program, bits, latest, blocks, nextBlock, cache, pc, arg, got, old, fatal>>
  BY TakeAssumption DEF Publish, TakeInv, TypeOK, Ids, Newest
<1>1. TypeOK'
  BY <1>0 DEF TakeInv, TypeOK
<1>2. TakeOwned'
  BY <1>0 DEF TakeInv, TakeOwned, BitsOwned, Live
<1>3. TakeReferenced'
  BY <1>0, TakeAssumption DEF TakeInv, TakeReferenced, TypeOK, Ids
<1>4. TakeSteps'
  BY <1>0 DEF TakeInv, TakeSteps
<1>5. TakePointers'
  BY <1>0 DEF TakeInv, TakePointers, Live
<1>6. LatestCached'
  BY <1>0 DEF TakeInv, LatestCached
<1>7. RecentKept'
  <2> SUFFICES ASSUME NEW e \in Ids, e < nextEntry', e >= nextEntry' - PubDepth
               PROVE  e \in entries'
    BY DEF RecentKept
  <2>0. e < nextEntry + 1 /\ e >= nextEntry + 1 - PubDepth
    <3>1. nextEntry' = nextEntry + 1
      BY <1>0
    <3> QED BY <1>0, <3>1, TakeAssumption DEF Ids
  <2> DEFINE above == {f \in all : f > e}
  <2>1. e \in Nat /\ PubDepth \in Nat /\ e <= nextEntry
    BY <1>0, <2>0, TakeAssumption DEF Ids
  <2>2. e \in all
    BY <1>0, <2>0, <2>1 DEF TakeInv, RecentKept
  <2>3. above \subseteq (e + 1) .. nextEntry
    BY <1>0, <2>1 DEF TakeInv, TakeReferenced, Ids
  <2>4. IsFiniteSet((e + 1) .. nextEntry) /\ Cardinality((e + 1) .. nextEntry) = nextEntry - e
    <3>1. Cardinality((e + 1) .. nextEntry) = IF e + 1 > nextEntry THEN 0 ELSE nextEntry - (e + 1) + 1
      BY <1>0, <2>1, FS_Interval
    <3>2. IsFiniteSet((e + 1) .. nextEntry)
      <4>1. e + 1 \in Int /\ nextEntry \in Int
        BY <1>0, <2>1
      <4> QED BY <4>1, FS_Interval
    <3> QED BY <1>0, <2>1, <3>1, <3>2
  <2>5. Cardinality(above) <= nextEntry - e /\ Cardinality(above) \in Nat
    <3> HIDE DEF above
    <3> QED BY <2>3, <2>4, FS_Subset, FS_CardinalityType
  <2>6. Cardinality(above) < PubDepth
    <3> HIDE DEF above
    <3> QED BY <1>0, <2>0, <2>1, <2>5
  <2> QED BY <2>2, <2>6 DEF Publish, Newest
<1> QED BY <1>1, <1>2, <1>3, <1>4, <1>5, <1>6, <1>7 DEF TakeInv

\* A copy of a pointer changes the count of a live block.
LEMMA CopyHandleTakes ==
  ASSUME SeparateUse, TakeInv, NEW b \in Blocks, CopyHandle(b)
  PROVE  TakeInv'
<1> DEFINE n == blocks[b].ref_count + 1
<1>0. b \in Live /\ n \in Nat /\ n > 0
  BY UserCopiesLeave DEF CopyHandle, TakeInv, TypeOK, control_block, Live
<1>a. Recount(b, n)
  BY <1>0, RecountBlock DEF CopyHandle, TakeInv
<1>b. Live' = Live
  BY <1>0, <1>a DEF Live, Recount
<1>c. UNCHANGED <<program, entries, bits, latest, nextEntry, nextBlock, cache, pc, arg, got, old, fatal>>
  BY DEF CopyHandle
<1> HIDE DEF n
<1>1. TypeOK'
  BY <1>a, <1>c DEF Recount, TakeInv, TypeOK
<1>2. TakeOwned'
  BY <1>a, <1>b, <1>c DEF Recount, TakeInv, TakeOwned, BitsOwned, Live
<1>3. TakeReferenced'
  BY <1>c DEF TakeInv, TakeReferenced
<1>4. TakeSteps'
  BY <1>c DEF TakeInv, TakeSteps
<1>5. TakePointers'
  <2>1. b < nextBlock
    BY <1>0 DEF TakeInv, TakePointers, Live, TypeOK, Blocks
  <2>2. \A c \in Blocks : c >= nextBlock => blocks'[c].ref_count = 0
    BY <2>1, <1>a DEF Recount, TakeInv, TakePointers, TypeOK, Blocks
  <2> QED BY <2>2, <1>b, <1>c DEF TakeInv, TakePointers
<1>6. LatestCached'
  BY <1>a, <1>c DEF Recount, TakeInv, LatestCached, TypeOK, NoBlock
<1>7. RecentKept'
  BY <1>c DEF TakeInv, RecentKept
<1> QED BY <1>1, <1>2, <1>3, <1>4, <1>5, <1>6, <1>7 DEF TakeInv

\* A copy is destroyed; if it was the last one its thread is to release the entry.
LEMMA ResetTakes ==
  ASSUME SeparateUse, TakeInv, NEW t \in Threads, NEW b \in Blocks, reset(t, b), b \in Live,
         \/ pc[t] = "idle" /\ UNCHANGED old /\ UserCopies(b) > 0
         \/ pc[t] = "drop" /\ b = old[t] /\ old' = [old EXCEPT ![t] = NoBlock]
  PROVE  TakeInv'
<1> DEFINE n == blocks[b].ref_count - 1
           e == blocks[b].entry
<1>0. n \in Nat /\ e \in Ids /\ e # NoEntry /\ (WasLast(b) <=> n = 0)
  BY DEF TakeInv, TypeOK, control_block, Live, WasLast, Ids, NoEntry
<1>a. Recount(b, n)
  BY <1>0, RecountBlock DEF reset, TakeInv
<1>b. Live' = IF n = 0 THEN Live \ {b} ELSE Live
  BY <1>0, <1>a DEF Live, Recount, TakeInv, TypeOK, control_block
<1>c. /\ pc' = [pc EXCEPT ![t] = IF n = 0 THEN "release" ELSE "idle"]
      /\ got' = [got EXCEPT ![t] = IF n = 0 THEN e ELSE NoEntry]
      /\ UNCHANGED <<program, entries, bits, latest, nextEntry, nextBlock, cache, arg, fatal>>
  BY <1>0 DEF reset
<1>d. n = 0 => cache # b /\ \A u \in Threads : old'[u] # b
  <2>1. CASE UserCopies(b) > 0 /\ pc[t] = "idle" /\ UNCHANGED old
    BY <2>1, <1>0, UserCopiesLeave
  <2>2. CASE pc[t] = "drop" /\ b = old[t] /\ old' = [old EXCEPT ![t] = NoBlock]
    BY <2>2, <1>0 DEF TakeInv, TakePointers, TakeSteps, SeparateUse, TypeOK, NoBlock, Blocks
  <2> QED BY <2>1, <2>2
<1>e. /\ old' \in [Threads -> Blocks \cup {NoBlock}]
      /\ \A u \in Threads : old'[u] # NoBlock <=> pc'[u] = "drop"
      /\ \A u \in Threads : old'[u] \in {old[u], NoBlock}
  BY <1>c DEF TakeInv, TypeOK, TakeSteps
<1>f. got[t] = NoEntry
  BY DEF TakeInv, TakeSteps, TypeOK
<1> HIDE DEF n, e
<1>1. TypeOK'
  BY <1>0, <1>a, <1>c, <1>e DEF Recount, TakeInv, TypeOK
<1>2. TakeOwned'
  <2>1. /\ \A c \in Live' : blocks'[c].entry \in bits'
        /\ \A u \in Threads : got'[u] # NoEntry => got'[u] \in bits'
        /\ \A c, d \in Live' : blocks'[c].entry = blocks'[d].entry => c = d
    BY <1>a, <1>b, <1>c DEF Recount, TakeInv, TakeOwned, Live, TypeOK, e
  <2>2. ASSUME n = 0 PROVE \A u \in Threads : got[u] # e
    <3> SUFFICES ASSUME NEW u \in Threads, got[u] = e PROVE FALSE
      OBVIOUS
    <3>1. b = cache
      BY DEF e, TakeInv, TakeOwned
    <3> QED BY <3>1, <1>d, <2>2
  <2>3. \A u, w \in Threads : got'[u] = got'[w] /\ got'[u] # NoEntry => u = w
    BY <1>c, <2>2 DEF TakeInv, TakeOwned, TypeOK
  <2>4. \A c \in Live', u \in Threads :
          blocks'[c].entry = got'[u] => pc'[u] = "construct" /\ arg'[u] /\ c = cache'
    <3> SUFFICES ASSUME NEW c \in Live', NEW u \in Threads, blocks'[c].entry = got'[u]
                 PROVE  pc'[u] = "construct" /\ arg'[u] /\ c = cache'
      OBVIOUS
    <3>0. c \in Live /\ c \in Blocks /\ blocks[c].entry = got'[u] /\ blocks[c].entry # NoEntry
      BY <1>a, <1>b DEF Recount, Live, TakeInv, TypeOK, control_block, Ids, NoEntry
    <3>1. CASE u # t
      BY <3>0, <3>1, <1>c DEF TakeInv, TakeOwned, TypeOK
    <3>2. CASE u = t
      <4>1. n = 0 /\ blocks[c].entry = e /\ c # b
        BY <1>b, <1>c, <3>0, <3>2 DEF TakeInv, TypeOK
      <4> QED BY <4>1, <3>0 DEF TakeInv, TakeOwned, e
    <3> QED BY <3>1, <3>2
  <2>5. BitsOwned'
    <3> SUFFICES ASSUME NEW x \in bits
                 PROVE  \/ \E c \in Live' : blocks'[c].entry = x
                        \/ \E u \in Threads : got'[u] = x
      BY <1>c DEF BitsOwned
    <3>0. x # NoEntry
      BY DEF TakeInv, TypeOK, Ids, NoEntry
    <3>1. CASE \E u \in Threads : got[u] = x
      BY <3>0, <3>1, <1>c, <1>f DEF TakeInv, TypeOK
    <3>2. ASSUME NEW c \in Live, blocks[c].entry = x
          PROVE  \/ \E d \in Live' : blocks'[d].entry = x
                 \/ \E u \in Threads : got'[u] = x
      <4>1. CASE c \in Live'
        BY <4>1, <3>2, <1>a DEF Recount, Live
      <4>2. CASE c \notin Live'
        BY <4>2, <3>2, <1>b, <1>c DEF e, TakeInv, TypeOK
      <4> QED BY <4>1, <4>2
    <3> QED BY <3>1, <3>2 DEF TakeInv, TakeOwned, BitsOwned
  <2> QED BY <2>1, <2>3, <2>4, <2>5 DEF TakeOwned
<1>3. TakeReferenced'
  BY <1>c DEF TakeInv, TakeReferenced
<1>4. TakeSteps'
  BY <1>0, <1>c, <1>e, <1>f DEF TakeInv, TakeSteps, TypeOK
<1>5. TakePointers'
  <2>1. b < nextBlock
    BY DEF TakeInv, TakePointers, Live, TypeOK, Blocks
  <2>2. \A c \in Blocks : c >= nextBlock => blocks'[c].ref_count = 0
    BY <2>1, <1>a DEF Recount, TakeInv, TakePointers, TypeOK, Blocks
  <2> QED BY <2>2, <1>b, <1>c, <1>d, <1>e DEF TakeInv, TakePointers
<1>6. LatestCached'
  <2>1. cache # NoBlock => blocks'[cache].entry = blocks[cache].entry
    BY <1>a DEF Recount, TakeInv, TypeOK
  <2>2. \A u \in Threads : /\ pc[u] = "construct" <=> pc'[u] = "construct"
                           /\ pc[u] = "construct" => got'[u] = got[u]
    BY <1>c DEF TakeInv, TypeOK
  <2> QED BY <2>1, <2>2, <1>c DEF TakeInv, LatestCached
<1>7. RecentKept'
  BY <1>c DEF TakeInv, RecentKept
<1> QED BY <1>1, <1>2, <1>3, <1>4, <1>5, <1>6, <1>7 DEF TakeInv

\* old_ptr goes when the lock has been released.
LEMMA DropOldTakes ==
  ASSUME SeparateUse, TakeInv, NEW t \in Threads, DropOld(t)
  PROVE  TakeInv'
<1>1. old[t] \in Live /\ old[t] \in Blocks
  BY DEF DropOld, TakeInv, TakePointers, TakeSteps, Live
<1> QED BY <1>1, ResetTakes DEF DropOld

\* A user destroys a copy.
LEMMA DestroyCopyTakes ==
  ASSUME SeparateUse, TakeInv, NEW t \in Threads, NEW b \in Blocks, DestroyCopy(t, b)
  PROVE  TakeInv'
<1>1. b \in Live
  BY UserCopiesLeave DEF DestroyCopy
<1> QED BY <1>1, ResetTakes DEF DestroyCopy

\* RELEASE_SUB_REF clears a bit that nothing else stands for, so it does not fail.
LEMMA ReleaseTakes ==
  ASSUME SeparateUse, TakeInv, NEW t \in Threads, release_subscriber_reference(t)
  PROVE  TakeInv'
<1> DEFINE e == got[t]
<1>0. /\ pc[t] = "release" /\ e \in bits /\ e \in entries /\ e # NoEntry
  BY DEF release_subscriber_reference, TakeInv, TakeSteps, TakeOwned, TakeReferenced
<1>a. /\ fatal' = FALSE /\ bits' = bits \ {e} /\ pc' = [pc EXCEPT ![t] = "idle"]
      /\ got' = [got EXCEPT ![t] = NoEntry]
      /\ UNCHANGED <<program, entries, latest, nextEntry, blocks, nextBlock, cache, arg, old>>
  BY <1>0 DEF release_subscriber_reference
<1>b. \A b \in Live : blocks[b].entry # e
  BY <1>0 DEF TakeInv, TakeOwned
<1>c. \A u \in Threads \ {t} : got[u] # e
  BY <1>0 DEF TakeInv, TakeOwned
<1> HIDE DEF e
<1>1. TypeOK'
  BY <1>a DEF TakeInv, TypeOK
<1>2. TakeOwned'
  <2>0. Live' = Live
    BY <1>a DEF Live
  <2>1. BitsOwned'
    BY <1>a, <2>0 DEF TakeInv, TypeOK, TakeOwned, BitsOwned, e
  <2>2. \A u \in Threads : got'[u] # NoEntry => u # t /\ got'[u] = got[u]
    BY <1>a DEF TakeInv, TypeOK
  <2>3. \A b \in Live : blocks[b].entry # NoEntry
    BY DEF TakeInv, TypeOK, Live, control_block, Ids, NoEntry
  <2>4. \A u \in Threads : u # t => pc'[u] = pc[u] /\ got'[u] = got[u]
    BY <1>a DEF TakeInv, TypeOK
  <2> QED BY <1>a, <1>b, <1>c, <2>0, <2>1, <2>2, <2>3, <2>4 DEF TakeInv, TakeOwned
<1>3. TakeReferenced'
  BY <1>a DEF TakeInv, TakeReferenced
<1>4. TakeSteps'
  BY <1>0, <1>a DEF TakeInv, TakeSteps, TypeOK
<1>5. TakePointers'
  BY <1>a DEF TakeInv, TakePointers, Live
<1>6. LatestCached'
  BY <1>0, <1>a DEF TakeInv, LatestCached, TypeOK
<1>7. RecentKept'
  BY <1>a DEF TakeInv, RecentKept
<1> QED BY <1>1, <1>2, <1>3, <1>4, <1>5, <1>6, <1>7 DEF TakeInv

\* A new pointer is built for an entry that no live block stands for.
NewPointer(t, n, c, o) ==
  /\ blocks' = [blocks EXCEPT ![nextBlock] = [entry |-> got[t], ref_count |-> n]]
  /\ nextBlock' = nextBlock + 1
  /\ cache' = c /\ old' = [old EXCEPT ![t] = o]
  /\ pc' = [pc EXCEPT ![t] = IF o = NoBlock THEN "idle" ELSE "drop"]
  /\ got' = [got EXCEPT ![t] = NoEntry]
  /\ UNCHANGED <<program, entries, bits, latest, nextEntry, arg, fatal>>

\* Building a pointer for the entry in hand keeps blocks and entries one to one.
LEMMA NewPointerTakes ==
  ASSUME SeparateUse, TakeInv, NEW t \in Threads, NEW n \in Nat \ {0}, NEW c, NEW o,
         NewPointer(t, n, c, o), nextBlock <= MaxBlocks, pc[t] = "construct",
         \A b \in Live : blocks[b].entry # got[t],
         \/ c = cache /\ o = NoBlock /\ ~arg[t]
         \/ c = nextBlock /\ o = cache /\ arg[t]
  PROVE  TakeInv'
<1> DEFINE e == got[t]
           b == nextBlock
<1>0. /\ b \in Blocks /\ b \in Nat /\ b # NoBlock /\ b \notin Live
      /\ e \in bits /\ e \in Ids /\ e # NoEntry
  BY TakeAssumption DEF TakeInv, TypeOK, Blocks, NoBlock, TakePointers, Live, TakeSteps, TakeOwned
<1>a. /\ blocks' \in [Blocks -> control_block]
      /\ blocks'[b].entry = e /\ blocks'[b].ref_count = n
      /\ \A d \in Blocks \ {b} : blocks'[d] = blocks[d]
  BY <1>0 DEF NewPointer, TakeInv, TypeOK, control_block
<1>b. Live' = Live \cup {b}
  <2>1. \A d \in Blocks \ {b} : d \in Live' <=> d \in Live
    BY <1>a DEF Live
  <2>2. b \in Live'
    BY <1>0, <1>a DEF Live
  <2> QED BY <1>0, <2>1, <2>2 DEF Live
<1>c. /\ b' = b + 1 /\ cache' = c /\ old' = [old EXCEPT ![t] = o]
      /\ pc' = [pc EXCEPT ![t] = IF o = NoBlock THEN "idle" ELSE "drop"]
      /\ got' = [got EXCEPT ![t] = NoEntry]
      /\ UNCHANGED <<program, entries, bits, latest, nextEntry, arg, fatal>>
  BY DEF NewPointer
<1>d. c \in Blocks \cup {NoBlock} /\ o \in Blocks \cup {NoBlock} /\ o # b
  BY <1>0 DEF TakeInv, TypeOK, TakePointers, Live
<1>e. program \in Programs /\ t \in program.takers /\ arg[t] \in program.modes
  BY DEF TakeInv, TypeOK, TakeSteps
<1>f. \A d \in Live : d \in Blocks \ {b} /\ blocks'[d] = blocks[d] /\ blocks[d].entry # e
                     /\ blocks[d].entry # NoEntry
  BY <1>0, <1>a DEF TakeInv, TypeOK, control_block, Live, Ids, NoEntry
<1>g. \A u \in Threads \ {t} : pc'[u] = pc[u] /\ got'[u] = got[u] /\ old'[u] = old[u] /\ got[u] # e
  BY <1>0, <1>c DEF TakeInv, TypeOK, TakeOwned
<1>h. pc'[t] = (IF o = NoBlock THEN "idle" ELSE "drop") /\ got'[t] = NoEntry /\ old'[t] = o
  BY <1>c DEF TakeInv, TypeOK
<1>i. got[t] \notin {NoEntry} /\ e = got[t]
  BY <1>0
<1>1. TypeOK'
  BY <1>0, <1>a, <1>c, <1>d, TakeAssumption DEF TakeInv, TypeOK
<1> HIDE DEF e
<1>2. TakeOwned'
  <2>1. BitsOwned'
    <3> SUFFICES ASSUME NEW x \in bits
                 PROVE  \/ \E d \in Live' : blocks'[d].entry = x
                        \/ \E u \in Threads : got'[u] = x
      BY <1>c DEF BitsOwned
    <3>1. CASE x = e
      BY <3>1, <1>a, <1>b
    <3>2. CASE x # e
      BY <3>2, <1>b, <1>f, <1>g, <1>i DEF TakeInv, TakeOwned, BitsOwned
    <3> QED BY <3>1, <3>2
  <2>2. \A d \in Live', u \in Threads :
          blocks'[d].entry = got'[u] => pc'[u] = "construct" /\ arg'[u] /\ d = cache'
    <3> SUFFICES ASSUME NEW d \in Live', NEW u \in Threads, blocks'[d].entry = got'[u]
                 PROVE  pc'[u] = "construct" /\ arg'[u] /\ d = cache'
      OBVIOUS
    <3>1. u # t
      BY <1>0, <1>a, <1>b, <1>f, <1>h
    <3>2. d # b /\ d \in Live /\ blocks[d].entry = got[u]
      BY <3>1, <1>a, <1>b, <1>f, <1>g
    <3>3. pc[u] = "construct" /\ arg[u] /\ d = cache
      BY <3>2 DEF TakeInv, TakeOwned
    <3>4. u \in program.takers /\ TRUE \in program.modes
      BY <3>3 DEF TakeInv, TakeSteps
    <3> QED BY <3>1, <3>4, <1>e DEF SeparateUse
  <2>3. \A d \in Live' : blocks'[d].entry \in bits'
    BY <1>0, <1>a, <1>b, <1>c, <1>f DEF TakeInv, TakeOwned
  <2>4. \A u \in Threads : got'[u] # NoEntry => got'[u] \in bits'
    BY <1>c, <1>g, <1>h DEF TakeInv, TakeOwned
  <2>5. \A d, f \in Live' : blocks'[d].entry = blocks'[f].entry => d = f
    BY <1>a, <1>b, <1>f DEF TakeInv, TakeOwned
  <2>6. \A u, w \in Threads : got'[u] = got'[w] /\ got'[u] # NoEntry => u = w
    BY <1>g, <1>h DEF TakeInv, TakeOwned
  <2> QED BY <2>1, <2>2, <2>3, <2>4, <2>5, <2>6 DEF TakeOwned
<1>3. TakeReferenced'
  BY <1>c DEF TakeInv, TakeReferenced
<1>4. TakeSteps'
  <2>1. o # NoBlock => TRUE \in program.modes
    BY <1>e
  <2>2. /\ \A u \in Threads : got'[u] # NoEntry <=> pc'[u] \in {"construct", "release"}
        /\ \A u \in Threads : old'[u] # NoBlock <=> pc'[u] = "drop"
    BY <1>g, <1>h DEF TakeInv, TakeSteps
  <2>3. /\ \A u \in Threads : pc'[u] = "construct" => u \in program.takers /\ arg[u] \in program.modes
        /\ \A u \in Threads : pc'[u] = "drop" => u \in program.takers /\ TRUE \in program.modes
    BY <2>1, <1>e, <1>g, <1>h DEF TakeInv, TakeSteps
  <2> QED BY <2>2, <2>3, <1>c DEF TakeInv, TakeSteps
<1>5. TakePointers'
  <2>1. cache' # NoBlock => cache' \in Live' /\ TRUE \in program'.modes
    BY <1>b, <1>c, <1>e DEF TakeInv, TakePointers
  <2>2. ASSUME NEW u \in Threads, old'[u] # NoBlock PROVE old'[u] \in Live' /\ old'[u] # cache'
    <3>1. CASE u = t
      <4>1. o # NoBlock /\ old'[u] = o
        BY <3>1, <2>2, <1>h
      <4>2. o = cache /\ c = b
        BY <4>1
      <4> QED BY <4>1, <4>2, <1>0, <1>b, <1>c DEF TakeInv, TakePointers
    <3>2. CASE u # t
      <4>1. old[u] \in Live /\ old[u] # cache
        BY <3>2, <2>2, <1>g DEF TakeInv, TakePointers
      <4> QED BY <4>1, <3>2, <1>0, <1>b, <1>c, <1>g
    <3> QED BY <3>1, <3>2
  <2>3. \A d \in Blocks : d >= b' => blocks'[d].ref_count = 0
    BY <1>0, <1>a, <1>c DEF TakeInv, TakePointers, Blocks
  <2>4. cache' < b'
    BY <1>0, <1>c DEF TakeInv, TakePointers, TypeOK, Blocks, NoBlock
  <2> QED BY <2>1, <2>2, <2>3, <2>4 DEF TakePointers
<1>6. LatestCached'
  <2> SUFFICES ASSUME TRUE \in program.modes, latest # -1
               PROVE  \/ cache' # NoBlock /\ blocks'[cache'].entry = latest
                      \/ \E u \in Threads : pc'[u] = "construct" /\ got'[u] = latest
    <3>1. \A u \in Threads : pc'[u] = "construct" /\ arg'[u] => got'[u] = latest'
      BY <1>c, <1>g, <1>h DEF TakeInv, LatestCached
    <3> QED BY <1>c, <3>1 DEF LatestCached
  <2>1. arg[t] /\ \A u \in program.takers : u = t
    BY <1>e DEF SeparateUse
  <2>2. c = b /\ blocks'[cache'].entry = e /\ cache' # NoBlock
    BY <2>1, <1>0, <1>a, <1>c
  <2>3. got[t] = latest
    BY <2>1 DEF TakeInv, LatestCached
  <2> QED BY <2>2, <2>3 DEF e
<1>7. RecentKept'
  BY <1>c DEF TakeInv, RecentKept
<1> QED BY <1>1, <1>2, <1>3, <1>4, <1>5, <1>6, <1>7 DEF TakeInv

\* take(false) builds a pointer of its own.
LEMMA ConstructTakes ==
  ASSUME SeparateUse, TakeInv, NEW t \in Threads, Construct(t)
  PROVE  TakeInv'
<1>1. \A b \in Live : blocks[b].entry # got[t]
  BY DEF Construct, TakeInv, TakeOwned
<1>2. old[t] = NoBlock
  BY DEF Construct, TakeInv, TakeSteps
<1>3. NewPointer(t, 1, cache, NoBlock)
  BY <1>2 DEF Construct, NewBlock, NewPointer, TakeInv, TypeOK
<1> QED BY <1>1, <1>3, NewPointerTakes DEF Construct, NewBlock

\* take(true) shares the block of the cached pointer, or replaces it.
LEMMA ConstructCachedTakes ==
  ASSUME SeparateUse, TakeInv, NEW t \in Threads, ConstructCached(t)
  PROVE  TakeInv'
<1>1. CASE ~IsCached(got[t])
  <2>1. \A b \in Live : blocks[b].entry # got[t]
    <3> SUFFICES ASSUME NEW b \in Live, blocks[b].entry = got[t] PROVE FALSE
      OBVIOUS
    <3>1. b = cache /\ cache # NoBlock
      BY DEF TakeInv, TakeOwned, Live, Blocks, NoBlock
    <3> QED BY <1>1, <3>1 DEF IsCached
  <2>2. NewPointer(t, 2, nextBlock, cache)
    BY <1>1 DEF ConstructCached, NewBlock, NewPointer
  <2>3. nextBlock <= MaxBlocks /\ pc[t] = "construct" /\ arg[t] /\ 2 \in Nat \ {0}
    BY <1>1 DEF ConstructCached, NewBlock
  <2> QED BY <2>1, <2>2, <2>3, NewPointerTakes
<1>2. CASE IsCached(got[t])
  <2> DEFINE n == blocks[cache].ref_count + 1
             e == got[t]
  <2>0. cache \in Live /\ cache \in Blocks /\ n \in Nat /\ n > 0 /\ blocks[cache].entry = e
    BY <1>2 DEF IsCached, TakeInv, TakePointers, Live, TypeOK, control_block
  <2>a. Recount(cache, n)
    BY <1>2, <2>0, RecountBlock DEF ConstructCached, TakeInv
  <2>b. Live' = Live
    BY <2>0, <2>a DEF Live, Recount
  <2>c. /\ pc' = [pc EXCEPT ![t] = "idle"] /\ got' = [got EXCEPT ![t] = NoEntry]
        /\ UNCHANGED <<program, entries, bits, latest, nextEntry, nextBlock, cache, arg, old, fatal>>
    BY <1>2 DEF ConstructCached
  <2>d. \A u \in Threads \ {t} : pc'[u] = pc[u] /\ got'[u] = got[u]
    BY <2>c DEF TakeInv, TypeOK
  <2>e. pc[t] = "construct" /\ arg[t] /\ pc'[t] = "idle" /\ got'[t] = NoEntry
    BY <2>c DEF ConstructCached, TakeInv, TypeOK
  <2>f. \A b \in Live : b \in Blocks /\ blocks'[b].entry = blocks[b].entry /\ blocks[b].entry # NoEntry
    BY <2>a DEF Recount, Live, TakeInv, TypeOK, control_block, Ids, NoEntry
  <2> HIDE DEF n, e
  <2>1. TypeOK'
    BY <2>a, <2>c DEF Recount, TakeInv, TypeOK
  <2>2. TakeOwned'
    <3>1. BitsOwned'
      <4> SUFFICES ASSUME NEW x \in bits
                   PROVE  \/ \E d \in Live' : blocks'[d].entry = x
                          \/ \E u \in Threads : got'[u] = x
        BY <2>c DEF BitsOwned
      <4>1. CASE x = e
        BY <4>1, <2>0, <2>b, <2>f
      <4>2. CASE x # e
        BY <4>2, <2>b, <2>d, <2>f DEF TakeInv, TakeOwned, BitsOwned, e
      <4> QED BY <4>1, <4>2
    <3> QED BY <3>1, <2>b, <2>c, <2>d, <2>e, <2>f DEF TakeInv, TakeOwned
  <2>3. TakeReferenced'
    BY <2>c DEF TakeInv, TakeReferenced
  <2>4. TakeSteps'
    <3>1. \A u \in Threads : u = t \/ (pc'[u] = pc[u] /\ got'[u] = got[u])
      BY <2>d
    <3>2. old[t] = NoBlock
      BY <2>e DEF TakeInv, TakeSteps
    <3>3. UNCHANGED <<program, arg, old, fatal>>
      BY <2>c
    <3> QED BY <3>1, <3>2, <3>3, <2>e DEF TakeInv, TakeSteps
  <2>5. TakePointers'
    <3>1. cache < nextBlock
      BY <2>0 DEF TakeInv, TakePointers, Live, TypeOK, Blocks
    <3>2. \A c \in Blocks : c >= nextBlock => blocks'[c].ref_count = 0
      BY <3>1, <2>a DEF Recount, TakeInv, TakePointers, TypeOK, Blocks
    <3> QED BY <3>2, <2>b, <2>c DEF TakeInv, TakePointers
  <2>6. LatestCached'
    <3>1. blocks'[cache].entry = e /\ cache # NoBlock /\ e = latest
      BY <1>2, <2>0, <2>e, <2>f DEF e, IsCached, TakeInv, LatestCached
    <3>2. \A u \in Threads : pc'[u] = "construct" /\ arg'[u] => got'[u] = latest'
      BY <2>c, <2>d, <2>e DEF TakeInv, LatestCached
    <3> QED BY <3>1, <3>2, <2>c DEF LatestCached
  <2>7. RecentKept'
    BY <2>c DEF TakeInv, RecentKept
  <2> QED BY <2>1, <2>2, <2>3, <2>4, <2>5, <2>6, <2>7 DEF TakeInv
<1> QED BY <1>1, <1>2

\* TAKE_MSG returns nothing, or an entry that is newer than any the subscription has
\* referenced, or the one that its cached pointer stands for.
LEMMA TakeIoctlTakes ==
  ASSUME SeparateUse, TakeInv, NEW t \in Threads, NEW same \in program.modes, TakeIoctl(t, same)
  PROVE  TakeInv'
<1> DEFINE e == MinOf(Candidates(same))
<1>0. program \in Programs /\ same \in BOOLEAN /\ t \in program.takers /\ pc[t] = "idle" /\ latest \in Int
  BY TakeAssumption DEF TakeIoctl, TakeInv, TypeOK, Ids
<1>1. CASE Candidates(same) = {}
  <2>1. UNCHANGED vars
    BY <1>1 DEF TakeIoctl, vars
  <2> QED BY <2>1 DEF vars, TakeInv, TypeOK, TakeOwned, BitsOwned, Live, TakeReferenced, TakeSteps,
                      TakePointers, LatestCached, RecentKept
<1>2. CASE Candidates(same) # {}
  <2>a. e \in entries /\ e \in Ids /\ (e > latest \/ (same /\ e = latest))
    <3>1. Candidates(same) \in SUBSET Ids
      BY DEF Candidates, Newest, TakeInv, TypeOK
    <3>2. e \in Candidates(same)
      BY <1>2, <3>1, IdsMin
    <3> QED BY <3>1, <3>2 DEF Candidates, Newest
  <2> HIDE DEF e
  <2>b. ~(e \in bits /\ ~same)
    BY <1>0, <2>a DEF TakeInv, TakeReferenced, Ids
  <2>c. /\ bits' = bits \cup {e} /\ latest' = e /\ pc' = [pc EXCEPT ![t] = "construct"]
        /\ arg' = [arg EXCEPT ![t] = same] /\ got' = [got EXCEPT ![t] = e]
        /\ UNCHANGED <<program, entries, nextEntry, blocks, nextBlock, cache, old, fatal>>
    BY <1>2, <2>b DEF TakeIoctl, e
  <2>d. e \in Int /\ e >= latest /\ e # NoEntry
    BY <1>0, <2>a, TakeAssumption DEF Ids, NoEntry
  <2>e. \A u \in Threads \ {t} : pc'[u] = pc[u] /\ got'[u] = got[u] /\ arg'[u] = arg[u]
    BY <2>c DEF TakeInv, TypeOK
  <2>f. pc'[t] = "construct" /\ got'[t] = e /\ arg'[t] = same
    BY <2>c DEF TakeInv, TypeOK
  <2>g. Live' = Live /\ UNCHANGED blocks
    BY <2>c DEF Live
  <2>h. same => \A u \in Threads \ {t} : pc[u] # "construct"
    BY <1>0 DEF SeparateUse, TakeInv, TakeSteps
  <2>i. ~same => TRUE \notin program.modes
    BY <1>0 DEF SeparateUse
  <2>j. \A b \in Live : blocks[b].entry = e => same /\ b = cache
    <3> SUFFICES ASSUME NEW b \in Live, blocks[b].entry = e PROVE same /\ b = cache
      OBVIOUS
    <3>1. e \in bits
      BY DEF TakeInv, TakeOwned
    <3>2. same /\ e = latest /\ e # -1
      BY <3>1, <2>a, <2>b, <2>d, <1>0 DEF TakeInv, TakeReferenced, NoEntry
    <3>3. pc[t] # "construct" /\ TRUE \in program.modes
      BY <1>0, <3>2
    <3>4. cache # NoBlock /\ blocks[cache].entry = e
      BY <2>h, <3>2, <3>3 DEF TakeInv, LatestCached
    <3>5. cache \in Live
      BY <3>4 DEF TakeInv, TakePointers
    <3> QED BY <3>2, <3>4, <3>5 DEF TakeInv, TakeOwned
  <2>k. \A u \in Threads \ {t} : got[u] # e
    <3> SUFFICES ASSUME NEW u \in Threads \ {t}, got[u] = e PROVE FALSE
      OBVIOUS
    <3>1. e \in bits /\ pc[u] \in {"construct", "release"}
      BY <2>d DEF TakeInv, TakeOwned, TakeSteps
    <3>2. same /\ e = latest /\ e # -1
      BY <3>1, <2>a, <2>b, <2>d, <1>0 DEF TakeInv, TakeReferenced, NoEntry
    <3>3. cache # NoBlock /\ blocks[cache].entry = e
      BY <1>0, <2>h, <3>2 DEF TakeInv, LatestCached
    <3>4. cache \in Live
      BY <3>3 DEF TakeInv, TakePointers
    <3>5. pc[u] = "construct"
      BY <3>3, <3>4 DEF TakeInv, TakeOwned
    <3> QED BY <2>h, <3>2, <3>5
  <2>1. TypeOK'
    BY <1>0, <2>a, <2>c DEF TakeInv, TypeOK
  <2>2. TakeOwned'
    <3>1. BitsOwned'
      <4>1. \A u \in Threads : got[u] # NoEntry => u # t
        BY <1>0 DEF TakeInv, TakeSteps
      <4>2. \A x \in bits : x # NoEntry
        BY DEF TakeInv, TypeOK, Ids, NoEntry
      <4> QED BY <4>1, <4>2, <2>c, <2>e, <2>f, <2>g DEF TakeInv, TakeOwned, BitsOwned
    <3>2. \A b \in Live', u \in Threads :
            blocks'[b].entry = got'[u] => pc'[u] = "construct" /\ arg'[u] /\ b = cache'
      BY <2>c, <2>e, <2>f, <2>g, <2>j DEF TakeInv, TakeOwned
    <3>3. \A u, w \in Threads : got'[u] = got'[w] /\ got'[u] # NoEntry => u = w
      BY <2>e, <2>f, <2>k DEF TakeInv, TakeOwned
    <3>4. \A u \in Threads : got'[u] # NoEntry => got'[u] \in bits'
      BY <2>c, <2>e, <2>f DEF TakeInv, TakeOwned
    <3> QED BY <3>1, <3>2, <3>3, <3>4, <2>c, <2>g DEF TakeInv, TakeOwned
  <2>3. TakeReferenced'
    BY <1>0, <2>a, <2>c, <2>d DEF TakeInv, TakeReferenced, TypeOK, Ids
  <2>4. TakeSteps'
    <3>1. old[t] = NoBlock
      BY <1>0 DEF TakeInv, TakeSteps
    <3>2. /\ \A u \in Threads : got'[u] # NoEntry <=> pc'[u] \in {"construct", "release"}
          /\ \A u \in Threads : old[u] # NoBlock <=> pc'[u] = "drop"
      BY <3>1, <2>d, <2>e, <2>f DEF TakeInv, TakeSteps
    <3>3. \A u \in Threads : pc'[u] = "construct" => u \in program.takers /\ arg'[u] \in program.modes
      BY <1>0, <2>e, <2>f DEF TakeInv, TakeSteps
    <3>4. \A u \in Threads : pc'[u] = "drop" => u \in program.takers /\ TRUE \in program.modes
      BY <2>e, <2>f DEF TakeInv, TakeSteps
    <3> QED BY <3>2, <3>3, <3>4, <2>c DEF TakeInv, TakeSteps
  <2>5. TakePointers'
    BY <2>c, <2>g DEF TakeInv, TakePointers
  <2>6. LatestCached'
    <3>1. \A u \in Threads : pc'[u] = "construct" /\ arg'[u] => got'[u] = e
      <4> SUFFICES ASSUME NEW u \in Threads, u # t, pc[u] = "construct", arg[u] PROVE FALSE
        BY <2>e, <2>f
      <4> QED BY <2>h, <2>i DEF TakeInv, TakeSteps
    <3> QED BY <3>1, <2>c, <2>f DEF LatestCached
  <2>7. RecentKept'
    BY <2>c DEF TakeInv, RecentKept
  <2> QED BY <2>1, <2>2, <2>3, <2>4, <2>5, <2>6, <2>7 DEF TakeInv
<1> QED BY <1>1, <1>2

\* In the beginning nothing is referenced.
LEMMA TakeInvStarts == Init => TakeInv
<1> SUFFICES ASSUME Init PROVE TakeInv
  OBVIOUS
<1>1. TypeOK
  <2>1. 0 \in Ids
    BY TakeAssumption DEF Ids
  <2>2. blocks \in [Blocks -> control_block]
    BY <2>1 DEF Init, control_block
  <2>3. nextEntry \in 0 .. MaxEntries /\ nextBlock \in 1 .. (MaxBlocks + 1)
    BY TakeAssumption DEF Init
  <2> QED BY <2>2, <2>3 DEF Init, TypeOK, NoBlock, NoEntry
<1>2. Live = {}
  BY DEF Init, Live
<1>3. TakeOwned /\ TakeReferenced /\ TakeSteps /\ LatestCached
  BY <1>2 DEF Init, TakeOwned, BitsOwned, TakeReferenced, TakeSteps, LatestCached
<1>4. TakePointers
  BY DEF Init, TakePointers, NoBlock
<1>5. RecentKept
  BY TakeAssumption DEF Init, RecentKept, Ids
<1> QED BY <1>1, <1>3, <1>4, <1>5 DEF TakeInv

\* Every step of TakeSubscription preserves the invariant.
LEMMA TakeInvSteps == SeparateUse /\ TakeInv /\ Next => TakeInv'
BY PublishTakes, CopyHandleTakes, TakeIoctlTakes, ConstructCachedTakes, ConstructTakes, DropOldTakes,
   ReleaseTakes, DestroyCopyTakes DEF Next

\* The other parts leave it alone.
LEMMA TakeInvStutters == TakeInv /\ UNCHANGED vars => TakeInv'
<1> SUFFICES ASSUME TakeInv, UNCHANGED vars PROVE TakeInv'
  OBVIOUS
<1>1. TypeOK'
  BY DEF vars, TakeInv, TypeOK
<1>2. TakeOwned'
  BY DEF vars, TakeInv, TakeOwned, BitsOwned, Live
<1>3. TakeReferenced' /\ TakeSteps' /\ RecentKept'
  BY DEF vars, TakeInv, TakeReferenced, TakeSteps, RecentKept
<1>4. TakePointers' /\ LatestCached'
  BY DEF vars, TakeInv, TakePointers, LatestCached, Live
<1> QED BY <1>1, <1>2, <1>3, <1>4 DEF TakeInv

\* An entry among the SubDepth newest candidates is not older than the SubDepth newest
\* messages, if the publisher keeps that many.
LEMMA TakeKeepsUp ==
  ASSUME SubDepth <= PubDepth, TakeInv, NEW e \in Candidates(TRUE)
  PROVE  e >= nextEntry - SubDepth
<1> DEFINE all == {f \in entries : f > latest \/ (TRUE /\ f = latest)}
           above == {f \in all : f > e}
           recent == (nextEntry - SubDepth) .. (nextEntry - 1)
<1>0. /\ e \in entries /\ e \in Ids /\ e \in Nat /\ e >= latest /\ Cardinality(above) < SubDepth
      /\ nextEntry \in Nat /\ latest \in Int /\ SubDepth \in Nat /\ PubDepth \in Nat
  BY TakeAssumption DEF Candidates, Newest, TakeInv, TypeOK, Ids
<1> SUFFICES ASSUME e < nextEntry - SubDepth PROVE FALSE
  BY <1>0
<1>1. recent \subseteq above
  <2> SUFFICES ASSUME NEW f \in recent PROVE f \in above
    OBVIOUS
  <2>1. f \in Int /\ f >= nextEntry - SubDepth /\ f < nextEntry /\ f > e /\ f >= 0
    BY <1>0
  <2>2. f \in Ids
    BY <1>0, <2>1, TakeAssumption DEF Ids, TakeInv, TypeOK
  <2>3. f \in entries
    BY <1>0, <2>1, <2>2 DEF TakeInv, RecentKept
  <2> QED BY <1>0, <2>1, <2>3
<1>2. IsFiniteSet(above)
  <2>1. above \subseteq Ids
    BY DEF TakeInv, TypeOK
  <2>2. IsFiniteSet(Ids)
    BY FS_Interval, TakeAssumption DEF Ids
  <2> HIDE DEF above
  <2> QED BY <2>1, <2>2, FS_Subset
<1>3. Cardinality(recent) = SubDepth
  <2>1. nextEntry - SubDepth \in Int /\ nextEntry - 1 \in Int
    BY <1>0
  <2>2. Cardinality(recent) = IF nextEntry - SubDepth > nextEntry - 1 THEN 0
                              ELSE (nextEntry - 1) - (nextEntry - SubDepth) + 1
    BY <2>1, FS_Interval
  <2> QED BY <1>0, <2>2
<1>4. Cardinality(recent) <= Cardinality(above) /\ Cardinality(above) \in Nat
  <2> HIDE DEF recent, above
  <2> QED BY <1>1, <1>2, FS_Subset, FS_CardinalityType
<1> HIDE DEF recent, above
<1> QED BY <1>0, <1>3, <1>4

\* TakeSubscription: pointers keep their messages in every program that takes new messages
\* only, on any threads, or takes the same one again, on one thread; and take(true) keeps
\* up with a publisher whose depth is not smaller than the subscription's.
THEOREM TakenSafe ==
  ASSUME SeparateUse, SubDepth <= PubDepth
  PROVE  MemorySpec => TakenStaysValid
<1>1. MemoryInit => TakeInv
  BY TakeInvStarts DEF MemoryInit
<1>2. TakeInv /\ [MemoryNext]_memoryVars => TakeInv'
  BY TakeInvStutters, TakeInvSteps DEF MemoryNext, memoryVars
<1>3. TakeInv => TypeOK /\ BlocksBacked /\ NeverFails /\ BitsOwned
  BY DEF TakeInv, TakeOwned, TakeReferenced, TakeSteps, BlocksBacked, NeverFails
<1>4. ASSUME TakeInv, [MemoryNext]_memoryVars
      PROVE  [\A t \in Threads : (pc[t] = "idle" /\ pc'[t] = "construct" /\ arg'[t])
                                   => got'[t] >= nextEntry - SubDepth]_vars
  <2> SUFFICES ASSUME Next, NEW t \in Threads, pc[t] = "idle", pc'[t] = "construct", arg'[t]
               PROVE  got'[t] >= nextEntry - SubDepth
    BY <1>4 DEF MemoryNext, memoryVars
  <2>0. pc \in [Threads -> {"idle", "construct", "drop", "release"}]
    BY <1>4 DEF TakeInv, TypeOK
  <2>1. PICK same \in program.modes : TakeIoctl(t, same)
    <3>1. ~Publish /\ ~\E b \in Blocks : CopyHandle(b)
      BY DEF Publish, CopyHandle
    <3>2. \A u \in Threads : ~(ConstructCached(u) \/ Construct(u))
      BY <2>0 DEF ConstructCached, Construct
    <3>3. \A u \in Threads :
            ~(DropOld(u) \/ release_subscriber_reference(u) \/ \E b \in Blocks : DestroyCopy(u, b))
      BY <2>0 DEF DropOld, release_subscriber_reference, DestroyCopy, reset
    <3>4. PICK u \in Threads, m \in program.modes : TakeIoctl(u, m)
      BY <3>1, <3>2, <3>3 DEF Next
    <3>5. u = t
      BY <2>0, <3>4 DEF TakeIoctl
    <3> QED BY <3>4, <3>5
  <2>2. Candidates(same) # {} /\ got'[t] = MinOf(Candidates(same)) /\ arg'[t] = same
    BY <1>4, <2>1 DEF TakeIoctl, TakeInv, TypeOK
  <2>3. Candidates(same) \in SUBSET Ids
    BY <1>4 DEF Candidates, Newest, TakeInv, TypeOK
  <2>4. same = TRUE
    BY <1>4, <2>1, <2>2, TakeAssumption DEF TakeInv, TypeOK
  <2>5. MinOf(Candidates(same)) \in Candidates(TRUE)
    BY <2>2, <2>3, <2>4, IdsMin
  <2> QED BY <1>4, <2>2, <2>5, TakeKeepsUp
<1> QED BY <1>1, <1>2, <1>3, <1>4, PTL DEF MemorySpec, memoryVars, TakenStaysValid, LagBounded

-----------------------------------------------------------------------------
(* LoanedMessage                                                           *)

\* What a control block, a thread in publish() and the pointers of the threads can be.
ControlBlocks == [pub : Loaners, by : Threads, valid : BOOLEAN, count : Nat]

PointerCountings == [Threads -> [L!Loans -> Nat]]

LoanWork == [step : {"idle", "publish", "cancel", "ioctl", "deleter", "delete"},
             loan : Nat, todo : SUBSET L!Loans]

LoanTypes ==
  /\ loans \in [Threads -> Nat]
  /\ block \in Seq(ControlBlocks) /\ Len(block) <= MaxLoans
  /\ handles \in PointerCountings
  /\ memory \in [L!Loans -> {"none", "loaned", "published", "freed", "freed twice", "left"}]
  /\ contents \in [L!Loans -> SUBSET {"shared", "heap"}]
  /\ tree \in Seq(L!Loans)
  /\ work \in [Threads -> LoanWork]

\* The ipc_shared_ptrs to message c, numbered within their threads.
PointersIn(h, c) == {x \in Threads \X (Nat \ {0}) : x[2] <= h[x[1]][c]}
Pointers(c) == PointersIn(handles, c)

\* The count in a control block is the number of ipc_shared_ptrs.
LoanCounts ==
  /\ \A c \in L!Made : IsFiniteSet(Pointers(c)) /\ Cardinality(Pointers(c)) = block[c].count
  /\ \A c \in L!Loans \ L!Made : memory[c] = "none" /\ \A t \in Threads : handles[t][c] = 0

\* A thread in publish() or cancel_message() has a pointer to the message, which no other
\* thread publishes or cancels and which is valid until it has invalidated it.
LoanSteps ==
  \A t \in Threads :
    /\ work[t].step = "idle" => work[t] = L!Rest
    /\ work[t].step # "idle" =>
         /\ work[t].loan \in L!Made /\ handles[t][work[t].loan] > 0
         /\ block[work[t].loan].valid <=> work[t].step \in {"publish", "cancel"}
         /\ \A u \in Threads \ {t} : work[u].loan # work[t].loan
    /\ work[t].todo # {} => work[t].step = "delete"

\* Between the invalidation and the ioctl or the deleter the message is still on loan;
\* what the ioctl has released is deleted by one thread.
LoanOwners ==
  /\ L!OneOwner
  /\ \A t \in Threads : work[t].step \in {"ioctl", "deleter"} => memory[work[t].loan] = "loaned"
  /\ \A t \in Threads : \A m \in work[t].todo : memory[m] = "published"
  /\ \A t, u \in Threads : t # u => work[t].todo \cap work[u].todo = {}

\* In confined programs the loans of a thread are returned by that thread.
LoanReturns ==
  /\ \A t \in Threads : loans[t] = Cardinality(L!Unreturned(t))
  /\ \A c \in L!Made : contents[c] = {"shared"}
  /\ \A t \in Threads : work[t].step \in {"publish", "cancel"} => block[work[t].loan].by = t

\* The parts of the invariant, of careful programs that have not been ended.
LoanParts ==
  /\ LoanTypes /\ LoanCounts /\ LoanSteps /\ LoanOwners
  /\ user.confined => LoanReturns

\* The inductive invariant of LoanedMessage.
LoanInv ==
  /\ user \in [careful : BOOLEAN, confined : BOOLEAN] /\ ended \in BOOLEAN
  /\ user.careful => (user.confined => ~ended) /\ (~ended => LoanParts)

\* LoanedMessage counts as FiniteSets does.
LEMMA CardinalityOfL == \A S : L!Cardinality(S) = Cardinality(S)
BY DEF L!Cardinality, Cardinality

\* Without keeps the order of what stays; here it matters that it keeps all of it, once.
LEMMA WithoutKeeps ==
  ASSUME NEW S, NEW q \in Seq(S), NEW gone
  PROVE  /\ L!Without(q, gone) \in Seq(S)
         /\ {L!Without(q, gone)[k] : k \in DOMAIN L!Without(q, gone)} = {q[i] : i \in DOMAIN q} \ gone
         /\ (\A i, j \in DOMAIN q : q[i] = q[j] => i = j)
              => \A i, j \in DOMAIN L!Without(q, gone) :
                   L!Without(q, gone)[i] = L!Without(q, gone)[j] => i = j
<1> DEFINE kept == {i \in DOMAIN q : q[i] \notin gone}
           n == Cardinality(kept)
           upto(i) == {j \in kept : j <= i}
           place == [i \in kept |-> Cardinality(upto(i))]
           w == L!Without(q, gone)
           pick(k) == CHOOSE i \in kept : place[i] = k
<1>1. DOMAIN q = 1 .. Len(q) /\ Len(q) \in Nat /\ kept \subseteq Nat
  OBVIOUS
<1>2. IsFiniteSet(kept) /\ n \in Nat
  <2>1. IsFiniteSet(1 .. Len(q)) /\ kept \in SUBSET (1 .. Len(q))
    BY <1>1, FS_Interval
  <2> HIDE DEF kept
  <2> QED BY <2>1, FS_Subset, FS_CardinalityType
<1>3. \A i \in kept : IsFiniteSet(upto(i)) /\ Cardinality(upto(i)) \in 1 .. n
  <2> TAKE i \in kept
  <2>1. upto(i) \in SUBSET kept /\ i \in upto(i)
    BY <1>1
  <2> HIDE DEF kept, upto
  <2>2. IsFiniteSet(upto(i)) /\ Cardinality(upto(i)) \in Nat /\ Cardinality(upto(i)) <= n
    BY <1>2, <2>1, FS_Subset, FS_CardinalityType
  <2>3. Cardinality(upto(i)) # 0
    BY <2>1, <2>2, FS_EmptySet
  <2> QED BY <1>2, <2>2, <2>3
<1>4. \A i, j \in kept : place[i] = place[j] => i = j
  <2>1. ASSUME NEW i \in kept, NEW j \in kept, i < j PROVE place[i] # place[j]
    <3>1. upto(i) \in SUBSET upto(j) /\ j \in upto(j) /\ j \notin upto(i)
      BY <1>1, <2>1
    <3> HIDE DEF upto
    <3>2. Cardinality(upto(i)) # Cardinality(upto(j))
      BY <1>3, <2>1, <3>1, FS_Subset
    <3> QED BY <2>1, <3>2
  <2> HIDE DEF place
  <2> QED BY <1>1, <2>1
<1>5. \A k \in 1 .. n : \E i \in kept : place[i] = k
  <2>1. place \in Injection(kept, 1 .. n)
    <3>1. place \in [kept -> 1 .. n]
      BY <1>3
    <3> HIDE DEF place, kept, n
    <3> QED BY <1>4, <3>1 DEF Injection, IsInjective
  <2>2. IsFiniteSet(1 .. n) /\ Cardinality(1 .. n) = n
    <3> HIDE DEF n
    <3>1. 1 \in Int /\ n \in Int
      BY <1>2
    <3>2. IsFiniteSet(1 .. n) /\ Cardinality(1 .. n) = IF 1 > n THEN 0 ELSE n - 1 + 1
      BY <3>1, FS_Interval
    <3> QED BY <1>2, <3>2
  <2>3. place \in Surjection(kept, 1 .. n)
    <3> HIDE DEF place, kept
    <3> QED BY <2>1, <2>2, FS_Injection
  <2> HIDE DEF place, kept, n
  <2> QED BY <2>3 DEF Surjection
<1>6. \A k \in 1 .. n : pick(k) \in kept /\ place[pick(k)] = k
  <2> HIDE DEF place, kept, n
  <2> QED BY <1>5
<1>7. w = [k \in 1 .. n |-> q[pick(k)]]
  <2> DEFINE other(k) == CHOOSE i \in kept : L!Cardinality(upto(i)) = k
  <2>1. w = [k \in 1 .. L!Cardinality(kept) |-> q[other(k)]]
    BY DEF L!Without
  <2>2. L!Cardinality(kept) = n
    BY CardinalityOfL
  <2>3. \A k : other(k) = pick(k)
    <3> TAKE k
    <3>1. \A i \in kept : place[i] = L!Cardinality(upto(i))
      BY CardinalityOfL
    <3> HIDE DEF place, kept, upto
    <3> QED BY <3>1
  <2> HIDE DEF w, pick, other, kept, n
  <2> QED BY <2>1, <2>2, <2>3
<1>8. w \in Seq(S) /\ DOMAIN w = 1 .. n
  <2>0. \A i \in kept : q[i] \in S
    BY <1>1
  <2>1. \A k \in 1 .. n : q[pick(k)] \in S
    <3> HIDE DEF pick, kept, n
    <3> QED BY <1>6, <2>0
  <2> HIDE DEF w, pick, kept, n
  <2>2. w \in [1 .. n -> S]
    BY <1>7, <2>1
  <2> QED BY <1>2, <1>7, <2>2
<1>9. \A i \in kept : i = pick(place[i]) /\ place[i] \in 1 .. n
  <2> TAKE i \in kept
  <2>1. place[i] \in 1 .. n
    BY <1>3
  <2> HIDE DEF pick, place, kept, n
  <2> QED BY <1>4, <1>6, <2>1
<1>10. {w[k] : k \in DOMAIN w} = {q[i] : i \in DOMAIN q} \ gone
  <2>1. \A k \in 1 .. n : w[k] = q[pick(k)]
    <3> HIDE DEF w, pick, n
    <3> QED BY <1>7
  <2>2. {q[i] : i \in DOMAIN q} \ gone = {q[i] : i \in kept}
    OBVIOUS
  <2> HIDE DEF w, pick, place, kept, n
  <2> QED BY <1>6, <1>8, <1>9, <2>1, <2>2
<1>11. ASSUME \A i, j \in DOMAIN q : q[i] = q[j] => i = j
       PROVE  \A i, j \in DOMAIN w : w[i] = w[j] => i = j
  <2>1. \A k \in 1 .. n : w[k] = q[pick(k)] /\ pick(k) \in DOMAIN q
    <3>1. \A k \in 1 .. n : pick(k) \in DOMAIN q
      BY <1>6
    <3> HIDE DEF w, pick, n
    <3> QED BY <1>7, <3>1
  <2> HIDE DEF w, pick, place, kept, n
  <2> QED BY <1>6, <1>8, <1>11, <2>1
<1> QED BY <1>8, <1>10, <1>11

\* One more pointer of a thread to a message.
LEMMA PointerMade ==
  ASSUME NEW h \in PointerCountings, NEW t \in Threads, NEW c \in L!Loans,
         NEW g \in PointerCountings, g[t][c] = h[t][c] + 1,
         \A v \in Threads : \A d \in L!Loans : v # t \/ d # c => g[v][d] = h[v][d],
         IsFiniteSet(PointersIn(h, c))
  PROVE  /\ IsFiniteSet(PointersIn(g, c))
         /\ Cardinality(PointersIn(g, c)) = Cardinality(PointersIn(h, c)) + 1
         /\ \A d \in L!Loans \ {c} : PointersIn(g, d) = PointersIn(h, d)
<1> DEFINE x == <<t, h[t][c] + 1>>
<1>1. \A v \in Threads : \A i \in Nat \ {0} :
        i <= g[v][c] <=> i <= h[v][c] \/ (v = t /\ i = h[t][c] + 1)
  <2> TAKE v \in Threads
  <2>1. h[v][c] \in Nat /\ h[t][c] \in Nat
    BY DEF PointerCountings
  <2>2. CASE v = t
    BY <2>1, <2>2
  <2>3. CASE v # t
    BY <2>3
  <2> QED BY <2>2, <2>3
<1>2. PointersIn(g, c) = PointersIn(h, c) \cup {x} /\ x \notin PointersIn(h, c)
  BY <1>1 DEF PointersIn, PointerCountings
<1>3. \A d \in L!Loans \ {c} : PointersIn(g, d) = PointersIn(h, d)
  BY DEF PointersIn, PointerCountings
<1> HIDE DEF x
<1>4. IsFiniteSet(PointersIn(g, c)) /\ Cardinality(PointersIn(g, c)) = Cardinality(PointersIn(h, c)) + 1
  <2> DEFINE P == PointersIn(h, c)
  <2>1. IsFiniteSet(P)
    OBVIOUS
  <2> HIDE DEF P
  <2>2. /\ IsFiniteSet(P \cup {x})
        /\ Cardinality(P \cup {x}) = IF x \in P THEN Cardinality(P) ELSE Cardinality(P) + 1
    BY <2>1, FS_AddElement, Zenon
  <2> QED BY <1>2, <2>2 DEF P
<1> QED BY <1>3, <1>4

\* One pointer of a thread to a message less.
LEMMA PointerDropped ==
  ASSUME NEW h \in PointerCountings, NEW t \in Threads, NEW c \in L!Loans,
         NEW g \in PointerCountings, g[t][c] = h[t][c] - 1,
         \A v \in Threads : \A d \in L!Loans : v # t \/ d # c => g[v][d] = h[v][d],
         IsFiniteSet(PointersIn(h, c)), h[t][c] > 0
  PROVE  /\ IsFiniteSet(PointersIn(g, c))
         /\ Cardinality(PointersIn(h, c)) \in Nat /\ Cardinality(PointersIn(h, c)) > 0
         /\ Cardinality(PointersIn(g, c)) = Cardinality(PointersIn(h, c)) - 1
         /\ \A d \in L!Loans \ {c} : PointersIn(g, d) = PointersIn(h, d)
<1> DEFINE x == <<t, h[t][c]>>
<1>1. \A v \in Threads : \A i \in Nat \ {0} :
        i <= g[v][c] <=> i <= h[v][c] /\ ~(v = t /\ i = h[t][c])
  <2> TAKE v \in Threads
  <2>1. h[v][c] \in Nat /\ h[t][c] \in Nat
    BY DEF PointerCountings
  <2>2. CASE v = t
    BY <2>1, <2>2
  <2>3. CASE v # t
    BY <2>3
  <2> QED BY <2>2, <2>3
<1>2. PointersIn(g, c) = PointersIn(h, c) \ {x} /\ x \in PointersIn(h, c)
  BY <1>1 DEF PointersIn, PointerCountings
<1>3. \A d \in L!Loans \ {c} : PointersIn(g, d) = PointersIn(h, d)
  BY DEF PointersIn, PointerCountings
<1> HIDE DEF x
<1>4. /\ IsFiniteSet(PointersIn(g, c))
      /\ Cardinality(PointersIn(g, c)) = Cardinality(PointersIn(h, c)) - 1
      /\ Cardinality(PointersIn(h, c)) \in Nat /\ Cardinality(PointersIn(h, c)) > 0
  <2>1. Cardinality(PointersIn(h, c)) \in Nat /\ Cardinality(PointersIn(h, c)) # 0
    BY <1>2, FS_CardinalityType, FS_EmptySet
  <2>2. /\ IsFiniteSet(PointersIn(g, c))
        /\ Cardinality(PointersIn(g, c)) = Cardinality(PointersIn(h, c)) - 1
    BY <1>2, FS_RemoveElement, Zenon
  <2> QED BY <2>1, <2>2
<1> QED BY <1>3, <1>4

\* Messages are numbered in the order in which they are borrowed.
LEMMA MadeAreLoans ==
  ASSUME LoanTypes
  PROVE  /\ L!Made = 1 .. Len(block) /\ L!Loans = 1 .. MaxLoans /\ L!Made \subseteq L!Loans
         /\ Len(block) \in Nat /\ MaxLoans \in Nat
         /\ \A c \in L!Made : block[c] \in ControlBlocks
<1>1. block \in Seq(ControlBlocks) /\ Len(block) <= MaxLoans /\ MaxLoans \in Nat
  BY LoanAssumption DEF LoanTypes
<1>2. DOMAIN block = 1 .. Len(block) /\ Len(block) \in Nat /\ \A c \in DOMAIN block : block[c] \in ControlBlocks
  BY <1>1
<1> QED BY <1>1, <1>2 DEF L!Made, L!Loans

\* A pointer counts.
LEMMA PointerCounts ==
  ASSUME LoanParts, NEW t \in Threads, NEW c \in L!Made, handles[t][c] > 0
  PROVE  block[c].count \in Nat /\ block[c].count > 0
<1>1. handles \in PointerCountings
  BY DEF LoanParts, LoanTypes
<1>2. c \in L!Loans
  BY MadeAreLoans DEF LoanParts
<1>3. IsFiniteSet(PointersIn(handles, c)) /\ Cardinality(PointersIn(handles, c)) = block[c].count
  BY DEF LoanParts, LoanCounts, Pointers
<1>4. <<t, handles[t][c]>> \in PointersIn(handles, c)
  BY <1>1, <1>2 DEF PointersIn, PointerCountings
<1>5. Cardinality(PointersIn(handles, c)) \in Nat /\ Cardinality(PointersIn(handles, c)) # 0
  BY <1>3, <1>4, FS_CardinalityType, FS_EmptySet
<1> QED BY <1>3, <1>5

\* The loans of a thread are finitely many.
LEMMA UnreturnedFinite == LoanTypes => \A t : IsFiniteSet(L!Unreturned(t)) /\ Cardinality(L!Unreturned(t)) \in Nat
<1> SUFFICES ASSUME LoanTypes, NEW t
             PROVE  IsFiniteSet(L!Unreturned(t)) /\ Cardinality(L!Unreturned(t)) \in Nat
  OBVIOUS
<1>1. IsFiniteSet(L!Made)
  <2>1. L!Made = 1 .. Len(block) /\ 1 \in Int /\ Len(block) \in Int
    BY MadeAreLoans
  <2> QED BY <2>1, FS_Interval
<1>2. L!Unreturned(t) \in SUBSET L!Made
  BY DEF L!Unreturned
<1> QED BY <1>1, <1>2, FS_Subset, FS_CardinalityType

\* What it means that only the control block of c changes.
Reblocked(c, r) ==
  /\ block' \in Seq(ControlBlocks) /\ Len(block') = Len(block) /\ L!Made' = L!Made
  /\ block'[c] = r
  /\ \A d \in L!Made \ {c} : block'[d] = block[d]

LEMMA BlockChanges ==
  ASSUME LoanTypes, NEW c \in L!Made, NEW r \in ControlBlocks, block' = [block EXCEPT ![c] = r]
  PROVE  Reblocked(c, r)
<1>1. block \in Seq(ControlBlocks) /\ c \in DOMAIN block
  BY DEF LoanTypes, L!Made
<1>2. block' \in Seq(ControlBlocks) /\ Len(block') = Len(block) /\ DOMAIN block' = DOMAIN block
  BY <1>1
<1> QED BY <1>1, <1>2 DEF Reblocked, L!Made

\* A step of the subscribers or of a publisher's creation changes none of what the
\* invariant is about.
LEMMA LoanPartsStutter ==
  ASSUME LoanParts, UNCHANGED <<user, loans, block, handles, memory, contents, tree, work>>
  PROVE  LoanParts'
<1>0. L!Made' = L!Made /\ \A c : Pointers(c)' = Pointers(c)
  BY DEF L!Made, Pointers, PointersIn
<1>1. LoanTypes' /\ LoanCounts' /\ LoanSteps'
  <2>1. LoanTypes'
    BY DEF LoanParts, LoanTypes
  <2>2. LoanCounts'
    BY <1>0 DEF LoanParts, LoanCounts
  <2>3. LoanSteps'
    BY <1>0 DEF LoanParts, LoanSteps
  <2> QED BY <2>1, <2>2, <2>3
<1>2. L!InTree' = L!InTree
  BY DEF L!InTree
<1>3. LoanOwners'
  BY <1>2 DEF LoanParts, LoanOwners, L!OneOwner, L!Made, L!InHand
<1>4. \A t : L!Unreturned(t)' = L!Unreturned(t)
  BY DEF L!Unreturned, L!Made
<1>5. user'.confined => LoanReturns'
  BY <1>4 DEF LoanParts, LoanReturns, L!Made
<1> QED BY <1>1, <1>3, <1>5 DEF LoanParts

\* A message is borrowed, by a program or at the start of GenericPublisher::publish().
LEMMA LendSafe ==
  ASSUME LoanParts, NEW t \in Threads, NEW p \in Loaners, L!Lend(t, p), UNCHANGED <<user, tree>>,
         NEW step1 \in {"publish", "cancel"},
         work' = work \/ work' = [work EXCEPT ![t] = L!Working(step1, Len(block) + 1, {})]
  PROVE  LoanParts'
<1> DEFINE r == L!control_block(p, t)
<1>c. PICK c : c = Len(block) + 1
  OBVIOUS
<1>0. LoanTypes /\ LoanCounts /\ LoanSteps /\ LoanOwners
  BY DEF LoanParts
<1>1. /\ c \in L!Loans /\ c \notin L!Made /\ r \in ControlBlocks /\ work[t] = L!Rest
      /\ r.by = t /\ r.valid = TRUE /\ r.count = 1
  BY <1>0, <1>c, MadeAreLoans DEF L!Lend, ControlBlocks, L!control_block
<1>2. /\ block' \in Seq(ControlBlocks) /\ Len(block') = c /\ Len(block') <= MaxLoans
      /\ L!Made' = L!Made \cup {c} /\ block'[c] = r
      /\ \A d \in L!Made : block'[d] = block[d]
  <2>1. block \in Seq(ControlBlocks) /\ block' = Append(block, r)
    BY <1>0 DEF LoanTypes, L!Lend
  <2>2. /\ block' \in Seq(ControlBlocks) /\ Len(block') = Len(block) + 1 /\ block'[Len(block) + 1] = r
        /\ DOMAIN block' = 1 .. (Len(block) + 1) /\ \A d \in DOMAIN block : block'[d] = block[d]
    BY <1>1, <2>1
  <2>3. L!Made' = L!Made \cup {c}
    BY <1>0, <1>c, <2>2, MadeAreLoans DEF L!Made
  <2> QED BY <1>0, <1>1, <1>c, <2>2, <2>3, MadeAreLoans DEF L!Made
<1> HIDE DEF r
<1>3. /\ loans' = [loans EXCEPT ![t] = @ + 1] /\ handles' = [handles EXCEPT ![t][c] = 1]
      /\ memory' = [memory EXCEPT ![c] = "loaned"] /\ contents' = [contents EXCEPT ![c] = {"shared"}]
      /\ tree' = tree /\ user' = user
      /\ work' = work \/ work' = [work EXCEPT ![t] = L!Working(step1, c, {})]
  <2>1. loans' = [loans EXCEPT ![t] = @ + 1] /\ loans'[t] > 0
    <3>1. loans' = [loans EXCEPT ![t] = @ + 1]
      BY DEF L!Lend
    <3>2. loans \in [Threads -> Nat]
      BY <1>0 DEF LoanTypes
    <3> QED BY <3>1, <3>2
  <2>2. contents' = [contents EXCEPT ![c] = {L!Placed(loans'[t])}] /\ L!Placed(loans'[t]) = "shared"
    BY <1>c, <2>1 DEF L!Lend, L!Placed
  <2> QED BY <1>c, <2>1, <2>2 DEF L!Lend
<1>4. \A u \in Threads : handles[u][c] = 0
  BY <1>0, <1>1 DEF LoanCounts
<1>5. L!Made \subseteq L!Loans
  BY <1>0, MadeAreLoans
<1>h. handles \in PointerCountings
  BY <1>0 DEF LoanTypes
<1>w. \A u \in Threads : work[u] \in LoanWork
  BY <1>0 DEF LoanTypes
<1>n. /\ memory'[c] = "loaned" /\ contents'[c] = {"shared"}
      /\ \A d \in L!Loans \ {c} : memory'[d] = memory[d] /\ contents'[d] = contents[d]
  BY <1>0, <1>1, <1>3 DEF LoanTypes
<1>k. /\ handles'[t][c] = 1
      /\ \A d \in L!Loans \ {c} : \A u \in Threads : handles'[u][d] = handles[u][d]
      /\ \A u \in Threads \ {t} : handles'[u][c] = 0
  BY <1>1, <1>3, <1>4, <1>h DEF PointerCountings
<1>6. LoanTypes'
  <2>1. work' \in [Threads -> LoanWork]
    <3>1. L!Working(step1, c, {}) \in LoanWork
      BY <1>1 DEF L!Working, L!Loans, LoanWork
    <3> QED BY <1>0, <1>3, <3>1 DEF LoanTypes
  <2>2. loans' \in [Threads -> Nat] /\ tree' \in Seq(L!Loans)
    <3>1. loans \in [Threads -> Nat] /\ tree \in Seq(L!Loans)
      BY <1>0 DEF LoanTypes
    <3> QED BY <1>3, <3>1
  <2>3. handles' \in PointerCountings
    BY <1>1, <1>3, <1>h DEF PointerCountings
  <2>4. /\ memory' \in [L!Loans -> {"none", "loaned", "published", "freed", "freed twice", "left"}]
        /\ contents' \in [L!Loans -> SUBSET {"shared", "heap"}]
    BY <1>0, <1>1, <1>3 DEF LoanTypes
  <2> QED BY <1>2, <2>1, <2>2, <2>3, <2>4 DEF LoanTypes
<1>7. LoanCounts'
  <2>1. Pointers(c)' = {<<t, 1>>}
    <3>1. \A x \in Threads \X (Nat \ {0}) : x[2] <= handles'[x[1]][c] <=> x = <<t, 1>>
      <4> SUFFICES ASSUME NEW u \in Threads, NEW i \in Nat \ {0}
                   PROVE  i <= handles'[u][c] <=> u = t /\ i = 1
        OBVIOUS
      <4> QED BY <1>k
    <3>2. <<t, 1>> \in Threads \X (Nat \ {0})
      OBVIOUS
    <3>3. \A x : x \in Pointers(c)' <=> x \in {<<t, 1>>}
      <4>1. \A x : x \in Pointers(c)' <=> x \in Threads \X (Nat \ {0}) /\ x[2] <= handles'[x[1]][c]
        BY DEF Pointers, PointersIn
      <4> QED BY <3>1, <3>2, <4>1, Zenon
    <3> QED BY <3>3, Zenon
  <2>2. \A d \in L!Made : Pointers(d)' = Pointers(d)
    BY <1>1, <1>5, <1>k DEF Pointers, PointersIn
  <2>3. IsFiniteSet(Pointers(c)') /\ Cardinality(Pointers(c)') = 1
    BY <2>1, FS_Singleton
  <2>4. \A d \in L!Loans \ L!Made' : memory'[d] = "none" /\ \A u \in Threads : handles'[u][d] = 0
    BY <1>0, <1>1, <1>2, <1>k, <1>n DEF LoanCounts
  <2>5. \A d \in L!Made' : IsFiniteSet(Pointers(d)') /\ Cardinality(Pointers(d)') = block'[d].count
    <3>1. \A d \in L!Made : IsFiniteSet(Pointers(d)) /\ Cardinality(Pointers(d)) = block[d].count
      BY <1>0 DEF LoanCounts
    <3> SUFFICES ASSUME NEW d \in L!Made \cup {c}
                 PROVE  IsFiniteSet(Pointers(d)') /\ Cardinality(Pointers(d)') = block'[d].count
      BY <1>2
    <3>2. CASE d = c
      BY <1>1, <1>2, <2>3, <3>2 DEF Pointers
    <3>3. CASE d # c
      BY <1>2, <2>2, <3>1, <3>3
    <3> QED BY <3>2, <3>3
  <2> QED BY <2>4, <2>5 DEF LoanCounts
<1>8. \A u \in Threads : work[u].loan # c /\ c \notin work[u].todo /\ work[t].todo = {} /\ work[t].step = "idle"
  <2>1. \A u \in Threads : c \notin work[u].todo
    BY <1>0, <1>1 DEF LoanOwners, LoanCounts
  <2>2. c # 0
    BY <1>1, MadeAreLoans, <1>0
  <2>3. work[t].todo = {} /\ work[t].step = "idle"
    BY <1>1 DEF L!Rest
  <2>4. \A u \in Threads : work[u].loan # c
    <3>1. \A u \in Threads : work[u].step = "idle" => work[u].loan = 0
      BY <1>0 DEF LoanSteps, L!Rest
    <3>2. \A u \in Threads : work[u].step # "idle" => work[u].loan \in L!Made
      BY <1>0 DEF LoanSteps
    <3> QED BY <1>1, <2>2, <3>1, <3>2
  <2> QED BY <2>1, <2>3, <2>4
<1>9. LoanSteps'
  <2> SUFFICES ASSUME NEW u \in Threads
               PROVE  /\ work'[u].step = "idle" => work'[u] = L!Rest
                      /\ work'[u].step # "idle" =>
                           /\ work'[u].loan \in L!Made' /\ handles'[u][work'[u].loan] > 0
                           /\ block'[work'[u].loan].valid <=> work'[u].step \in {"publish", "cancel"}
                           /\ \A v \in Threads \ {u} : work'[v].loan # work'[u].loan
                      /\ work'[u].todo # {} => work'[u].step = "delete"
    BY DEF LoanSteps
  <2>1. \A v \in Threads : work[v].step # "idle" => handles'[v][work[v].loan] > 0
    BY <1>0, <1>1, <1>5, <1>k DEF LoanSteps
  <2>2. \A v \in Threads : work[v].step # "idle" => block'[work[v].loan] = block[work[v].loan]
    BY <1>0, <1>2 DEF LoanSteps
  <2>3. CASE work' = work
    BY <1>0, <1>2, <2>1, <2>2, <2>3 DEF LoanSteps
  <2>4. CASE work' = [work EXCEPT ![t] = L!Working(step1, c, {})]
    <3>1. /\ work'[t].step = step1 /\ work'[t].loan = c /\ work'[t].todo = {}
          /\ \A v \in Threads \ {t} : work'[v] = work[v]
      BY <1>0, <2>4 DEF LoanTypes, L!Working
    <3>2. CASE u = t
      <4>1. handles'[t][c] > 0
        BY <1>k
      <4> QED BY <1>1, <1>2, <1>8, <3>1, <3>2, <4>1
    <3>3. CASE u # t
      BY <1>0, <1>2, <1>8, <2>1, <2>2, <3>1, <3>3 DEF LoanSteps
    <3> QED BY <3>2, <3>3
  <2> QED BY <1>3, <2>3, <2>4
<1>10. /\ \A u \in Threads : work'[u].todo = work[u].todo
       /\ \A u \in Threads : work'[u].step \in {"ioctl", "deleter"} <=> work[u].step \in {"ioctl", "deleter"}
       /\ \A u \in Threads : work'[u].step \in {"ioctl", "deleter"} => work'[u].loan = work[u].loan
  <2>1. CASE work' = work
    BY <2>1
  <2>2. CASE work' = [work EXCEPT ![t] = L!Working(step1, c, {})]
    <3>1. /\ work'[t].step = step1 /\ work'[t].loan = c /\ work'[t].todo = {}
          /\ \A v \in Threads \ {t} : work'[v] = work[v]
      BY <1>0, <2>2 DEF LoanTypes, L!Working
    <3> QED BY <1>8, <3>1
  <2> QED BY <1>3, <2>1, <2>2
<1>11. \A d \in L!Loans \ {c} : memory'[d] = memory[d]
  BY <1>n
<1>12. L!InTree' = L!InTree /\ L!InTree \subseteq L!Loans \ {c}
  <2>1. L!InTree \subseteq L!Loans
    <3>1. tree \in Seq(L!Loans)
      BY <1>0 DEF LoanTypes
    <3>2. \A i \in DOMAIN tree : tree[i] \in L!Loans
      BY <3>1
    <3> QED BY <3>2 DEF L!InTree
  <2>2. c \notin L!InTree
    BY <1>0, <1>1 DEF LoanOwners, L!OneOwner, LoanCounts
  <2> QED BY <1>3, <2>1, <2>2 DEF L!InTree
<1>13. \A d \in L!Made : L!InHand(d)' <=> L!InHand(d)
  BY <1>10 DEF L!InHand
<1>14. L!OneOwner'
  <2>1. \A m \in L!InTree' : memory'[m] = "published" /\ \A u \in Threads : m \notin work'[u].todo
    BY <1>0, <1>10, <1>11, <1>12 DEF LoanOwners, L!OneOwner
  <2>2. \A i, j \in DOMAIN tree' : tree'[i] = tree'[j] => i = j
    BY <1>0, <1>3 DEF LoanOwners, L!OneOwner
  <2>3. \A d \in L!Made :
          /\ memory'[d] # "freed twice"
          /\ block'[d].valid /\ block'[d].count > 0 => memory'[d] = "loaned"
          /\ memory'[d] = "loaned" => L!InHand(d)' \/ (block'[d].valid /\ block'[d].count > 0)
          /\ memory'[d] = "published" => (d \in L!InTree' \/ \E u \in Threads : d \in work'[u].todo)
    <3> TAKE d \in L!Made
    <3>1. memory'[d] = memory[d] /\ block'[d] = block[d]
      BY <1>1, <1>2, <1>5, <1>11
    <3> QED BY <1>0, <1>10, <1>12, <1>13, <3>1 DEF LoanOwners, L!OneOwner
  <2>4. memory'[c] = "loaned" /\ block'[c].valid /\ block'[c].count > 0
    BY <1>1, <1>2, <1>n
  <2> QED BY <1>2, <2>1, <2>2, <2>3, <2>4 DEF L!OneOwner
<1>15. LoanOwners'
  <2>1. \A u \in Threads : work[u].step \in {"ioctl", "deleter"} => work[u].loan \in L!Loans \ {c}
    BY <1>0, <1>1, <1>5 DEF LoanSteps
  <2>2. \A u \in Threads : work[u].todo \subseteq L!Loans \ {c}
    BY <1>8, <1>w DEF LoanWork
  <2> QED BY <1>0, <1>10, <1>11, <1>14, <2>1, <2>2 DEF LoanOwners
<1>16. user'.confined => LoanReturns'
  <2> SUFFICES ASSUME LoanReturns PROVE LoanReturns'
    BY <1>3 DEF LoanParts
  <2>1. L!Unreturned(t)' = L!Unreturned(t) \cup {c} /\ c \notin L!Unreturned(t)
    BY <1>1, <1>2 DEF L!Unreturned
  <2>2. \A u \in Threads \ {t} : L!Unreturned(u)' = L!Unreturned(u)
    BY <1>1, <1>2 DEF L!Unreturned
  <2>3. \A u \in Threads : loans'[u] = Cardinality(L!Unreturned(u)')
    <3>1. Cardinality(L!Unreturned(t)') = Cardinality(L!Unreturned(t)) + 1
      BY <1>0, <2>1, UnreturnedFinite, FS_AddElement
    <3> QED BY <1>0, <1>3, <2>2, <3>1 DEF LoanReturns, LoanTypes
  <2>4. \A d \in L!Made' : contents'[d] = {"shared"}
    BY <1>1, <1>2, <1>5, <1>n DEF LoanReturns
  <2>5. \A u \in Threads : work'[u].step \in {"publish", "cancel"} => block'[work'[u].loan].by = u
    <3>1. \A u \in Threads : work[u].step # "idle" => block'[work[u].loan] = block[work[u].loan]
      BY <1>0, <1>2 DEF LoanSteps
    <3>2. block'[c].by = t
      BY <1>1, <1>2
    <3>3. CASE work' = work
      BY <3>1, <3>3 DEF LoanReturns
    <3>4. CASE work' = [work EXCEPT ![t] = L!Working(step1, c, {})]
      <4>1. work'[t].loan = c /\ \A v \in Threads \ {t} : work'[v] = work[v]
        BY <1>0, <3>4 DEF LoanTypes, L!Working
      <4> QED BY <3>1, <3>2, <4>1 DEF LoanReturns
    <3> QED BY <1>3, <3>3, <3>4
  <2> QED BY <2>3, <2>4, <2>5 DEF LoanReturns
<1> QED BY <1>6, <1>7, <1>9, <1>15, <1>16 DEF LoanParts

\* Who owns a message does not change with the number of pointers to it.
LEMMA OwnersKept ==
  ASSUME LoanOwners, UNCHANGED <<memory, tree>>, L!Made' = L!Made,
         \A d \in L!Made : block'[d].valid = block[d].valid,
         \A d \in L!Made : block[d].valid => (block'[d].count > 0 <=> block[d].count > 0),
         \A u \in Threads : work'[u].todo = work[u].todo,
         \A u \in Threads : work'[u].step \in {"ioctl", "deleter"} <=> work[u].step \in {"ioctl", "deleter"},
         \A u \in Threads : work[u].step \in {"ioctl", "deleter"} => work'[u].loan = work[u].loan
  PROVE  LoanOwners'
<1>1. L!InTree' = L!InTree
  BY DEF L!InTree
<1>2. \A d \in L!Made : L!InHand(d)' <=> L!InHand(d)
  BY DEF L!InHand
<1>3. L!OneOwner'
  <2>1. \A m \in L!InTree' : memory'[m] = "published" /\ \A u \in Threads : m \notin work'[u].todo
    BY <1>1 DEF LoanOwners, L!OneOwner
  <2>2. \A i, j \in DOMAIN tree' : tree'[i] = tree'[j] => i = j
    BY DEF LoanOwners, L!OneOwner
  <2>3. \A d \in L!Made :
          /\ memory'[d] # "freed twice"
          /\ block'[d].valid /\ block'[d].count > 0 => memory'[d] = "loaned"
          /\ memory'[d] = "loaned" => L!InHand(d)' \/ (block'[d].valid /\ block'[d].count > 0)
          /\ memory'[d] = "published" => (d \in L!InTree' \/ \E u \in Threads : d \in work'[u].todo)
    BY <1>1, <1>2 DEF LoanOwners, L!OneOwner
  <2> QED BY <2>1, <2>2, <2>3 DEF L!OneOwner
<1> QED BY <1>3 DEF LoanOwners

\* Nor does the number of loans of a thread.
LEMMA ReturnsKept ==
  ASSUME LoanReturns, UNCHANGED loans, L!Made' = L!Made,
         \A d \in L!Made : block'[d].valid = block[d].valid /\ block'[d].by = block[d].by,
         \A d \in L!Made : block[d].valid => (block'[d].count > 0 <=> block[d].count > 0),
         \A d \in L!Made : contents'[d] = {"shared"},
         \A u \in Threads : work'[u].step \in {"publish", "cancel"} =>
                              work'[u].loan \in L!Made /\ block[work'[u].loan].by = u
  PROVE  LoanReturns'
<1>1. \A u : L!Unreturned(u)' = L!Unreturned(u)
  BY DEF L!Unreturned
<1> QED BY <1>1 DEF LoanReturns

\* The steps of publish() and cancel_message() as the other threads leave them.
LEMMA StepsKept ==
  ASSUME LoanSteps, UNCHANGED work, L!Made' = L!Made,
         \A d \in L!Made : block'[d].valid = block[d].valid,
         \A u \in Threads : work[u].step # "idle" => handles'[u][work[u].loan] > 0
  PROVE  LoanSteps'
BY DEF LoanSteps

\* The pointers to one message and its count change together.
LEMMA CountsFollow ==
  ASSUME LoanTypes, LoanCounts, NEW c \in L!Made, NEW r, Reblocked(c, r),
         IsFiniteSet(PointersIn(handles', c)), Cardinality(PointersIn(handles', c)) = r.count,
         \A d \in L!Loans \ {c} : PointersIn(handles', d) = PointersIn(handles, d),
         \A d \in L!Loans \ {c} : \A u \in Threads : handles'[u][d] = handles[u][d],
         \A d \in L!Loans \ L!Made : memory'[d] = memory[d]
  PROVE  LoanCounts'
<1>1. L!Made' = L!Made /\ L!Made \subseteq L!Loans
  BY MadeAreLoans DEF Reblocked
<1>2. ASSUME NEW d \in L!Made
      PROVE  IsFiniteSet(Pointers(d)') /\ Cardinality(Pointers(d)') = block'[d].count
  <2>1. CASE d = c
    BY <2>1 DEF Pointers, Reblocked
  <2>2. CASE d # c
    <3>1. IsFiniteSet(Pointers(d)) /\ Cardinality(Pointers(d)) = block[d].count
      BY DEF LoanCounts
    <3> QED BY <1>1, <2>2, <3>1 DEF Pointers, Reblocked
  <2> QED BY <2>1, <2>2
<1>3. \A d \in L!Loans \ L!Made : memory'[d] = "none" /\ \A u \in Threads : handles'[u][d] = 0
  BY DEF LoanCounts
<1> QED BY <1>1, <1>2, <1>3 DEF LoanCounts

\* A field is filled in while the message is on loan to the thread.
LEMMA FillSafe ==
  ASSUME user.careful, ~ended, LoanParts, NEW t \in Threads, NEW c \in L!Made, L!Fill(t, c)
  PROVE  ~ended' /\ LoanParts'
<1>0. LoanTypes /\ LoanCounts /\ LoanSteps /\ LoanOwners
  BY DEF LoanParts
<1>1. /\ work[t] = L!Rest /\ handles[t][c] > 0 /\ block[c].valid /\ (user.confined => block[c].by = t)
      /\ contents' = [contents EXCEPT ![c] = @ \cup {L!Placed(loans[t])}]
      /\ UNCHANGED <<user, ended, loans, block, handles, memory, tree, work>>
  BY DEF L!Fill, L!Careful, L!Confined
<1>2. c \in L!Loans /\ L!Made' = L!Made /\ block[c].count > 0
  BY <1>0, <1>1, MadeAreLoans, PointerCounts DEF L!Made
<1>3. L!Placed(loans[t]) \in {"shared", "heap"}
  BY DEF L!Placed
<1>4. LoanTypes'
  <2>1. contents' \in [L!Loans -> SUBSET {"shared", "heap"}]
    <3>1. contents \in [L!Loans -> SUBSET {"shared", "heap"}]
      BY <1>0 DEF LoanTypes
    <3> QED BY <1>1, <1>2, <1>3, <3>1
  <2> QED BY <1>0, <1>1, <2>1 DEF LoanTypes
<1>5. \A d : Pointers(d)' = Pointers(d)
  BY <1>1 DEF Pointers
<1>6. LoanCounts' /\ LoanSteps' /\ LoanOwners'
  <2>1. LoanCounts'
    BY <1>0, <1>1, <1>2, <1>5 DEF LoanCounts
  <2>2. LoanSteps'
    BY <1>0, <1>1, <1>2 DEF LoanSteps
  <2>3. LoanOwners'
    BY <1>0, <1>1, <1>2, OwnersKept
  <2> QED BY <2>1, <2>2, <2>3
<1>7. user'.confined => LoanReturns'
  <2> SUFFICES ASSUME user.confined, LoanReturns PROVE LoanReturns'
    BY <1>1 DEF LoanParts
  <2>1. c \in L!Unreturned(t)
    BY <1>1, <1>2 DEF L!Unreturned
  <2>2. Cardinality(L!Unreturned(t)) # 0
    BY <1>0, <2>1, UnreturnedFinite, FS_EmptySet
  <2>3. L!Placed(loans[t]) = "shared"
    BY <1>0, <2>2, UnreturnedFinite DEF L!Placed, LoanReturns
  <2>4. \A d \in L!Made : contents'[d] = {"shared"}
    <3>1. contents \in [L!Loans -> SUBSET {"shared", "heap"}] /\ L!Made \subseteq L!Loans
      BY <1>0, MadeAreLoans DEF LoanTypes
    <3> QED BY <1>1, <2>3, <3>1 DEF LoanReturns
  <2> QED BY <1>0, <1>1, <1>2, <2>4, ReturnsKept DEF LoanReturns, LoanSteps
<1> QED BY <1>1, <1>4, <1>6, <1>7 DEF LoanParts

\* A pointer is copied.
LEMMA CopyToSafe ==
  ASSUME ~ended, LoanParts, NEW t \in Threads, NEW u \in Threads, NEW c \in L!Made, L!CopyTo(t, u, c)
  PROVE  ~ended' /\ LoanParts'
<1> DEFINE r == [block[c] EXCEPT !.count = @ + 1]
<1>0. LoanTypes /\ LoanCounts /\ LoanSteps /\ LoanOwners /\ c \in L!Loans /\ L!Made \subseteq L!Loans
  BY MadeAreLoans DEF LoanParts
<1>1. /\ work[t] = L!Rest /\ handles[t][c] > 0
      /\ handles' = [handles EXCEPT ![u][c] = @ + 1]
      /\ block' = [block EXCEPT ![c] = r]
      /\ UNCHANGED <<user, ended, loans, contents, memory, tree, work>>
  BY DEF L!CopyTo
<1>2. block[c] \in ControlBlocks /\ block[c].count \in Nat /\ block[c].count > 0
  BY <1>0, <1>1, MadeAreLoans, PointerCounts
<1>3. /\ r \in ControlBlocks /\ r.count = block[c].count + 1 /\ r.valid = block[c].valid
      /\ r.by = block[c].by
  BY <1>2 DEF ControlBlocks
<1> HIDE DEF r
<1>4. Reblocked(c, r)
  BY <1>0, <1>1, <1>3, BlockChanges
<1>5. handles \in PointerCountings
  BY <1>0 DEF LoanTypes
<1>6. IsFiniteSet(PointersIn(handles, c)) /\ Cardinality(PointersIn(handles, c)) = block[c].count
  BY <1>0 DEF LoanCounts, Pointers
<1>7. /\ handles' \in PointerCountings
      /\ IsFiniteSet(PointersIn(handles', c))
      /\ Cardinality(PointersIn(handles', c)) = block[c].count + 1
      /\ \A d \in L!Loans \ {c} : PointersIn(handles', d) = PointersIn(handles, d)
  <2>1. /\ handles' \in PointerCountings /\ handles'[u][c] = handles[u][c] + 1
        /\ \A v \in Threads : \A d \in L!Loans : v # u \/ d # c => handles'[v][d] = handles[v][d]
    BY <1>0, <1>1, <1>5 DEF PointerCountings
  <2>2. c \in L!Loans
    BY <1>0
  <2> QED BY <1>5, <1>6, <2>1, <2>2, PointerMade
<1>8. /\ \A d \in L!Loans \ {c} : \A v \in Threads : handles'[v][d] = handles[v][d]
      /\ \A v \in Threads : handles'[v][c] >= handles[v][c]
  BY <1>0, <1>1, <1>5 DEF PointerCountings
<1>9. /\ L!Made' = L!Made
      /\ \A d \in L!Made : block'[d].valid = block[d].valid /\ block'[d].by = block[d].by
      /\ \A d \in L!Made : block[d].valid => (block'[d].count > 0 <=> block[d].count > 0)
  BY <1>2, <1>3, <1>4 DEF Reblocked
<1>10. LoanTypes'
  BY <1>0, <1>1, <1>4, <1>7 DEF LoanTypes, Reblocked
<1>11. LoanCounts'
  BY <1>0, <1>1, <1>3, <1>4, <1>7, <1>8, CountsFollow
<1>12. LoanSteps'
  <2>1. \A v \in Threads : work[v].step # "idle" => handles'[v][work[v].loan] > 0
    <3> SUFFICES ASSUME NEW v \in Threads, work[v].step # "idle" PROVE handles'[v][work[v].loan] > 0
      OBVIOUS
    <3>1. work[v].loan \in L!Loans /\ handles[v][work[v].loan] > 0
      BY <1>0 DEF LoanSteps
    <3>2. handles'[v][work[v].loan] >= handles[v][work[v].loan]
      BY <1>5, <1>8, <3>1 DEF PointerCountings
    <3> QED BY <1>5, <1>7, <3>1, <3>2 DEF PointerCountings
  <2> QED BY <1>0, <1>1, <1>9, <2>1, StepsKept
<1>13. LoanOwners'
  BY <1>0, <1>1, <1>9, OwnersKept
<1>14. user'.confined => LoanReturns'
  <2> SUFFICES ASSUME LoanReturns PROVE LoanReturns'
    BY <1>1 DEF LoanParts
  <2> QED BY <1>0, <1>1, <1>9, ReturnsKept DEF LoanReturns, LoanSteps
<1> QED BY <1>1, <1>10, <1>11, <1>12, <1>13, <1>14 DEF LoanParts

\* A pointer is moved to another thread.
LEMMA MoveToSafe ==
  ASSUME ~ended, LoanParts, NEW t \in Threads, NEW u \in Threads, NEW c \in L!Made, L!MoveTo(t, u, c)
  PROVE  ~ended' /\ LoanParts'
<1>0. LoanTypes /\ LoanCounts /\ LoanSteps /\ LoanOwners /\ c \in L!Loans
  BY MadeAreLoans DEF LoanParts
<1>1. /\ t # u /\ work[t] = L!Rest /\ handles[t][c] > 0
      /\ handles' = [handles EXCEPT ![t][c] = @ - 1, ![u][c] = @ + 1]
      /\ UNCHANGED <<user, ended, loans, block, contents, memory, tree, work>>
  BY DEF L!MoveTo
<1>2. handles \in PointerCountings
  BY <1>0 DEF LoanTypes
<1>3. IsFiniteSet(PointersIn(handles, c)) /\ Cardinality(PointersIn(handles, c)) = block[c].count
  BY <1>0 DEF LoanCounts, Pointers
<1>4. PICK h : h = [handles EXCEPT ![t][c] = @ - 1]
  OBVIOUS
<1>5. /\ h \in PointerCountings /\ h[t][c] = handles[t][c] - 1
      /\ \A v \in Threads : \A d \in L!Loans : v # t \/ d # c => h[v][d] = handles[v][d]
  BY <1>0, <1>1, <1>2, <1>4 DEF PointerCountings
<1>6. /\ handles' \in PointerCountings /\ handles'[u][c] = h[u][c] + 1
      /\ \A v \in Threads : \A d \in L!Loans : v # u \/ d # c => handles'[v][d] = h[v][d]
  <2>1. handles' = [h EXCEPT ![u][c] = @ + 1]
    BY <1>1, <1>4
  <2> QED BY <1>0, <1>5, <2>1 DEF PointerCountings
<1>7. /\ IsFiniteSet(PointersIn(h, c))
      /\ Cardinality(PointersIn(handles, c)) \in Nat
      /\ Cardinality(PointersIn(h, c)) = Cardinality(PointersIn(handles, c)) - 1
      /\ \A d \in L!Loans \ {c} : PointersIn(h, d) = PointersIn(handles, d)
  BY <1>0, <1>1, <1>2, <1>3, <1>5, PointerDropped
<1>8. /\ IsFiniteSet(PointersIn(handles', c))
      /\ Cardinality(PointersIn(handles', c)) = Cardinality(PointersIn(h, c)) + 1
      /\ \A d \in L!Loans \ {c} : PointersIn(handles', d) = PointersIn(h, d)
  BY <1>0, <1>5, <1>6, <1>7, PointerMade
<1>9. Reblocked(c, block[c])
  BY <1>0, <1>1 DEF Reblocked, LoanTypes, L!Made
<1>10. LoanTypes'
  BY <1>0, <1>1, <1>6 DEF LoanTypes
<1>11. LoanCounts'
  <2>1. Cardinality(PointersIn(handles', c)) = block[c].count
    BY <1>3, <1>7, <1>8
  <2>2. /\ \A d \in L!Loans \ {c} : PointersIn(handles', d) = PointersIn(handles, d)
        /\ \A d \in L!Loans \ {c} : \A v \in Threads : handles'[v][d] = handles[v][d]
        /\ \A d \in L!Loans \ L!Made : memory'[d] = memory[d]
    <3>1. \A d \in L!Loans \ {c} : PointersIn(handles', d) = PointersIn(handles, d)
      BY <1>7, <1>8
    <3>2. \A d \in L!Loans \ {c} : \A v \in Threads : handles'[v][d] = handles[v][d]
      BY <1>5, <1>6
    <3> QED BY <1>1, <3>1, <3>2
  <2> QED BY <1>0, <1>8, <1>9, <2>1, <2>2, CountsFollow
<1>12. LoanSteps'
  <2>1. \A v \in Threads : work[v].step # "idle" => handles'[v][work[v].loan] > 0
    <3> SUFFICES ASSUME NEW v \in Threads, work[v].step # "idle" PROVE handles'[v][work[v].loan] > 0
      OBVIOUS
    <3>1. work[v].loan \in L!Made /\ handles[v][work[v].loan] > 0 /\ v # t
      BY <1>0, <1>1 DEF LoanSteps, L!Rest
    <3>2. PICK d \in L!Loans : d = work[v].loan
      BY <1>0, <3>1, MadeAreLoans
    <3>3. h[v][d] = handles[v][d] /\ h[v][d] \in Nat
      BY <1>5, <3>1 DEF PointerCountings
    <3>4. handles'[v][d] = h[v][d] \/ handles'[v][d] = h[v][d] + 1
      BY <1>6
    <3> QED BY <3>1, <3>2, <3>3, <3>4
  <2> QED BY <1>0, <1>1, <1>9, <2>1, StepsKept DEF Reblocked
<1>13. LoanOwners'
  BY <1>0, <1>1, <1>9, OwnersKept DEF Reblocked
<1>14. user'.confined => LoanReturns'
  <2> SUFFICES ASSUME LoanReturns PROVE LoanReturns'
    BY <1>1 DEF LoanParts
  <2> QED BY <1>0, <1>1, <1>9, ReturnsKept DEF LoanReturns, LoanSteps, Reblocked
<1> QED BY <1>1, <1>10, <1>11, <1>12, <1>13, <1>14 DEF LoanParts

\* What is left when a thread has let go of one of its pointers.
LEMMA UnhandledLeaves ==
  ASSUME LoanParts, NEW t \in Threads, NEW c \in L!Made, handles[t][c] > 0, L!Unhandled(t, c)
  PROVE  /\ handles' \in PointerCountings
         /\ \A v \in Threads : \A d \in L!Loans : v # t \/ d # c => handles'[v][d] = handles[v][d]
         /\ block' \in Seq(ControlBlocks) /\ Len(block') = Len(block) /\ L!Made' = L!Made
         /\ \A d \in L!Made : block'[d].valid = block[d].valid /\ block'[d].by = block[d].by
         /\ \A d \in L!Made \ {c} : block'[d].count = block[d].count
         /\ block[c].count \in Nat /\ block[c].count > 0 /\ block'[c].count = block[c].count - 1
         /\ (\A d \in L!Loans \ L!Made : memory'[d] = memory[d]) => LoanCounts'
<1> DEFINE r == [block[c] EXCEPT !.count = @ - 1]
<1>0. LoanTypes /\ LoanCounts /\ c \in L!Loans
  BY MadeAreLoans DEF LoanParts
<1>1. handles' = [handles EXCEPT ![t][c] = @ - 1] /\ block' = [block EXCEPT ![c] = r]
  BY DEF L!Unhandled
<1>2. block[c] \in ControlBlocks /\ block[c].count \in Nat /\ block[c].count > 0
  BY <1>0, MadeAreLoans, PointerCounts
<1>3. /\ r \in ControlBlocks /\ r.count = block[c].count - 1 /\ r.valid = block[c].valid
      /\ r.by = block[c].by
  BY <1>2 DEF ControlBlocks
<1> HIDE DEF r
<1>4. Reblocked(c, r)
  BY <1>0, <1>1, <1>3, BlockChanges
<1>5. handles \in PointerCountings
  BY <1>0 DEF LoanTypes
<1>6. IsFiniteSet(PointersIn(handles, c)) /\ Cardinality(PointersIn(handles, c)) = block[c].count
  BY <1>0 DEF LoanCounts, Pointers
<1>7. /\ handles' \in PointerCountings /\ handles'[t][c] = handles[t][c] - 1
      /\ \A v \in Threads : \A d \in L!Loans : v # t \/ d # c => handles'[v][d] = handles[v][d]
  BY <1>0, <1>1, <1>5 DEF PointerCountings
<1>8. /\ IsFiniteSet(PointersIn(handles', c))
      /\ Cardinality(PointersIn(handles', c)) = Cardinality(PointersIn(handles, c)) - 1
      /\ \A d \in L!Loans \ {c} : PointersIn(handles', d) = PointersIn(handles, d)
  BY <1>0, <1>5, <1>6, <1>7, PointerDropped
<1>9. ASSUME \A d \in L!Loans \ L!Made : memory'[d] = memory[d]
      PROVE  LoanCounts'
  <2>1. Cardinality(PointersIn(handles', c)) = r.count
    BY <1>3, <1>6, <1>8
  <2>2. \A d \in L!Loans \ {c} : \A v \in Threads : handles'[v][d] = handles[v][d]
    BY <1>7
  <2> QED BY <1>0, <1>4, <1>8, <1>9, <2>1, <2>2, CountsFollow
<1> QED BY <1>2, <1>3, <1>4, <1>7, <1>9 DEF Reblocked

\* A pointer is dropped that is not the last one to an unpublished message.
LEMMA DropOneSafe ==
  ASSUME LoanParts, NEW t \in Threads, NEW c \in L!Made, handles[t][c] > 0, L!Unhandled(t, c),
         ~L!LastUnpublished(c), UNCHANGED <<user, loans, contents, memory, tree>>,
         \/ work[t] = L!Rest /\ work' = work
         \/ work[t].step = "delete" /\ work[t].todo = {} /\ work' = [work EXCEPT ![t] = L!Rest]
  PROVE  LoanParts'
<1>0. LoanTypes /\ LoanCounts /\ LoanSteps /\ LoanOwners /\ L!Made \subseteq L!Loans /\ c \in L!Loans
  BY MadeAreLoans DEF LoanParts
<1>1. /\ handles' \in PointerCountings
      /\ \A v \in Threads : \A d \in L!Loans : v # t \/ d # c => handles'[v][d] = handles[v][d]
      /\ block' \in Seq(ControlBlocks) /\ Len(block') = Len(block) /\ L!Made' = L!Made
      /\ \A d \in L!Made : block'[d].valid = block[d].valid /\ block'[d].by = block[d].by
      /\ \A d \in L!Made \ {c} : block'[d].count = block[d].count
      /\ block[c].count \in Nat /\ block[c].count > 0 /\ block'[c].count = block[c].count - 1
      /\ LoanCounts'
  BY UnhandledLeaves
<1>2. \A d \in L!Made : block[d].valid => (block'[d].count > 0 <=> block[d].count > 0)
  <2>1. block[c].valid => block[c].count # 1
    BY DEF L!LastUnpublished, L!decrement_and_check
  <2> QED BY <1>1, <2>1
<1>3. work \in [Threads -> LoanWork] /\ L!Rest \in LoanWork
  BY <1>0 DEF LoanTypes, LoanWork, L!Rest
<1>4. /\ work' \in [Threads -> LoanWork] /\ work'[t] = L!Rest
      /\ \A v \in Threads \ {t} : work'[v] = work[v]
  BY <1>3
<1>5. LoanTypes'
  BY <1>0, <1>1, <1>4 DEF LoanTypes
<1>6. LoanSteps'
  <2> SUFFICES ASSUME NEW u \in Threads
               PROVE  /\ work'[u].step = "idle" => work'[u] = L!Rest
                      /\ work'[u].step # "idle" =>
                           /\ work'[u].loan \in L!Made' /\ handles'[u][work'[u].loan] > 0
                           /\ block'[work'[u].loan].valid <=> work'[u].step \in {"publish", "cancel"}
                           /\ \A v \in Threads \ {u} : work'[v].loan # work'[u].loan
                      /\ work'[u].todo # {} => work'[u].step = "delete"
    BY DEF LoanSteps
  <2>1. L!Rest.step = "idle" /\ L!Rest.loan = 0 /\ L!Rest.todo = {} /\ 0 \notin L!Made
    BY <1>0, MadeAreLoans DEF L!Rest
  <2>2. CASE u = t
    BY <1>4, <2>1, <2>2
  <2>3. CASE u # t
    <3>1. work'[u] = work[u]
      BY <1>4, <2>3
    <3>2. CASE work[u].step # "idle"
      <4>1. work[u].loan \in L!Made /\ handles[u][work[u].loan] > 0
        BY <1>0, <3>2 DEF LoanSteps
      <4>2. handles'[u][work[u].loan] > 0
        BY <1>0, <1>1, <2>3, <4>1
      <4>3. block'[work[u].loan].valid <=> work[u].step \in {"publish", "cancel"}
        BY <1>0, <1>1, <3>2 DEF LoanSteps
      <4>4. \A v \in Threads \ {u} : work'[v].loan # work[u].loan
        BY <1>0, <1>4, <2>1, <3>2, <4>1 DEF LoanSteps
      <4> QED BY <1>0, <1>1, <3>1, <3>2, <4>1, <4>2, <4>3, <4>4 DEF LoanSteps
    <3>3. CASE work[u].step = "idle"
      BY <1>0, <3>1, <3>3 DEF LoanSteps
    <3> QED BY <3>2, <3>3
  <2> QED BY <2>2, <2>3
<1>7. /\ \A u \in Threads : work'[u].todo = work[u].todo
      /\ \A u \in Threads : work'[u].step \in {"ioctl", "deleter"} <=> work[u].step \in {"ioctl", "deleter"}
      /\ \A u \in Threads : work[u].step \in {"ioctl", "deleter"} => work'[u].loan = work[u].loan
      /\ \A u \in Threads : work'[u].step \in {"publish", "cancel"} =>
                              work'[u] = work[u]
  BY <1>4 DEF L!Rest
<1>8. LoanOwners'
  BY <1>0, <1>1, <1>2, <1>7, OwnersKept
<1>9. user'.confined => LoanReturns'
  <2> SUFFICES ASSUME LoanReturns PROVE LoanReturns'
    BY DEF LoanParts
  <2>1. \A u \in Threads : work'[u].step \in {"publish", "cancel"} =>
                             work'[u].loan \in L!Made /\ block[work'[u].loan].by = u
    BY <1>0, <1>7 DEF LoanReturns, LoanSteps
  <2> QED BY <1>1, <1>2, <2>1, ReturnsKept DEF LoanReturns
<1> QED BY <1>1, <1>5, <1>6, <1>8, <1>9 DEF LoanParts

\* The last pointer to an unpublished message is dropped: the message is freed and the
\* loan returned.
LEMMA DropLastSafe ==
  ASSUME LoanParts, NEW t \in Threads, NEW c \in L!Made, handles[t][c] > 0, L!Unhandled(t, c),
         work[t] = L!Rest, L!LastUnpublished(c), user.confined => block[c].by = t,
         loans[t] # 0, loans' = L!Returned(t), memory' = [memory EXCEPT ![c] = L!Freed(c)],
         UNCHANGED <<user, contents, tree, work>>
  PROVE  LoanParts'
<1>0. /\ LoanTypes /\ LoanCounts /\ LoanSteps /\ LoanOwners /\ L!Made \subseteq L!Loans /\ c \in L!Loans
      /\ loans \in [Threads -> Nat]
      /\ memory \in [L!Loans -> {"none", "loaned", "published", "freed", "freed twice", "left"}]
  BY MadeAreLoans DEF LoanParts, LoanTypes
<1>1. /\ block[c].valid /\ block[c].count = 1 /\ memory[c] = "loaned"
  <2>1. block[c].valid /\ block[c].count = 1
    BY DEF L!LastUnpublished, L!decrement_and_check
  <2>2. block[c].valid /\ block[c].count > 0 => memory[c] = "loaned"
    BY <1>0 DEF LoanOwners, L!OneOwner
  <2> QED BY <2>1, <2>2
<1>2. /\ memory'[c] = "freed" /\ \A d \in L!Loans \ {c} : memory'[d] = memory[d]
      /\ memory' \in [L!Loans -> {"none", "loaned", "published", "freed", "freed twice", "left"}]
  BY <1>0, <1>1 DEF L!Freed
<1>3. /\ loans' \in [Threads -> Nat] /\ loans'[t] = loans[t] - 1
      /\ \A v \in Threads \ {t} : loans'[v] = loans[v]
  <2>1. loans' = [loans EXCEPT ![t] = IF loans[t] = 0 THEN 0 ELSE loans[t] - 1]
    BY DEF L!Returned
  <2>2. loans[t] \in Nat /\ loans[t] - 1 \in Nat
    <3>1. loans[t] \in Nat
      BY <1>0
    <3> QED BY <3>1
  <2>3. loans' = [loans EXCEPT ![t] = loans[t] - 1]
    BY <2>1
  <2> QED BY <1>0, <2>2, <2>3
<1>4. /\ handles' \in PointerCountings
      /\ \A v \in Threads : \A d \in L!Loans : v # t \/ d # c => handles'[v][d] = handles[v][d]
      /\ block' \in Seq(ControlBlocks) /\ Len(block') = Len(block) /\ L!Made' = L!Made
      /\ \A d \in L!Made : block'[d].valid = block[d].valid /\ block'[d].by = block[d].by
      /\ \A d \in L!Made \ {c} : block'[d].count = block[d].count
      /\ block'[c].count = 0
      /\ LoanCounts'
  <2>1. \A d \in L!Loans \ L!Made : memory'[d] = memory[d]
    BY <1>2
  <2>2. block'[c].count = block[c].count - 1
    BY UnhandledLeaves
  <2>3. block'[c].count = 0
    BY <1>1, <2>2
  <2> QED BY <2>1, <2>3, UnhandledLeaves
<1>5. LoanTypes'
  BY <1>0, <1>2, <1>3, <1>4 DEF LoanTypes
<1>6. LoanSteps'
  <2>1. ASSUME NEW v \in Threads, work[v].step # "idle" PROVE handles'[v][work[v].loan] > 0
    <3>1. v # t /\ work[v].loan \in L!Loans /\ handles[v][work[v].loan] > 0
      <4>1. v # t
        BY <2>1 DEF L!Rest
      <4> QED BY <1>0, <2>1, <4>1 DEF LoanSteps
    <3> QED BY <1>4, <3>1
  <2> QED BY <1>0, <1>4, <2>1, StepsKept
<1>7. \A u \in Threads : work[u].step \in {"ioctl", "deleter"} => work[u].loan # c
  BY <1>0, <1>1 DEF LoanSteps
<1>8. c \notin L!InTree /\ \A u \in Threads : c \notin work[u].todo
  BY <1>0, <1>1 DEF LoanOwners, L!OneOwner
<1>9. L!InTree' = L!InTree /\ L!InTree \subseteq L!Loans
  <2>1. tree \in Seq(L!Loans)
    BY <1>0 DEF LoanTypes
  <2> QED BY <2>1 DEF L!InTree
<1>10. L!OneOwner'
  <2>1. \A m \in L!InTree' : memory'[m] = "published" /\ \A u \in Threads : m \notin work'[u].todo
    BY <1>0, <1>2, <1>8, <1>9 DEF LoanOwners, L!OneOwner
  <2>2. \A i, j \in DOMAIN tree' : tree'[i] = tree'[j] => i = j
    BY <1>0 DEF LoanOwners, L!OneOwner
  <2>3. \A d \in L!Made :
          /\ memory'[d] # "freed twice"
          /\ block'[d].valid /\ block'[d].count > 0 => memory'[d] = "loaned"
          /\ memory'[d] = "loaned" => L!InHand(d)' \/ (block'[d].valid /\ block'[d].count > 0)
          /\ memory'[d] = "published" => (d \in L!InTree' \/ \E u \in Threads : d \in work'[u].todo)
    <3> TAKE d \in L!Made
    <3>1. CASE d = c
      <4>1. memory'[d] = "freed" /\ block'[d].count = 0
        BY <1>2, <1>4, <3>1
      <4>2. memory'[d] # "freed twice" /\ memory'[d] # "loaned" /\ memory'[d] # "published"
        BY <4>1
      <4>3. ~(block'[d].count > 0)
        BY <4>1
      <4> QED BY <4>2, <4>3, Zenon
    <3>2. CASE d # c
      <4>1. memory'[d] = memory[d] /\ block'[d].valid = block[d].valid /\ block'[d].count = block[d].count
        BY <1>0, <1>2, <1>4, <3>2
      <4>2. L!InHand(d)' <=> L!InHand(d)
        BY DEF L!InHand
      <4> QED BY <1>0, <1>9, <4>1, <4>2 DEF LoanOwners, L!OneOwner
    <3> QED BY <3>1, <3>2
  <2> QED BY <1>4, <2>1, <2>2, <2>3 DEF L!OneOwner
<1>11. LoanOwners'
  <2>1. \A u \in Threads : work[u].step \in {"ioctl", "deleter"} => work[u].loan \in L!Loans \ {c}
    BY <1>0, <1>7 DEF LoanSteps
  <2>2. \A u \in Threads : work[u].todo \subseteq L!Loans \ {c}
    <3>1. \A u \in Threads : work[u] \in LoanWork
      BY <1>0 DEF LoanTypes
    <3> QED BY <1>8, <3>1 DEF LoanWork
  <2> QED BY <1>0, <1>2, <1>10, <2>1, <2>2 DEF LoanOwners
<1>12. user'.confined => LoanReturns'
  <2> SUFFICES ASSUME user.confined, LoanReturns PROVE LoanReturns'
    BY DEF LoanParts
  <2>1. L!Unreturned(t)' = L!Unreturned(t) \ {c} /\ c \in L!Unreturned(t)
    BY <1>1, <1>4 DEF L!Unreturned
  <2>2. \A u \in Threads \ {t} : L!Unreturned(u)' = L!Unreturned(u)
    BY <1>1, <1>4 DEF L!Unreturned
  <2>3. \A u \in Threads : loans'[u] = Cardinality(L!Unreturned(u)')
    <3>1. Cardinality(L!Unreturned(t)') = Cardinality(L!Unreturned(t)) - 1
      BY <1>0, <2>1, UnreturnedFinite, FS_RemoveElement
    <3> QED BY <1>3, <2>2, <3>1 DEF LoanReturns
  <2>4. \A u \in Threads : work'[u].step \in {"publish", "cancel"} => block'[work'[u].loan].by = u
    BY <1>0, <1>4 DEF LoanReturns, LoanSteps
  <2> QED BY <1>4, <2>3, <2>4 DEF LoanReturns
<1> QED BY <1>4, <1>5, <1>6, <1>11, <1>12 DEF LoanParts

\* reset() by a program.
LEMMA ResetSafe ==
  ASSUME user.careful, ~ended, LoanParts, NEW t \in Threads, NEW c \in L!Made, L!reset(t, c)
  PROVE  (user.confined => ~ended') /\ (~ended' => LoanParts')
<1>1. /\ work[t] = L!Rest /\ work' = work /\ handles[t][c] > 0 /\ L!Unhandled(t, c)
      /\ UNCHANGED <<user, contents, tree>>
      /\ L!LastUnpublished(c) => (user.confined => block[c].by = t) /\ block[c].pub \notin Erased
  BY DEF L!reset, L!Drop, L!Confined
<1>2. CASE ~L!LastUnpublished(c)
  <2>1. UNCHANGED <<loans, memory, ended>>
    BY <1>2 DEF L!reset, L!Drop
  <2> QED BY <1>1, <1>2, <2>1, DropOneSafe
<1>3. CASE L!LastUnpublished(c)
  <2>1. /\ loans' = L!Returned(t) /\ ended' = (loans[t] = 0)
        /\ ~ended' => memory' = [memory EXCEPT ![c] = L!Freed(c)]
    BY <1>1, <1>3 DEF L!reset, L!Drop
  <2>2. ASSUME ~ended' PROVE LoanParts'
    BY <1>1, <1>3, <2>1, <2>2, DropLastSafe
  <2>3. ASSUME user.confined PROVE loans[t] # 0
    <3>1. c \in L!Unreturned(t)
      BY <1>1, <1>3, <2>3 DEF L!LastUnpublished, L!decrement_and_check, L!Unreturned
    <3>2. Cardinality(L!Unreturned(t)) # 0
      BY <3>1, UnreturnedFinite, FS_EmptySet DEF LoanParts
    <3> QED BY <2>3, <3>2 DEF LoanParts, LoanReturns
  <2> QED BY <2>1, <2>2, <2>3
<1> QED BY <1>2, <1>3

\* publish() and cancel_message() take what a careful program hands them.
LEMMA AcceptSafe ==
  ASSUME user.careful, ~ended, LoanParts, NEW t \in Threads, NEW c \in L!Made, NEW p \in Loaners,
         NEW s \in {"publish", "cancel"}, L!Accept(t, c, p, s)
  PROVE  ~ended' /\ LoanParts'
<1>0. LoanTypes /\ LoanCounts /\ LoanSteps /\ LoanOwners /\ c \in L!Loans /\ L!Made \subseteq L!Loans
  BY MadeAreLoans DEF LoanParts
<1>1. /\ work[t] = L!Rest /\ handles[t][c] > 0 /\ block[c].valid /\ (user.confined => block[c].by = t)
      /\ \A u \in Threads \ {t} : work[u].loan # c
      /\ work' = [work EXCEPT ![t] = L!Working(s, c, {})]
      /\ UNCHANGED <<user, ended, loans, block, handles, memory, contents, tree>>
  BY DEF L!Accept, L!Careful, L!Confined, L!Alone
<1>2. work \in [Threads -> LoanWork] /\ L!Working(s, c, {}) \in LoanWork
  <2>1. c \in Nat
    BY <1>0, MadeAreLoans
  <2>2. L!Working(s, c, {}) \in LoanWork
    BY <2>1 DEF LoanWork, L!Working
  <2> QED BY <1>0, <2>2 DEF LoanTypes
<1>3. /\ work' \in [Threads -> LoanWork]
      /\ work'[t].step = s /\ work'[t].loan = c /\ work'[t].todo = {}
      /\ \A v \in Threads \ {t} : work'[v] = work[v]
      /\ work[t].step = "idle" /\ work[t].todo = {}
  BY <1>1, <1>2 DEF L!Working, L!Rest
<1>4. L!Made' = L!Made /\ \A d : Pointers(d)' = Pointers(d)
  BY <1>1 DEF L!Made, Pointers
<1>5. LoanTypes' /\ LoanCounts'
  <2>1. LoanTypes'
    BY <1>0, <1>1, <1>3 DEF LoanTypes
  <2>2. LoanCounts'
    BY <1>0, <1>1, <1>4 DEF LoanCounts
  <2> QED BY <2>1, <2>2
<1>6. LoanSteps'
  <2> SUFFICES ASSUME NEW u \in Threads
               PROVE  /\ work'[u].step = "idle" => work'[u] = L!Rest
                      /\ work'[u].step # "idle" =>
                           /\ work'[u].loan \in L!Made' /\ handles'[u][work'[u].loan] > 0
                           /\ block'[work'[u].loan].valid <=> work'[u].step \in {"publish", "cancel"}
                           /\ \A v \in Threads \ {u} : work'[v].loan # work'[u].loan
                      /\ work'[u].todo # {} => work'[u].step = "delete"
    BY DEF LoanSteps
  <2>1. CASE u = t
    BY <1>1, <1>3, <1>4, <2>1
  <2>2. CASE u # t
    BY <1>0, <1>1, <1>3, <1>4, <2>2 DEF LoanSteps
  <2> QED BY <2>1, <2>2
<1>7. LoanOwners'
  <2>1. /\ \A u \in Threads : work'[u].todo = work[u].todo
        /\ \A u \in Threads : work'[u].step \in {"ioctl", "deleter"} <=> work[u].step \in {"ioctl", "deleter"}
        /\ \A u \in Threads : work[u].step \in {"ioctl", "deleter"} => work'[u].loan = work[u].loan
    BY <1>3
  <2> QED BY <1>0, <1>1, <1>4, <2>1, OwnersKept
<1>8. user'.confined => LoanReturns'
  <2> SUFFICES ASSUME user.confined, LoanReturns PROVE LoanReturns'
    BY <1>1 DEF LoanParts
  <2>1. \A u \in Threads : work'[u].step \in {"publish", "cancel"} =>
                             work'[u].loan \in L!Made /\ block[work'[u].loan].by = u
    BY <1>0, <1>1, <1>3 DEF LoanReturns, LoanSteps
  <2> QED BY <1>1, <1>4, <2>1, ReturnsKept DEF LoanReturns
<1> QED BY <1>1, <1>5, <1>6, <1>7, <1>8 DEF LoanParts

\* Another step of publish() or cancel_message() of the same thread.
LEMMA StepsAdvance ==
  ASSUME LoanTypes, LoanSteps, NEW t \in Threads, NEW w \in LoanWork, work' = [work EXCEPT ![t] = w],
         w.step # "idle", w.loan = work[t].loan, work[t].step # "idle",
         w.todo # {} => w.step = "delete", L!Made' = L!Made, UNCHANGED handles,
         block'[w.loan].valid <=> w.step \in {"publish", "cancel"},
         \A d \in L!Made \ {w.loan} : block'[d].valid = block[d].valid
  PROVE  /\ LoanSteps' /\ work' \in [Threads -> LoanWork] /\ work'[t] = w
         /\ \A v \in Threads \ {t} : work'[v] = work[v]
         /\ w.loan \in L!Made /\ handles[t][w.loan] > 0
         /\ \A v \in Threads \ {t} : work[v].loan # w.loan
<1>1. /\ work' \in [Threads -> LoanWork] /\ work'[t] = w
      /\ \A v \in Threads \ {t} : work'[v] = work[v]
  BY DEF LoanTypes
<1>2. /\ w.loan \in L!Made /\ handles[t][w.loan] > 0
      /\ \A v \in Threads \ {t} : work[v].loan # w.loan
  BY DEF LoanSteps
<1>3. LoanSteps'
  <2> SUFFICES ASSUME NEW u \in Threads
               PROVE  /\ work'[u].step = "idle" => work'[u] = L!Rest
                      /\ work'[u].step # "idle" =>
                           /\ work'[u].loan \in L!Made' /\ handles'[u][work'[u].loan] > 0
                           /\ block'[work'[u].loan].valid <=> work'[u].step \in {"publish", "cancel"}
                           /\ \A v \in Threads \ {u} : work'[v].loan # work'[u].loan
                      /\ work'[u].todo # {} => work'[u].step = "delete"
    BY DEF LoanSteps
  <2>1. CASE u = t
    BY <1>1, <1>2, <2>1
  <2>2. CASE u # t
    BY <1>1, <1>2, <2>2 DEF LoanSteps
  <2> QED BY <2>1, <2>2
<1> QED BY <1>1, <1>2, <1>3

\* The pointers are invalidated and the loan is returned.
LEMMA InvalidateSafe ==
  ASSUME ~ended, LoanParts, NEW t \in Threads, L!Invalidate(t)
  PROVE  (user.confined => ~ended') /\ (~ended' => LoanParts')
<1>0. LoanTypes /\ LoanCounts /\ LoanSteps /\ LoanOwners /\ L!Made \subseteq L!Loans
  BY MadeAreLoans DEF LoanParts
<1>1. PICK c : c = work[t].loan
  OBVIOUS
<1>2. /\ work[t].step \in {"publish", "cancel"} /\ work[t].todo = {}
      /\ c \in L!Made /\ handles[t][c] > 0 /\ block[c].valid
  BY <1>0, <1>1 DEF L!Invalidate, LoanSteps
<1>3. block[c].count \in Nat /\ block[c].count > 0 /\ block[c] \in ControlBlocks
  BY <1>0, <1>2, MadeAreLoans, PointerCounts
<1>4. ended' <=> loans[t] = 0
  <2>1. CASE loans[t] = 0
    BY <2>1 DEF L!Invalidate
  <2>2. CASE loans[t] # 0
    BY <2>2 DEF L!Invalidate
  <2> QED BY <2>1, <2>2
<1>5. ASSUME user.confined PROVE loans[t] # 0
  <2>1. c \in L!Unreturned(t)
    BY <1>1, <1>2, <1>3, <1>5 DEF LoanParts, LoanReturns, L!Unreturned
  <2>2. Cardinality(L!Unreturned(t)) # 0
    BY <1>0, <2>1, UnreturnedFinite, FS_EmptySet
  <2> QED BY <1>5, <2>2 DEF LoanParts, LoanReturns
<1>6. ASSUME loans[t] # 0 PROVE LoanParts'
  <2> DEFINE r == [block[c] EXCEPT !.valid = FALSE]
  <2>1. PICK s : s = IF work[t].step = "publish" THEN "ioctl" ELSE "deleter"
    OBVIOUS
  <2>2. PICK w : w = [work[t] EXCEPT !.step = s]
    OBVIOUS
  <2>3. /\ block' = [block EXCEPT ![c] = r]
        /\ loans' = L!Returned(t)
        /\ work' = [work EXCEPT ![t] = w]
        /\ UNCHANGED <<user, handles, memory, contents, tree>>
    <3>1. block' = [block EXCEPT ![c] = r]
      BY <1>1 DEF L!Invalidate, L!invalidate_all_references
    <3>2. work' = [work EXCEPT ![t] = w]
      BY <1>6, <2>1, <2>2 DEF L!Invalidate
    <3> QED BY <3>1, <3>2 DEF L!Invalidate
  <2>4. /\ r \in ControlBlocks /\ r.valid = FALSE /\ r.count = block[c].count /\ r.by = block[c].by
    BY <1>3 DEF ControlBlocks
  <2> HIDE DEF r
  <2>5. Reblocked(c, r)
    BY <1>0, <1>2, <2>3, <2>4, BlockChanges
  <2>6. w \in LoanWork /\ w.step = s /\ s \in {"ioctl", "deleter"} /\ w.loan = c /\ w.todo = {}
    <3>1. work[t] \in LoanWork
      BY <1>0 DEF LoanTypes
    <3> QED BY <1>1, <1>2, <2>1, <2>2, <3>1 DEF LoanWork
  <2>7. /\ LoanSteps' /\ work' \in [Threads -> LoanWork] /\ work'[t] = w
        /\ \A v \in Threads \ {t} : work'[v] = work[v]
        /\ \A v \in Threads \ {t} : work[v].loan # c
    <3>1. block'[w.loan].valid <=> w.step \in {"publish", "cancel"}
      BY <2>4, <2>5, <2>6 DEF Reblocked
    <3>2. L!Made' = L!Made /\ \A d \in L!Made \ {w.loan} : block'[d].valid = block[d].valid
      BY <2>5, <2>6 DEF Reblocked
    <3>3. w.step # "idle" /\ work[t].step # "idle" /\ w.loan = work[t].loan
      BY <1>1, <1>2, <2>6
    <3> QED BY <1>0, <2>3, <2>6, <3>1, <3>2, <3>3, StepsAdvance
  <2>8. /\ loans' \in [Threads -> Nat] /\ loans'[t] = loans[t] - 1
        /\ \A v \in Threads \ {t} : loans'[v] = loans[v]
    <3>1. loans \in [Threads -> Nat]
      BY <1>0 DEF LoanTypes
    <3>2. loans' = [loans EXCEPT ![t] = IF loans[t] = 0 THEN 0 ELSE loans[t] - 1]
      BY <2>3 DEF L!Returned
    <3>3. loans[t] \in Nat
      BY <3>1
    <3>4. loans[t] - 1 \in Nat
      BY <1>6, <3>3
    <3>5. loans' = [loans EXCEPT ![t] = loans[t] - 1]
      BY <1>6, <3>2
    <3> QED BY <3>1, <3>4, <3>5
  <2>9. LoanTypes'
    BY <1>0, <2>3, <2>5, <2>7, <2>8 DEF LoanTypes, Reblocked
  <2>10. LoanCounts'
    <3>1. \A d \in L!Made : block'[d].count = block[d].count
      BY <2>4, <2>5 DEF Reblocked
    <3>2. \A d : Pointers(d)' = Pointers(d)
      BY <2>3 DEF Pointers
    <3> QED BY <1>0, <2>3, <2>5, <3>1, <3>2 DEF LoanCounts, Reblocked
  <2>11. memory[c] = "loaned"
    <3>1. block[c].valid /\ block[c].count > 0 => memory[c] = "loaned"
      BY <1>0, <1>2 DEF LoanOwners, L!OneOwner
    <3> QED BY <1>2, <1>3, <3>1
  <2>12. L!OneOwner'
    <3>1. L!InTree' = L!InTree /\ \A u \in Threads : work'[u].todo = work[u].todo
      <4>1. L!InTree' = L!InTree
        BY <2>3 DEF L!InTree
      <4> QED BY <1>2, <2>6, <2>7, <4>1
    <3>2. \A m \in L!InTree' : memory'[m] = "published" /\ \A u \in Threads : m \notin work'[u].todo
      BY <1>0, <2>3, <3>1 DEF LoanOwners, L!OneOwner
    <3>3. \A i, j \in DOMAIN tree' : tree'[i] = tree'[j] => i = j
      BY <1>0, <2>3 DEF LoanOwners, L!OneOwner
    <3>4. \A d \in L!Made :
            /\ memory'[d] # "freed twice"
            /\ block'[d].valid /\ block'[d].count > 0 => memory'[d] = "loaned"
            /\ memory'[d] = "loaned" => L!InHand(d)' \/ (block'[d].valid /\ block'[d].count > 0)
            /\ memory'[d] = "published" => (d \in L!InTree' \/ \E u \in Threads : d \in work'[u].todo)
      <4> TAKE d \in L!Made
      <4>1. CASE d = c
        <5>1. memory'[d] = "loaned" /\ L!InHand(d)'
          BY <2>3, <2>6, <2>7, <2>11, <4>1 DEF L!InHand
        <5>2. memory'[d] # "published" /\ memory'[d] # "freed twice"
          BY <5>1
        <5> QED BY <5>1, <5>2, Zenon
      <4>2. CASE d # c
        <5>1. block'[d] = block[d] /\ memory'[d] = memory[d]
          BY <2>3, <2>5, <4>2 DEF Reblocked
        <5>2. L!InHand(d)' <=> L!InHand(d)
          BY <1>1, <2>6, <2>7, <4>2 DEF L!InHand
        <5> QED BY <1>0, <3>1, <5>1, <5>2 DEF LoanOwners, L!OneOwner
      <4> QED BY <4>1, <4>2
    <3> QED BY <2>5, <3>2, <3>3, <3>4 DEF L!OneOwner, Reblocked
  <2>13. LoanOwners'
    <3>1. \A u \in Threads : work'[u].step \in {"ioctl", "deleter"} => memory'[work'[u].loan] = "loaned"
      BY <1>0, <2>3, <2>6, <2>7, <2>11 DEF LoanOwners
    <3>2. \A u \in Threads : work'[u].todo = work[u].todo
      BY <1>2, <2>6, <2>7
    <3> QED BY <1>0, <2>3, <2>12, <3>1, <3>2 DEF LoanOwners
  <2>14. user'.confined => LoanReturns'
    <3> SUFFICES ASSUME user.confined, LoanReturns PROVE LoanReturns'
      BY <2>3 DEF LoanParts
    <3>1. block[c].by = t
      BY <1>1, <1>2 DEF LoanReturns
    <3>2. L!Unreturned(t)' = L!Unreturned(t) \ {c} /\ c \in L!Unreturned(t)
      BY <1>2, <1>3, <2>4, <2>5, <3>1 DEF L!Unreturned, Reblocked
    <3>3. \A u \in Threads \ {t} : L!Unreturned(u)' = L!Unreturned(u)
      BY <1>2, <2>4, <2>5, <3>1 DEF L!Unreturned, Reblocked
    <3>4. \A u \in Threads : loans'[u] = Cardinality(L!Unreturned(u)')
      <4>1. Cardinality(L!Unreturned(t)') = Cardinality(L!Unreturned(t)) - 1
        BY <1>0, <3>2, UnreturnedFinite, FS_RemoveElement
      <4> QED BY <2>8, <3>3, <4>1 DEF LoanReturns
    <3>5. \A d \in L!Made : block'[d].by = block[d].by
      BY <2>4, <2>5 DEF Reblocked
    <3>6. \A u \in Threads : work'[u].step \in {"publish", "cancel"} => block'[work'[u].loan].by = u
      BY <1>0, <2>6, <2>7, <3>5 DEF LoanReturns, LoanSteps
    <3> QED BY <2>3, <2>5, <3>4, <3>6 DEF LoanReturns, Reblocked
  <2> QED BY <2>7, <2>9, <2>10, <2>13, <2>14 DEF LoanParts
<1> QED BY <1>4, <1>5, <1>6

\* A step of publish() or cancel_message() that moves memory only, with the pointers and
\* the loans as they were.
LEMMA MemoryMoves ==
  ASSUME LoanParts, NEW t \in Threads, NEW w \in LoanWork, work' = [work EXCEPT ![t] = w],
         work[t].step \in {"ioctl", "deleter", "delete"}, w.step = "delete", w.loan = work[t].loan,
         UNCHANGED <<user, loans, block, handles, contents>>, tree' \in Seq(L!Loans),
         NEW m \in L!Made, NEW v \in {"published", "freed", "freed twice"},
         memory' = [memory EXCEPT ![m] = v], LoanOwners'
  PROVE  LoanParts'
<1>0. LoanTypes /\ LoanCounts /\ LoanSteps /\ LoanOwners /\ L!Made \subseteq L!Loans /\ L!Made' = L!Made
  BY MadeAreLoans DEF LoanParts, L!Made
<1>1. /\ memory' \in [L!Loans -> {"none", "loaned", "published", "freed", "freed twice", "left"}]
      /\ \A d \in L!Loans \ L!Made : memory'[d] = memory[d]
  <2>1. memory \in [L!Loans -> {"none", "loaned", "published", "freed", "freed twice", "left"}]
    BY <1>0 DEF LoanTypes
  <2> QED BY <1>0, <2>1
<1>2. /\ LoanSteps' /\ work' \in [Threads -> LoanWork] /\ work'[t] = w
      /\ \A u \in Threads \ {t} : work'[u] = work[u]
  <2>1. block'[w.loan].valid <=> w.step \in {"publish", "cancel"}
    BY <1>0 DEF LoanSteps
  <2>2. w.step # "idle" /\ work[t].step # "idle"
    OBVIOUS
  <2>3. \A d \in L!Made \ {w.loan} : block'[d].valid = block[d].valid
    OBVIOUS
  <2> QED BY <1>0, <2>1, <2>2, <2>3, StepsAdvance
<1>3. LoanTypes'
  BY <1>0, <1>1, <1>2 DEF LoanTypes
<1>4. LoanCounts'
  <2>1. \A d : Pointers(d)' = Pointers(d)
    BY DEF Pointers
  <2> QED BY <1>0, <1>1, <2>1 DEF LoanCounts
<1>5. user'.confined => LoanReturns'
  <2> SUFFICES ASSUME LoanReturns PROVE LoanReturns'
    BY DEF LoanParts
  <2>1. \A u \in Threads : work'[u].step \in {"publish", "cancel"} =>
                             work'[u].loan \in L!Made /\ block[work'[u].loan].by = u
    BY <1>0, <1>2 DEF LoanReturns, LoanSteps
  <2> QED BY <1>0, <2>1, ReturnsKept DEF LoanReturns
<1> QED BY <1>2, <1>3, <1>4, <1>5 DEF LoanParts

\* The ioctl: the message goes from the thread to the kernel, and the entries it releases
\* from the kernel to the thread.
LEMMA PublishSafe ==
  ASSUME LoanParts, NEW t \in Threads, L!publish_core(t)
  PROVE  LoanParts'
<1>0. /\ LoanTypes /\ LoanCounts /\ LoanSteps /\ LoanOwners /\ L!Made \subseteq L!Loans
      /\ tree \in Seq(L!Loans) /\ work \in [Threads -> LoanWork]
      /\ memory \in [L!Loans -> {"none", "loaned", "published", "freed", "freed twice", "left"}]
  BY MadeAreLoans DEF LoanParts, LoanTypes
<1>1. PICK c : c = work[t].loan
  OBVIOUS
<1>2. PICK released : released = L!Released(c)
  OBVIOUS
<1>3. PICK w : w = L!Working("delete", c, released)
  OBVIOUS
<1>4. /\ work[t].step = "ioctl" /\ tree' = L!Without(Append(tree, c), released)
      /\ memory' = [memory EXCEPT ![c] = "published"] /\ work' = [work EXCEPT ![t] = w]
      /\ UNCHANGED <<user, loans, block, handles, contents>>
  BY <1>1, <1>2, <1>3 DEF L!publish_core, L!insert_message_entry
<1>5. /\ c \in L!Made /\ c \in L!Loans /\ memory[c] = "loaned" /\ ~block[c].valid /\ work[t].todo = {}
      /\ \A u \in Threads \ {t} : work[u].loan # c
  BY <1>0, <1>1, <1>4 DEF LoanSteps, LoanOwners
<1>6. c \notin L!InTree /\ \A u \in Threads : c \notin work[u].todo
  BY <1>0, <1>5 DEF LoanOwners, L!OneOwner
<1>7. released \subseteq L!InTree /\ L!InTree \subseteq L!Loans
  <2>1. released \subseteq L!InTree
    BY <1>2 DEF L!Released, L!InTree
  <2>2. \A i \in DOMAIN tree : tree[i] \in L!Loans
    <3>1. tree \in Seq(L!Loans)
      BY <1>0
    <3> QED BY <3>1
  <2> QED BY <2>1, <2>2 DEF L!InTree
<1>8. /\ w \in LoanWork /\ w.step = "delete" /\ w.loan = c /\ w.todo = released
  <2>1. c \in Nat
    <3>1. c \in 1 .. MaxLoans /\ MaxLoans \in Nat
      BY <1>0, <1>5, MadeAreLoans
    <3> QED BY <3>1
  <2>2. released \in SUBSET L!Loans
    BY <1>7
  <2> QED BY <1>3, <2>1, <2>2 DEF L!Working, LoanWork
<1>9. /\ work'[t] = w /\ \A u \in Threads \ {t} : work'[u] = work[u]
  BY <1>0, <1>4
<1>10. /\ tree' \in Seq(L!Loans)
       /\ L!InTree' = (L!InTree \cup {c}) \ released
       /\ \A i, j \in DOMAIN tree' : tree'[i] = tree'[j] => i = j
  <2> DEFINE all == Append(tree, c)
  <2>1. /\ all \in Seq(L!Loans) /\ DOMAIN all = (DOMAIN tree) \cup {Len(tree) + 1}
        /\ Len(tree) + 1 \notin DOMAIN tree
        /\ all[Len(tree) + 1] = c /\ \A i \in DOMAIN tree : all[i] = tree[i]
    <3>1. tree \in Seq(L!Loans) /\ c \in L!Loans
      BY <1>0, <1>5
    <3>2. all \in Seq(L!Loans) /\ Len(all) = Len(tree) + 1 /\ Len(tree) \in Nat
      BY <3>1
    <3>3. DOMAIN all = 1 .. (Len(tree) + 1) /\ DOMAIN tree = 1 .. Len(tree)
      BY <3>1, <3>2
    <3>4. all[Len(tree) + 1] = c /\ \A i \in DOMAIN tree : all[i] = tree[i]
      BY <3>1
    <3> HIDE DEF all
    <3> QED BY <3>2, <3>3, <3>4
  <2> HIDE DEF all
  <2>2. {all[i] : i \in DOMAIN all} = L!InTree \cup {c}
    BY <2>1 DEF L!InTree
  <2>3. \A i, j \in DOMAIN all : all[i] = all[j] => i = j
    <3>1. \A i, j \in DOMAIN tree : tree[i] = tree[j] => i = j
      BY <1>0 DEF LoanOwners, L!OneOwner
    <3>2. \A i \in DOMAIN tree : tree[i] # c
      BY <1>6 DEF L!InTree
    <3> QED BY <2>1, <3>1, <3>2
  <2>4. tree' = L!Without(all, released)
    BY <1>4 DEF all
  <2>5. /\ tree' \in Seq(L!Loans)
        /\ {tree'[k] : k \in DOMAIN tree'} = {all[i] : i \in DOMAIN all} \ released
        /\ \A i, j \in DOMAIN tree' : tree'[i] = tree'[j] => i = j
    <3>1. /\ L!Without(all, released) \in Seq(L!Loans)
          /\ {L!Without(all, released)[k] : k \in DOMAIN L!Without(all, released)}
               = {all[i] : i \in DOMAIN all} \ released
          /\ (\A i, j \in DOMAIN all : all[i] = all[j] => i = j)
               => \A i, j \in DOMAIN L!Without(all, released) :
                    L!Without(all, released)[i] = L!Without(all, released)[j] => i = j
      <4>1. all \in Seq(L!Loans)
        BY <2>1
      <4> QED BY <4>1, WithoutKeeps, Zenon
    <3> QED BY <2>3, <2>4, <3>1
  <2> QED BY <2>2, <2>5 DEF L!InTree
<1>11. memory'[c] = "published" /\ \A d \in L!Loans \ {c} : memory'[d] = memory[d]
  BY <1>0, <1>4, <1>5
<1>12. L!OneOwner'
  <2>1. \A m \in L!InTree' : memory'[m] = "published" /\ \A u \in Threads : m \notin work'[u].todo
    <3> SUFFICES ASSUME NEW m \in L!InTree \cup {c}, m \notin released
                 PROVE  memory'[m] = "published" /\ \A u \in Threads : m \notin work'[u].todo
      BY <1>10
    <3>1. \A u \in Threads : m \notin work[u].todo
      <4>1. \A n \in L!InTree : \A u \in Threads : n \notin work[u].todo
        BY <1>0 DEF LoanOwners, L!OneOwner
      <4> QED BY <1>6, <4>1
    <3>2. memory'[m] = "published"
      BY <1>0, <1>7, <1>11 DEF LoanOwners, L!OneOwner
    <3> QED BY <1>8, <1>9, <3>1, <3>2
  <2>2. \A d \in L!Made :
          /\ memory'[d] # "freed twice"
          /\ block'[d].valid /\ block'[d].count > 0 => memory'[d] = "loaned"
          /\ memory'[d] = "loaned" => L!InHand(d)' \/ (block'[d].valid /\ block'[d].count > 0)
          /\ memory'[d] = "published" => (d \in L!InTree' \/ \E u \in Threads : d \in work'[u].todo)
    <3> TAKE d \in L!Made
    <3>1. CASE d = c
      <4>1. d \in L!InTree' /\ memory'[d] = "published" /\ ~block'[d].valid
        BY <1>4, <1>5, <1>6, <1>7, <1>10, <1>11, <3>1
      <4>2. memory'[d] # "loaned" /\ memory'[d] # "freed twice"
        BY <4>1
      <4> QED BY <4>1, <4>2, Zenon
    <3>2. CASE d # c
      <4>1. block'[d] = block[d] /\ memory'[d] = memory[d]
        BY <1>0, <1>4, <1>11, <3>2
      <4>2. L!InHand(d)' <=> L!InHand(d)
        BY <1>1, <1>8, <1>9, <3>2 DEF L!InHand
      <4>3. d \in L!InTree => d \in L!InTree' \/ d \in work'[t].todo
        BY <1>8, <1>9, <1>10
      <4>4. \A u \in Threads : d \in work[u].todo => d \in work'[u].todo
        BY <1>5, <1>9
      <4> QED BY <1>0, <4>1, <4>2, <4>3, <4>4 DEF LoanOwners, L!OneOwner
    <3> QED BY <3>1, <3>2
  <2>3. L!Made' = L!Made
    BY <1>4 DEF L!Made
  <2> QED BY <1>10, <2>1, <2>2, <2>3 DEF L!OneOwner
<1>13. LoanOwners'
  <2>1. \A u \in Threads : work'[u].step \in {"ioctl", "deleter"} => memory'[work'[u].loan] = "loaned"
    <3> SUFFICES ASSUME NEW u \in Threads \ {t}, work[u].step \in {"ioctl", "deleter"}
                 PROVE  memory'[work[u].loan] = "loaned"
      BY <1>8, <1>9
    <3>1. work[u].loan \in L!Loans \ {c} /\ memory[work[u].loan] = "loaned"
      BY <1>0, <1>5 DEF LoanOwners, LoanSteps
    <3> QED BY <1>11, <3>1
  <2>2. \A u \in Threads : \A m \in work'[u].todo : memory'[m] = "published"
    <3>1. \A m \in L!InTree : m \in L!Loans \ {c} /\ memory[m] = "published"
      BY <1>0, <1>6, <1>7 DEF LoanOwners, L!OneOwner
    <3>2. \A u \in Threads : work[u].todo \subseteq L!Loans \ {c}
      <4>1. \A u \in Threads : work[u] \in LoanWork
        BY <1>0
      <4> QED BY <1>6, <4>1 DEF LoanWork
    <3> QED BY <1>0, <1>7, <1>8, <1>9, <1>11, <3>1, <3>2 DEF LoanOwners
  <2>3. \A u, v \in Threads : u # v => work'[u].todo \cap work'[v].todo = {}
    <3>1. \A u \in Threads : released \cap work[u].todo = {}
      BY <1>0, <1>7 DEF LoanOwners, L!OneOwner
    <3> QED BY <1>0, <1>8, <1>9, <3>1 DEF LoanOwners
  <2> QED BY <1>12, <2>1, <2>2, <2>3 DEF LoanOwners
<1> QED BY <1>1, <1>4, <1>5, <1>8, <1>10, <1>13, MemoryMoves

\* A released message is deleted.
LEMMA DeleteReleasedSafe ==
  ASSUME LoanParts, NEW t \in Threads, L!DeleteReleased(t)
  PROVE  LoanParts'
<1>0. /\ LoanTypes /\ LoanCounts /\ LoanSteps /\ LoanOwners /\ L!Made \subseteq L!Loans
      /\ tree \in Seq(L!Loans) /\ work \in [Threads -> LoanWork]
      /\ memory \in [L!Loans -> {"none", "loaned", "published", "freed", "freed twice", "left"}]
  BY MadeAreLoans DEF LoanParts, LoanTypes
<1>1. PICK m \in work[t].todo : /\ work[t].step = "delete"
                                /\ memory' = [memory EXCEPT ![m] = L!Freed(m)]
                                /\ work' = [work EXCEPT ![t].todo = @ \ {m}]
                                /\ UNCHANGED <<user, loans, block, handles, contents, tree>>
  BY DEF L!DeleteReleased
<1>2. PICK w : w = [work[t] EXCEPT !.todo = @ \ {m}]
  OBVIOUS
<1>3. work' = [work EXCEPT ![t] = w]
  BY <1>1, <1>2
<1>4. /\ work[t] \in LoanWork /\ w \in LoanWork /\ w.step = "delete" /\ w.loan = work[t].loan
      /\ w.todo = work[t].todo \ {m}
      /\ m \in L!Loans
  <2>1. work[t] \in LoanWork
    BY <1>0
  <2> QED BY <1>1, <1>2, <2>1 DEF LoanWork
<1>5. work'[t] = w /\ \A u \in Threads \ {t} : work'[u] = work[u]
  BY <1>0, <1>3
<1>6. /\ memory[m] = "published" /\ m \in L!Made /\ m \notin L!InTree
      /\ \A u \in Threads \ {t} : m \notin work[u].todo
  <2>1. memory[m] = "published"
    BY <1>0, <1>1 DEF LoanOwners
  <2>2. m \in L!Made
    BY <1>0, <1>4, <2>1 DEF LoanCounts
  <2> QED BY <1>0, <1>1, <2>1, <2>2 DEF LoanOwners, L!OneOwner
<1>7. /\ L!Freed(m) = "freed" /\ memory' = [memory EXCEPT ![m] = "freed"]
      /\ memory'[m] = "freed" /\ \A d \in L!Loans \ {m} : memory'[d] = memory[d]
  <2>1. L!Freed(m) = "freed"
    BY <1>6 DEF L!Freed
  <2> QED BY <1>0, <1>1, <1>4, <2>1
<1>8. L!Made' = L!Made /\ L!InTree' = L!InTree /\ L!InTree \subseteq L!Loans \ {m}
  <2>1. L!Made' = L!Made /\ L!InTree' = L!InTree
    BY <1>1 DEF L!Made, L!InTree
  <2>2. \A i \in DOMAIN tree : tree[i] \in L!Loans
    <3>1. tree \in Seq(L!Loans)
      BY <1>0
    <3> QED BY <3>1
  <2> QED BY <1>6, <2>1, <2>2 DEF L!InTree
<1>9. \A u \in Threads : \A n \in L!Loans \ {m} : n \in work'[u].todo <=> n \in work[u].todo
  BY <1>4, <1>5
<1>10. \A u \in Threads : work'[u].todo \subseteq work[u].todo /\ m \notin work'[u].todo
  BY <1>4, <1>5, <1>6
<1>11. L!OneOwner'
  <2>1. \A n \in L!InTree' : memory'[n] = "published" /\ \A u \in Threads : n \notin work'[u].todo
    BY <1>0, <1>7, <1>8, <1>9 DEF LoanOwners, L!OneOwner
  <2>2. \A i, j \in DOMAIN tree' : tree'[i] = tree'[j] => i = j
    BY <1>0, <1>1 DEF LoanOwners, L!OneOwner
  <2>3. \A d \in L!Made :
          /\ memory'[d] # "freed twice"
          /\ block'[d].valid /\ block'[d].count > 0 => memory'[d] = "loaned"
          /\ memory'[d] = "loaned" => L!InHand(d)' \/ (block'[d].valid /\ block'[d].count > 0)
          /\ memory'[d] = "published" => (d \in L!InTree' \/ \E u \in Threads : d \in work'[u].todo)
    <3> TAKE d \in L!Made
    <3>1. CASE d = m
      <4>1. block[m].valid /\ block[m].count > 0 => memory[m] = "loaned"
        BY <1>0, <1>6 DEF LoanOwners, L!OneOwner
      <4>2. ~(block[m].valid /\ block[m].count > 0)
        BY <1>6, <4>1
      <4>3. ~(block'[d].valid /\ block'[d].count > 0)
        BY <1>1, <3>1, <4>2
      <4>4. memory'[d] # "freed twice" /\ memory'[d] # "loaned" /\ memory'[d] # "published"
        BY <1>7, <3>1
      <4> QED BY <4>3, <4>4, Zenon
    <3>2. CASE d # m
      <4>1. block'[d] = block[d] /\ memory'[d] = memory[d]
        BY <1>0, <1>1, <1>7, <3>2
      <4>2. L!InHand(d)' <=> L!InHand(d)
        BY <1>1, <1>4, <1>5 DEF L!InHand
      <4>3. \A u \in Threads : d \in work'[u].todo <=> d \in work[u].todo
        BY <1>0, <1>9, <3>2
      <4> QED BY <1>0, <1>8, <4>1, <4>2, <4>3 DEF LoanOwners, L!OneOwner
    <3> QED BY <3>1, <3>2
  <2> QED BY <1>8, <2>1, <2>2, <2>3 DEF L!OneOwner
<1>12. LoanOwners'
  <2>1. \A u \in Threads : work'[u].step \in {"ioctl", "deleter"} => memory'[work'[u].loan] = "loaned"
    <3> SUFFICES ASSUME NEW u \in Threads \ {t}, work[u].step \in {"ioctl", "deleter"}
                 PROVE  memory'[work[u].loan] = "loaned"
      BY <1>4, <1>5
    <3>1. work[u].loan \in L!Loans /\ memory[work[u].loan] = "loaned"
      BY <1>0 DEF LoanOwners, LoanSteps
    <3>2. work[u].loan # m
      BY <1>6, <3>1
    <3> QED BY <1>7, <3>1, <3>2
  <2>2. \A u \in Threads : \A n \in work'[u].todo : memory'[n] = "published"
    <3> SUFFICES ASSUME NEW u \in Threads, NEW n \in work'[u].todo PROVE memory'[n] = "published"
      OBVIOUS
    <3>1. n \in work[u].todo /\ n # m /\ work[u] \in LoanWork
      BY <1>0, <1>10
    <3>2. n \in L!Loans /\ memory[n] = "published"
      BY <1>0, <3>1 DEF LoanOwners, LoanWork
    <3> QED BY <1>7, <3>1, <3>2
  <2>3. \A u, v \in Threads : u # v => work'[u].todo \cap work'[v].todo = {}
    BY <1>0, <1>10 DEF LoanOwners
  <2> QED BY <1>11, <2>1, <2>2, <2>3 DEF LoanOwners
<1> QED BY <1>0, <1>1, <1>3, <1>4, <1>6, <1>7, <1>12, MemoryMoves

\* The deleter of a cancelled message.
LEMMA RunDeleterSafe ==
  ASSUME LoanParts, NEW t \in Threads, L!RunDeleter(t)
  PROVE  LoanParts'
<1>0. /\ LoanTypes /\ LoanCounts /\ LoanSteps /\ LoanOwners /\ L!Made \subseteq L!Loans
      /\ tree \in Seq(L!Loans) /\ work \in [Threads -> LoanWork]
      /\ memory \in [L!Loans -> {"none", "loaned", "published", "freed", "freed twice", "left"}]
  BY MadeAreLoans DEF LoanParts, LoanTypes
<1>1. PICK c : c = work[t].loan
  OBVIOUS
<1>2. PICK w : w = [work[t] EXCEPT !.step = "delete"]
  OBVIOUS
<1>3. /\ work[t].step = "deleter" /\ memory' = [memory EXCEPT ![c] = L!Freed(c)]
      /\ work' = [work EXCEPT ![t] = w]
      /\ UNCHANGED <<user, loans, block, handles, contents, tree>>
  BY <1>1, <1>2 DEF L!RunDeleter
<1>4. /\ c \in L!Made /\ c \in L!Loans /\ memory[c] = "loaned" /\ ~block[c].valid /\ work[t].todo = {}
      /\ \A u \in Threads \ {t} : work[u].loan # c
  BY <1>0, <1>1, <1>3 DEF LoanSteps, LoanOwners
<1>5. c \notin L!InTree /\ \A u \in Threads : c \notin work[u].todo
  BY <1>0, <1>4 DEF LoanOwners, L!OneOwner
<1>6. w \in LoanWork /\ w.step = "delete" /\ w.loan = c /\ w.todo = {}
  <2>1. work[t] \in LoanWork
    BY <1>0
  <2> QED BY <1>1, <1>2, <1>4, <2>1 DEF LoanWork
<1>7. work'[t] = w /\ \A u \in Threads \ {t} : work'[u] = work[u]
  BY <1>0, <1>3
<1>8. /\ memory' = [memory EXCEPT ![c] = "freed"]
      /\ memory'[c] = "freed" /\ \A d \in L!Loans \ {c} : memory'[d] = memory[d]
  <2>1. L!Freed(c) = "freed"
    BY <1>4 DEF L!Freed
  <2> QED BY <1>0, <1>3, <1>4, <2>1
<1>9. L!Made' = L!Made /\ L!InTree' = L!InTree /\ L!InTree \subseteq L!Loans \ {c}
  <2>1. L!Made' = L!Made /\ L!InTree' = L!InTree
    BY <1>3 DEF L!Made, L!InTree
  <2>2. \A i \in DOMAIN tree : tree[i] \in L!Loans
    <3>1. tree \in Seq(L!Loans)
      BY <1>0
    <3> QED BY <3>1
  <2> QED BY <1>5, <2>1, <2>2 DEF L!InTree
<1>10. \A u \in Threads : work'[u].todo = work[u].todo
  BY <1>4, <1>6, <1>7
<1>11. L!OneOwner'
  <2>1. \A n \in L!InTree' : memory'[n] = "published" /\ \A u \in Threads : n \notin work'[u].todo
    BY <1>0, <1>8, <1>9, <1>10 DEF LoanOwners, L!OneOwner
  <2>2. \A i, j \in DOMAIN tree' : tree'[i] = tree'[j] => i = j
    BY <1>0, <1>3 DEF LoanOwners, L!OneOwner
  <2>3. \A d \in L!Made :
          /\ memory'[d] # "freed twice"
          /\ block'[d].valid /\ block'[d].count > 0 => memory'[d] = "loaned"
          /\ memory'[d] = "loaned" => L!InHand(d)' \/ (block'[d].valid /\ block'[d].count > 0)
          /\ memory'[d] = "published" => (d \in L!InTree' \/ \E u \in Threads : d \in work'[u].todo)
    <3> TAKE d \in L!Made
    <3>1. CASE d = c
      <4>1. memory'[d] # "freed twice" /\ memory'[d] # "loaned" /\ memory'[d] # "published"
        BY <1>8, <3>1
      <4>2. ~block'[d].valid
        BY <1>3, <1>4, <3>1
      <4> QED BY <4>1, <4>2, Zenon
    <3>2. CASE d # c
      <4>1. block'[d] = block[d] /\ memory'[d] = memory[d]
        BY <1>0, <1>3, <1>8, <3>2
      <4>2. L!InHand(d)' <=> L!InHand(d)
        BY <1>1, <1>6, <1>7, <3>2 DEF L!InHand
      <4> QED BY <1>0, <1>9, <1>10, <4>1, <4>2 DEF LoanOwners, L!OneOwner
    <3> QED BY <3>1, <3>2
  <2> QED BY <1>9, <2>1, <2>2, <2>3 DEF L!OneOwner
<1>12. LoanOwners'
  <2>1. \A u \in Threads : work'[u].step \in {"ioctl", "deleter"} => memory'[work'[u].loan] = "loaned"
    <3> SUFFICES ASSUME NEW u \in Threads \ {t}, work[u].step \in {"ioctl", "deleter"}
                 PROVE  memory'[work[u].loan] = "loaned"
      BY <1>6, <1>7
    <3>1. work[u].loan \in L!Loans \ {c} /\ memory[work[u].loan] = "loaned"
      BY <1>0, <1>4 DEF LoanOwners, LoanSteps
    <3> QED BY <1>8, <3>1
  <2>2. \A u \in Threads : \A n \in work'[u].todo : memory'[n] = "published"
    <3> SUFFICES ASSUME NEW u \in Threads, NEW n \in work[u].todo PROVE memory'[n] = "published"
      BY <1>10
    <3>1. n # c /\ work[u] \in LoanWork
      BY <1>0, <1>5
    <3>2. n \in L!Loans /\ memory[n] = "published"
      BY <1>0, <3>1 DEF LoanOwners, LoanWork
    <3> QED BY <1>8, <3>1, <3>2
  <2>3. \A u, v \in Threads : u # v => work'[u].todo \cap work'[v].todo = {}
    BY <1>0, <1>10 DEF LoanOwners
  <2> QED BY <1>11, <2>1, <2>2, <2>3 DEF LoanOwners
<1> QED BY <1>0, <1>1, <1>3, <1>4, <1>6, <1>8, <1>12, MemoryMoves

\* publish() or cancel_message() ends with the pointer it was called with.
LEMMA EndPublishSafe ==
  ASSUME LoanParts, NEW t \in Threads, L!EndPublish(t)
  PROVE  UNCHANGED ended /\ LoanParts'
<1>1. PICK c : c = work[t].loan
  OBVIOUS
<1>2. /\ work[t].step = "delete" /\ work[t].todo = {} /\ L!Drop(t, c) /\ L!Unhandled(t, c)
      /\ work' = [work EXCEPT ![t] = L!Rest] /\ UNCHANGED <<user, contents, tree>>
  BY <1>1 DEF L!EndPublish, L!Drop
<1>3. c \in L!Made /\ handles[t][c] > 0 /\ ~block[c].valid
  BY <1>1, <1>2 DEF LoanParts, LoanSteps
<1>4. ~L!LastUnpublished(c)
  BY <1>3 DEF L!LastUnpublished
<1>5. UNCHANGED <<loans, memory, ended>>
  BY <1>2, <1>4 DEF L!Drop
<1> QED BY <1>2, <1>3, <1>4, <1>5, DropOneSafe

\* A publisher goes, and the kernel drops its entries that nobody reads.
LEMMA RemovePublisherSafe ==
  ASSUME LoanParts, NEW p \in Loaners, L!RemovePublisher(p)
  PROVE  LoanParts'
<1>0. /\ LoanTypes /\ LoanCounts /\ LoanSteps /\ LoanOwners /\ L!Made \subseteq L!Loans
      /\ tree \in Seq(L!Loans) /\ work \in [Threads -> LoanWork]
      /\ memory \in [L!Loans -> {"none", "loaned", "published", "freed", "freed twice", "left"}]
  BY MadeAreLoans DEF LoanParts, LoanTypes
<1>1. PICK unread : unread = {m \in L!InTree \ read : block[m].pub = p}
  OBVIOUS
<1>2. /\ tree' = L!Without(tree, unread)
      /\ memory' = [m \in L!Loans |-> IF m \in unread THEN "left" ELSE memory[m]]
      /\ UNCHANGED <<user, ended, loans, block, handles, contents, work>>
  BY <1>1 DEF L!RemovePublisher
<1>3. unread \subseteq L!InTree /\ L!InTree \subseteq L!Loans
  <2>1. \A i \in DOMAIN tree : tree[i] \in L!Loans
    <3>1. tree \in Seq(L!Loans)
      BY <1>0
    <3> QED BY <3>1
  <2> QED BY <1>1, <2>1 DEF L!InTree
<1>4. /\ tree' \in Seq(L!Loans) /\ L!InTree' = L!InTree \ unread
      /\ \A i, j \in DOMAIN tree' : tree'[i] = tree'[j] => i = j
  <2>1. /\ L!Without(tree, unread) \in Seq(L!Loans)
        /\ {L!Without(tree, unread)[k] : k \in DOMAIN L!Without(tree, unread)}
             = {tree[i] : i \in DOMAIN tree} \ unread
        /\ (\A i, j \in DOMAIN tree : tree[i] = tree[j] => i = j)
             => \A i, j \in DOMAIN L!Without(tree, unread) :
                  L!Without(tree, unread)[i] = L!Without(tree, unread)[j] => i = j
    <3>1. tree \in Seq(L!Loans)
      BY <1>0
    <3> QED BY <3>1, WithoutKeeps, Zenon
  <2>2. \A i, j \in DOMAIN tree : tree[i] = tree[j] => i = j
    BY <1>0 DEF LoanOwners, L!OneOwner
  <2> QED BY <1>2, <2>1, <2>2 DEF L!InTree
<1>5. /\ \A m \in unread : memory'[m] = "left" /\ memory[m] = "published"
      /\ \A d \in L!Loans \ unread : memory'[d] = memory[d]
      /\ memory' \in [L!Loans -> {"none", "loaned", "published", "freed", "freed twice", "left"}]
  <2>1. \A m \in unread : memory[m] = "published"
    BY <1>0, <1>3 DEF LoanOwners, L!OneOwner
  <2> QED BY <1>0, <1>2, <1>3, <2>1
<1>6. L!Made' = L!Made
  BY <1>2 DEF L!Made
<1>7. \A u \in Threads : \A m \in work[u].todo : m \in L!Loans \ unread
  <2> TAKE u \in Threads
  <2>1. work[u] \in LoanWork
    BY <1>0
  <2>2. \A m \in L!InTree : m \notin work[u].todo
    BY <1>0 DEF LoanOwners, L!OneOwner
  <2> QED BY <1>3, <2>1, <2>2 DEF LoanWork
<1>8. LoanTypes' /\ LoanCounts' /\ LoanSteps'
  <2>1. LoanTypes'
    BY <1>0, <1>2, <1>4, <1>5 DEF LoanTypes
  <2>2. \A d \in L!Loans \ L!Made : memory'[d] = "none"
    <3> TAKE d \in L!Loans \ L!Made
    <3>1. memory[d] = "none"
      BY <1>0 DEF LoanCounts
    <3>2. d \notin unread
      BY <1>5, <3>1
    <3> QED BY <1>5, <3>1, <3>2
  <2>3. \A d : Pointers(d)' = Pointers(d)
    BY <1>2 DEF Pointers
  <2>4. LoanCounts'
    BY <1>0, <1>2, <1>6, <2>2, <2>3 DEF LoanCounts
  <2>5. LoanSteps'
    BY <1>0, <1>2, <1>6 DEF LoanSteps
  <2> QED BY <2>1, <2>4, <2>5
<1>9. L!OneOwner'
  <2>1. \A n \in L!InTree' : memory'[n] = "published" /\ \A u \in Threads : n \notin work'[u].todo
    BY <1>0, <1>2, <1>3, <1>4, <1>5 DEF LoanOwners, L!OneOwner
  <2>2. \A d \in L!Made :
          /\ memory'[d] # "freed twice"
          /\ block'[d].valid /\ block'[d].count > 0 => memory'[d] = "loaned"
          /\ memory'[d] = "loaned" => L!InHand(d)' \/ (block'[d].valid /\ block'[d].count > 0)
          /\ memory'[d] = "published" => (d \in L!InTree' \/ \E u \in Threads : d \in work'[u].todo)
    <3> TAKE d \in L!Made
    <3>1. CASE d \in unread
      <4>1. memory'[d] # "freed twice" /\ memory'[d] # "loaned" /\ memory'[d] # "published"
        BY <1>5, <3>1
      <4>2. block[d].valid /\ block[d].count > 0 => memory[d] = "loaned"
        BY <1>0 DEF LoanOwners, L!OneOwner
      <4>3. ~(block'[d].valid /\ block'[d].count > 0)
        <5>1. memory[d] # "loaned"
          BY <1>5, <3>1
        <5> QED BY <1>2, <4>2, <5>1
      <4> QED BY <4>1, <4>3, Zenon
    <3>2. CASE d \notin unread
      <4>1. block'[d] = block[d] /\ memory'[d] = memory[d]
        BY <1>0, <1>2, <1>5, <3>2
      <4>2. L!InHand(d)' <=> L!InHand(d)
        BY <1>2 DEF L!InHand
      <4> QED BY <1>0, <1>2, <1>4, <3>2, <4>1, <4>2 DEF LoanOwners, L!OneOwner
    <3> QED BY <3>1, <3>2
  <2> QED BY <1>4, <1>6, <2>1, <2>2 DEF L!OneOwner
<1>10. LoanOwners'
  <2>1. \A u \in Threads : work'[u].step \in {"ioctl", "deleter"} => memory'[work'[u].loan] = "loaned"
    <3> SUFFICES ASSUME NEW u \in Threads, work[u].step \in {"ioctl", "deleter"}
                 PROVE  memory'[work[u].loan] = "loaned"
      BY <1>2
    <3>1. work[u].loan \in L!Loans /\ memory[work[u].loan] = "loaned"
      BY <1>0 DEF LoanOwners, LoanSteps
    <3>2. work[u].loan \notin unread
      BY <1>5, <3>1
    <3> QED BY <1>5, <3>1, <3>2
  <2>2. \A u \in Threads : \A m \in work'[u].todo : memory'[m] = "published"
    BY <1>0, <1>2, <1>5, <1>7 DEF LoanOwners
  <2>3. \A u, v \in Threads : u # v => work'[u].todo \cap work'[v].todo = {}
    BY <1>0, <1>2 DEF LoanOwners
  <2> QED BY <1>9, <2>1, <2>2, <2>3 DEF LoanOwners
<1>11. user'.confined => LoanReturns'
  <2> SUFFICES ASSUME LoanReturns PROVE LoanReturns'
    BY <1>2 DEF LoanParts
  <2> QED BY <1>0, <1>2, <1>6, ReturnsKept DEF LoanReturns, LoanSteps
<1> QED BY <1>8, <1>10, <1>11 DEF LoanParts

\* Nothing has been borrowed at first.
LEMMA LoanInvStarts == L!Init => LoanInv
<1> SUFFICES ASSUME L!Init PROVE LoanInv
  OBVIOUS
<1>0. /\ user \in LoanPrograms /\ loans = [t \in Threads |-> 0] /\ block = <<>>
      /\ handles = [t \in Threads |-> [c \in L!Loans |-> 0]] /\ memory = [c \in L!Loans |-> "none"]
      /\ contents = [c \in L!Loans |-> {}] /\ tree = <<>>
      /\ work = [t \in Threads |-> L!Rest] /\ ended = FALSE
  BY DEF L!Init
<1>1. L!Made = {} /\ L!InTree = {}
  BY <1>0 DEF L!Made, L!InTree
<1>2. user \in [careful : BOOLEAN, confined : BOOLEAN] /\ ended \in BOOLEAN
  BY <1>0, LoanAssumption
<1>3. L!Rest \in LoanWork /\ L!Rest.step = "idle" /\ L!Rest.todo = {}
  BY DEF LoanWork, L!Rest
<1>4. LoanTypes
  <2>1. block \in Seq(ControlBlocks) /\ Len(block) = 0 /\ tree \in Seq(L!Loans)
    BY <1>0
  <2>2. Len(block) <= MaxLoans
    BY <2>1, LoanAssumption
  <2>3. handles \in PointerCountings
    BY <1>0 DEF PointerCountings
  <2>4. work \in [Threads -> LoanWork] /\ loans \in [Threads -> Nat]
    BY <1>0, <1>3
  <2>5. /\ memory \in [L!Loans -> {"none", "loaned", "published", "freed", "freed twice", "left"}]
        /\ contents \in [L!Loans -> SUBSET {"shared", "heap"}]
    BY <1>0
  <2> QED BY <2>1, <2>2, <2>3, <2>4, <2>5 DEF LoanTypes
<1>5. LoanCounts /\ LoanSteps /\ LoanOwners
  <2>1. LoanCounts
    BY <1>0, <1>1 DEF LoanCounts
  <2>2. LoanSteps
    BY <1>0, <1>3 DEF LoanSteps
  <2>3. L!OneOwner
    BY <1>0, <1>1 DEF L!OneOwner
  <2>4. LoanOwners
    BY <1>0, <1>3, <2>3 DEF LoanOwners
  <2> QED BY <2>1, <2>2, <2>4
<1>6. LoanReturns
  <2>1. \A t : L!Unreturned(t) = {}
    BY <1>1 DEF L!Unreturned
  <2>2. \A t \in Threads : loans[t] = Cardinality(L!Unreturned(t))
    BY <1>0, <2>1, FS_EmptySet
  <2>3. \A t \in Threads : work[t].step \notin {"publish", "cancel"}
    BY <1>0, <1>3
  <2> QED BY <1>1, <2>2, <2>3 DEF LoanReturns
<1> QED BY <1>0, <1>2, <1>4, <1>5, <1>6 DEF LoanInv, LoanParts

\* The other parts of MCMemory leave it alone.
LEMMA LoanInvStutters == LoanInv /\ UNCHANGED loanVars => LoanInv'
<1> SUFFICES ASSUME LoanInv, UNCHANGED loanVars PROVE LoanInv'
  OBVIOUS
<1>1. UNCHANGED <<user, ended, loans, block, handles, memory, contents, tree, work>>
  BY DEF loanVars
<1> QED BY <1>1, LoanPartsStutter DEF LoanInv

\* Every step of LoanedMessage preserves the invariant.
LEMMA LoanInvSteps == LoanInv /\ L!Next => LoanInv'
<1> SUFFICES ASSUME LoanInv, L!Next PROVE LoanInv'
  OBVIOUS
<1>1. ~ended
  BY DEF L!Next
<1>2. user' = user /\ ended' \in BOOLEAN
  <2>0. ended \in BOOLEAN
    BY DEF LoanInv
  <2>1. ASSUME NEW p \in Loaners, L!init_base(p) \/ L!RemovePublisher(p)
        PROVE  user' = user /\ ended' \in BOOLEAN
    BY <2>0, <2>1 DEF L!init_base, L!RemovePublisher
  <2>2. ASSUME NEW t \in Threads, NEW p \in Loaners, NEW ok \in BOOLEAN,
               L!borrow_loaned_message(t, p) \/ L!GenericPublish(t, p, ok)
        PROVE  user' = user /\ ended' \in BOOLEAN
    BY <2>0, <2>2 DEF L!borrow_loaned_message, L!GenericPublish
  <2>3. ASSUME NEW t \in Threads, NEW p \in Loaners, NEW c \in L!Made,
               L!publish(t, c, p) \/ L!cancel_message(t, c, p)
        PROVE  user' = user /\ ended' \in BOOLEAN
    BY <2>0, <2>3 DEF L!publish, L!cancel_message, L!Accept
  <2>4. ASSUME NEW t \in Threads, NEW c \in L!Made, L!Fill(t, c)
        PROVE  user' = user /\ ended' \in BOOLEAN
    BY <2>0, <2>4 DEF L!Fill
  <2>5. ASSUME NEW t \in Threads, NEW c \in L!Made, L!Drop(t, c)
        PROVE  ended' \in BOOLEAN
    BY <2>0, <2>5 DEF L!Drop
  <2>6. ASSUME NEW t \in Threads, NEW c \in L!Made, L!reset(t, c)
        PROVE  user' = user /\ ended' \in BOOLEAN
    BY <2>5, <2>6 DEF L!reset
  <2>7. ASSUME NEW t \in Threads, NEW u \in Threads, NEW c \in L!Made,
               L!CopyTo(t, u, c) \/ L!MoveTo(t, u, c)
        PROVE  user' = user /\ ended' \in BOOLEAN
    BY <2>0, <2>7 DEF L!CopyTo, L!MoveTo
  <2>8. ASSUME NEW t \in Threads, L!Invalidate(t)
        PROVE  user' = user /\ ended' \in BOOLEAN
    BY <2>0, <2>8 DEF L!Invalidate
  <2>9. ASSUME NEW t \in Threads, L!publish_core(t) \/ L!DeleteReleased(t) \/ L!RunDeleter(t)
        PROVE  user' = user /\ ended' \in BOOLEAN
    BY <2>0, <2>9 DEF L!publish_core, L!DeleteReleased, L!RunDeleter
  <2>10. ASSUME NEW t \in Threads, L!EndPublish(t)
         PROVE  user' = user /\ ended' \in BOOLEAN
    <3>1. L!Drop(t, work[t].loan) /\ user' = user
      BY <2>10 DEF L!EndPublish
    <3> QED BY <2>0, <3>1 DEF L!Drop
  <2>11. ASSUME NEW m \in L!Made, L!Reference(m) \/ L!Unreference(m)
         PROVE  user' = user /\ ended' \in BOOLEAN
    BY <2>0, <2>11 DEF L!Reference, L!Unreference
  <2> QED BY <2>1, <2>2, <2>3, <2>4, <2>6, <2>7, <2>8, <2>9, <2>10, <2>11 DEF L!Next
<1> SUFFICES ASSUME user.careful PROVE (user.confined => ~ended') /\ (~ended' => LoanParts')
  BY <1>2 DEF LoanInv
<1>3. LoanParts
  BY <1>1 DEF LoanInv
<1>4. ASSUME NEW p \in Loaners, L!init_base(p) \/ L!RemovePublisher(p)
      PROVE  ~ended' /\ LoanParts'
  <2>1. CASE L!init_base(p)
    BY <1>1, <1>3, <2>1, LoanPartsStutter DEF L!init_base
  <2>2. CASE L!RemovePublisher(p)
    BY <1>1, <1>3, <2>2, RemovePublisherSafe DEF L!RemovePublisher
  <2> QED BY <1>4, <2>1, <2>2
<1>5. ASSUME NEW t \in Threads, NEW p \in Loaners, L!borrow_loaned_message(t, p)
      PROVE  ~ended' /\ LoanParts'
  BY <1>1, <1>3, <1>5, LendSafe DEF L!borrow_loaned_message
<1>6. ASSUME NEW t \in Threads, NEW p \in Loaners, NEW ok \in BOOLEAN, L!GenericPublish(t, p, ok)
      PROVE  ~ended' /\ LoanParts'
  <2>1. PICK s \in {"publish", "cancel"} : s = IF ok THEN "publish" ELSE "cancel"
    OBVIOUS
  <2> QED BY <1>1, <1>3, <1>6, <2>1, LendSafe DEF L!GenericPublish
<1>7. ASSUME NEW t \in Threads, NEW p \in Loaners, NEW c \in L!Made,
             L!publish(t, c, p) \/ L!cancel_message(t, c, p)
      PROVE  ~ended' /\ LoanParts'
  BY <1>1, <1>3, <1>7, AcceptSafe DEF L!publish, L!cancel_message
<1>8. ASSUME NEW t \in Threads, NEW c \in L!Made, L!Fill(t, c) \/ L!reset(t, c)
      PROVE  (user.confined => ~ended') /\ (~ended' => LoanParts')
  BY <1>1, <1>3, <1>8, FillSafe, ResetSafe
<1>9. ASSUME NEW t \in Threads, NEW u \in Threads, NEW c \in L!Made,
             L!CopyTo(t, u, c) \/ L!MoveTo(t, u, c)
      PROVE  ~ended' /\ LoanParts'
  BY <1>1, <1>3, <1>9, CopyToSafe, MoveToSafe
<1>10. ASSUME NEW t \in Threads, L!Invalidate(t)
       PROVE  (user.confined => ~ended') /\ (~ended' => LoanParts')
  BY <1>1, <1>3, <1>10, InvalidateSafe
<1>11. ASSUME NEW t \in Threads, L!publish_core(t) \/ L!DeleteReleased(t) \/ L!RunDeleter(t) \/ L!EndPublish(t)
       PROVE  ~ended' /\ LoanParts'
  <2>1. CASE L!publish_core(t)
    BY <1>1, <1>3, <2>1, PublishSafe DEF L!publish_core
  <2>2. CASE L!DeleteReleased(t)
    BY <1>1, <1>3, <2>2, DeleteReleasedSafe DEF L!DeleteReleased
  <2>3. CASE L!RunDeleter(t)
    BY <1>1, <1>3, <2>3, RunDeleterSafe DEF L!RunDeleter
  <2>4. CASE L!EndPublish(t)
    BY <1>1, <1>3, <2>4, EndPublishSafe
  <2> QED BY <1>11, <2>1, <2>2, <2>3, <2>4
<1>12. ASSUME NEW m \in L!Made, L!Reference(m) \/ L!Unreference(m)
       PROVE  ~ended' /\ LoanParts'
  BY <1>1, <1>3, <1>12, LoanPartsStutter DEF L!Reference, L!Unreference
<1> QED BY <1>4, <1>5, <1>6, <1>7, <1>8, <1>9, <1>10, <1>11, <1>12 DEF L!Next

\* The invariant is what LoansSafe is about and more.
LEMMA LoanInvSuffices == LoanInv => LoansSafe
<1> SUFFICES ASSUME LoanInv, user.careful
             PROVE  (~ended => L!OneOwner) /\ (user.confined => L!LoansCounted)
  BY DEF LoansSafe, L!LoansSafe
<1>1. ~ended => L!OneOwner
  BY DEF LoanInv, LoanParts, LoanOwners
<1>2. ASSUME user.confined PROVE L!LoansCounted
  <2>1. ~ended /\ LoanTypes /\ LoanCounts /\ LoanOwners /\ LoanReturns
    BY <1>2 DEF LoanInv, LoanParts
  <2>2. \A t \in Threads : loans[t] = L!Cardinality(L!Unreturned(t))
    BY <2>1, CardinalityOfL DEF LoanReturns
  <2>3. \A m \in L!InTree : contents[m] = {"shared"}
    <3> TAKE m \in L!InTree
    <3>1. m \in L!Loans
      <4>1. tree \in Seq(L!Loans)
        BY <2>1 DEF LoanTypes
      <4>2. \A i \in DOMAIN tree : tree[i] \in L!Loans
        BY <4>1
      <4> QED BY <4>2 DEF L!InTree
    <3>2. memory[m] = "published"
      BY <2>1 DEF LoanOwners, L!OneOwner
    <3>3. m \in L!Made
      BY <2>1, <3>1, <3>2 DEF LoanCounts
    <3> QED BY <2>1, <3>3 DEF LoanReturns
  <2> QED BY <2>1, <2>2, <2>3 DEF L!LoansCounted
<1> QED BY <1>1, <1>2

\* LoanedMessage: in programs that use messages with care, on any number of threads, a
\* message in shared memory has one owner from borrow to release and no loan is lost; if
\* they also return loans where they borrowed them, a thread's count of loans is right,
\* everything published is in shared memory and the library never ends the process.
THEOREM LoansReturned == MemorySpec => []LoansSafe
<1>1. MemoryInit => LoanInv
  BY LoanInvStarts DEF MemoryInit
<1>2. LoanInv /\ [MemoryNext]_memoryVars => LoanInv'
  BY LoanInvSteps, LoanInvStutters DEF MemoryNext, memoryVars
<1> QED BY <1>1, <1>2, LoanInvSuffices, PTL DEF MemorySpec, memoryVars

=============================================================================
