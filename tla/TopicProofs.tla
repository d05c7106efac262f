---------------------------- MODULE TopicProofs ----------------------------
(***************************************************************************)
(* Proofs about Topic for every number of processes, endpoints and         *)
(* entries.  First the kernel's tables, without any assumption on how      *)
(* programs use the library: entry ids are finite and have least and       *)
(* greatest members, what each helper of the kernel module returns, every  *)
(* step keeps the types of the state; then the inductive invariant         *)
(* KernelInv, the exactness of watermarks and of delivery, and the history *)
(* depth.  The second half is about programs that use the library as       *)
(* documented: memory safety of zero-copy delivery, absence of fatal ioctl *)
(* errors and the refinement of MessageLifetime; then, for any program,    *)
(* who is told of a message and who may read it, and that no wake-up is    *)
(* lost.                                                                   *)
(***************************************************************************)
EXTENDS Topic, FiniteSetTheorems, WellFoundedInduction, TLAPS

\* Entry ids are natural numbers and there are finitely many of them, so every
\* set of entries has a cardinality.
LEMMA EntryIdsFinite ==
  /\ EntryIds \subseteq Nat
  /\ IsFiniteSet(EntryIds)
  /\ \A S \in SUBSET EntryIds : IsFiniteSet(S) /\ Cardinality(S) \in Nat
<1>1. MaxEntryId - 1 \in Int /\ 0 \in Int
  BY ConstantsAssumption
<1>2. IsFiniteSet(EntryIds)
  BY <1>1, FS_Interval DEF EntryIds
<1>3. \A S \in SUBSET EntryIds : IsFiniteSet(S)
  BY <1>2, FS_Subset
<1> QED BY <1>2, <1>3, FS_CardinalityType DEF EntryIds

\* Entry ids are integers.
LEMMA EntryIdsInt == \A e \in EntryIds : e \in Int
BY DEF EntryIds

\* A minimal member, with respect to inclusion, of a set of sets of entry ids.
LEMMA MinimalSet ==
  ASSUME NEW F \in SUBSET SUBSET EntryIds, F # {}
  PROVE  \E X \in F : \A Y \in F : Y \subseteq X => Y = X
<1>1. FiniteSubsetsOf(EntryIds) = SUBSET EntryIds
  BY EntryIdsFinite, FS_FiniteSubsetsOfFinite
<1>2. IsWellFoundedOn(StrictSubsetOrdering(EntryIds), SUBSET EntryIds)
  BY <1>1, FS_StrictSubsetOrderingWellFounded
<1>3. PICK X \in F : \A Y \in F : ~(<<Y, X>> \in StrictSubsetOrdering(EntryIds))
  BY <1>2, WFMin
<1>4. ASSUME NEW Y \in F, Y \subseteq X, Y # X PROVE FALSE
  <2>1. <<Y, X>> \in (SUBSET EntryIds) \X (SUBSET EntryIds)
    OBVIOUS
  <2>2. <<Y, X>> \in StrictSubsetOrdering(EntryIds)
    BY <2>1, <1>4 DEF StrictSubsetOrdering
  <2> QED BY <2>2, <1>3
<1> QED BY <1>4

\* MinOf picks the smallest member of a non-empty set of entry ids: the walk of
\* take_msg ends on a well-defined oldest candidate.
LEMMA MinOfProperty ==
  ASSUME NEW E \in SUBSET EntryIds, E # {}
  PROVE  MinOf(E) \in E /\ \A f \in E : MinOf(E) <= f
<1> DEFINE F == {0 .. e : e \in E}
<1>1. F \in SUBSET SUBSET EntryIds /\ F # {}
  <2>1. \A e \in E : 0 .. e \subseteq EntryIds
    BY ConstantsAssumption DEF EntryIds
  <2>2. F \in SUBSET SUBSET EntryIds
    BY <2>1
  <2> QED BY <2>2
<1>2. PICK X \in F : \A Y \in F : Y \subseteq X => Y = X
  <2> HIDE DEF F
  <2> QED BY <1>1, MinimalSet
<1>3. PICK m \in E : X = 0 .. m
  BY <1>2
<1>4. ASSUME NEW f \in E PROVE m <= f
  <2>1. 0 .. f \subseteq 0 .. m => 0 .. f = 0 .. m
    BY <1>2, <1>3
  <2>2. m \in Nat /\ f \in Nat
    BY EntryIdsFinite
  <2>3. CASE f < m
    <3>1. 0 .. f \subseteq 0 .. m
      BY <2>2, <2>3
    <3>2. m \in 0 .. f
      BY <2>1, <2>2, <3>1
    <3> QED BY <2>2, <2>3, <3>2
  <2> QED BY <2>2, <2>3
<1>5. \E e \in E : \A f \in E : e <= f
  BY <1>4
<1> QED BY <1>5 DEF MinOf

\* MaxOf picks the largest member of a non-empty set of entry ids: the watermark
\* receive_msg_core stores is the newest entry it returned.
LEMMA MaxOfProperty ==
  ASSUME NEW E \in SUBSET EntryIds, E # {}
  PROVE  MaxOf(E) \in E /\ \A f \in E : f <= MaxOf(E)
<1> DEFINE last == MaxEntryId - 1
<1> DEFINE F == {e .. last : e \in E}
<1>1. F \in SUBSET SUBSET EntryIds /\ F # {}
  <2>1. \A e \in E : e .. last \subseteq EntryIds
    BY ConstantsAssumption DEF EntryIds
  <2>2. F \in SUBSET SUBSET EntryIds
    BY <2>1
  <2> QED BY <2>2
<1>2. PICK X \in F : \A Y \in F : Y \subseteq X => Y = X
  <2> HIDE DEF F
  <2> QED BY <1>1, MinimalSet
<1>3. PICK m \in E : X = m .. last
  BY <1>2
<1>4. ASSUME NEW f \in E PROVE f <= m
  <2>1. f .. last \subseteq m .. last => f .. last = m .. last
    BY <1>2, <1>3
  <2>2. m \in Nat /\ f \in Nat /\ m <= last /\ f <= last /\ last \in Int
    BY ConstantsAssumption DEF EntryIds
  <2> HIDE DEF last
  <2>3. CASE m < f
    <3>1. f .. last \subseteq m .. last
      BY <2>2, <2>3
    <3>2. m \in f .. last
      BY <2>1, <2>2, <3>1
    <3> QED BY <2>2, <2>3, <3>2
  <2> QED BY <2>2, <2>3
<1>5. \E e \in E : \A f \in E : f <= e
  BY <1>4
<1> QED BY <1>5 DEF MaxOf
-----------------------------------------------------------------------------
(* What the helpers return.                                                *)

\* A publisher's entries, and those of them in a set D, are finite.
LEMMA OwnedByFinite ==
  ASSUME NEW ent, IsEntryTree(ent), NEW i, NEW D
  PROVE  /\ OwnedBy(ent, i) \in SUBSET EntryIds
         /\ Cardinality(OwnedBy(ent, i)) \in Nat
         /\ Cardinality(OwnedBy(ent, i) \cap D) \in Nat
<1>1. OwnedBy(ent, i) \in SUBSET EntryIds
  BY DEF OwnedBy, IsEntryTree
<1>2. OwnedBy(ent, i) \cap D \in SUBSET EntryIds
  BY <1>1
<1> QED BY <1>1, <1>2, EntryIdsFinite

\* rebuild_all_notify_lists changes the notify lists and nothing else.
LEMMA RebuildType ==
  ASSUME NEW pb, NEW sb, IsPubTable(pb), IsSubTable(sb)
  PROVE  /\ IsPubTable(rebuild_all_notify_lists(pb, sb))
         /\ DOMAIN rebuild_all_notify_lists(pb, sb) = DOMAIN pb
         /\ \A i \in DOMAIN pb :
              /\ rebuild_all_notify_lists(pb, sb)[i].pid = pb[i].pid
              /\ rebuild_all_notify_lists(pb, sb)[i].num = pb[i].num
              /\ rebuild_all_notify_lists(pb, sb)[i].qos = pb[i].qos
<1>1. \A i \in DOMAIN pb : rebuild_notify_list(pb[i], sb) \in SUBSET Ids
  BY DEF rebuild_notify_list, IsSubTable
<1>2. \A i \in DOMAIN pb : pb[i] \in PubInfo
  BY DEF IsPubTable
<1>3. \A i \in DOMAIN pb :
        [pb[i] EXCEPT !.notify = rebuild_notify_list(pb[i], sb)] \in PubInfo
  BY <1>1, <1>2 DEF PubInfo
<1> QED BY <1>2, <1>3 DEF rebuild_all_notify_lists, IsPubTable, PubInfo

\* entries_num of publisher i once the entries of D are erased.
Left(pb, ent, D, i) == pb[i].num - Cardinality(OwnedBy(ent, i) \cap D)

\* Discharge lowers entries_num by the erased entries and drops only publishers
\* of F that are left with none.
LEMMA DischargeType ==
  ASSUME NEW pb, NEW ent, NEW D, NEW F, IsPubTable(pb), IsEntryTree(ent)
  PROVE  /\ IsPubTable(Discharge(pb, ent, D, F))
         /\ DOMAIN Discharge(pb, ent, D, F) \subseteq DOMAIN pb
         /\ \A j \in DOMAIN pb :
              j \in DOMAIN Discharge(pb, ent, D, F)
                <=> (j \in F => Left(pb, ent, D, j) # 0)
         /\ \A i \in DOMAIN Discharge(pb, ent, D, F) :
              /\ Discharge(pb, ent, D, F)[i].pid = pb[i].pid
              /\ Discharge(pb, ent, D, F)[i].qos = pb[i].qos
              /\ Discharge(pb, ent, D, F)[i].num = Left(pb, ent, D, i)
<1> DEFINE left(i) == Left(pb, ent, D, i)
<1>1. \A i \in DOMAIN pb : pb[i] \in PubInfo
  BY DEF IsPubTable
<1>2. \A i \in DOMAIN pb : left(i) \in Int
  <2>1. \A i : Cardinality(OwnedBy(ent, i) \cap D) \in Nat
    BY OwnedByFinite
  <2>2. \A i \in DOMAIN pb : pb[i].num \in Int
    BY <1>1 DEF PubInfo
  <2> QED BY <2>1, <2>2 DEF Left
<1>3. Discharge(pb, ent, D, F) =
        [i \in {j \in DOMAIN pb : j \in F => left(j) # 0} |->
           [pb[i] EXCEPT !.num = left(i)]]
  BY DEF Discharge, Left
<1> HIDE DEF left
<1>4. \A i \in DOMAIN pb : [pb[i] EXCEPT !.num = left(i)] \in PubInfo
  BY <1>1, <1>2 DEF PubInfo
<1>5. \A i \in DOMAIN pb : /\ [pb[i] EXCEPT !.num = left(i)].pid = pb[i].pid
                           /\ [pb[i] EXCEPT !.num = left(i)].qos = pb[i].qos
                           /\ [pb[i] EXCEPT !.num = left(i)].num = left(i)
  BY <1>1 DEF PubInfo
<1>6. DOMAIN pb \subseteq Ids
  BY DEF IsPubTable
<1>7. /\ IsPubTable(Discharge(pb, ent, D, F))
      /\ DOMAIN Discharge(pb, ent, D, F) \subseteq DOMAIN pb
      /\ \A j \in DOMAIN pb :
           j \in DOMAIN Discharge(pb, ent, D, F) <=> (j \in F => left(j) # 0)
      /\ \A i \in DOMAIN Discharge(pb, ent, D, F) :
           /\ Discharge(pb, ent, D, F)[i].pid = pb[i].pid
           /\ Discharge(pb, ent, D, F)[i].qos = pb[i].qos
           /\ Discharge(pb, ent, D, F)[i].num = left(i)
  BY <1>3, <1>4, <1>5, <1>6 DEF IsPubTable
<1> QED BY <1>7 DEF left

\* agnocast_remove_entry_node leaves the other entries as they were.
LEMMA RemoveType ==
  ASSUME NEW ent, NEW D, IsEntryTree(ent)
  PROVE  /\ IsEntryTree(agnocast_remove_entry_node(ent, D))
         /\ DOMAIN agnocast_remove_entry_node(ent, D) = DOMAIN ent \ D
         /\ \A e \in DOMAIN ent \ D :
              agnocast_remove_entry_node(ent, D)[e] = ent[e]
BY DEF agnocast_remove_entry_node, IsEntryTree

\* clear_references takes the bits of S off every entry.
LEMMA ClearType ==
  ASSUME NEW ent, NEW S, IsEntryTree(ent)
  PROVE  /\ IsEntryTree(clear_references(ent, S))
         /\ DOMAIN clear_references(ent, S) = DOMAIN ent
         /\ \A e \in DOMAIN ent :
              /\ clear_references(ent, S)[e].pub = ent[e].pub
              /\ clear_references(ent, S)[e].refs = ent[e].refs \ S
<1>1. \A e \in DOMAIN ent : ent[e] \in Entry
  BY DEF IsEntryTree
<1>2. \A e \in DOMAIN ent : [ent[e] EXCEPT !.refs = @ \ S] \in Entry
  BY <1>1 DEF Entry
<1> QED BY <1>1, <1>2 DEF clear_references, IsEntryTree, Entry

\* add_subscriber_reference sets the bit of s on the entries of E only.
LEMMA AddReferenceType ==
  ASSUME NEW ent, NEW s \in Ids, NEW E, IsEntryTree(ent)
  PROVE  /\ IsEntryTree(add_subscriber_reference(ent, s, E))
         /\ DOMAIN add_subscriber_reference(ent, s, E) = DOMAIN ent
         /\ \A e \in DOMAIN ent :
              /\ add_subscriber_reference(ent, s, E)[e].pub = ent[e].pub
              /\ add_subscriber_reference(ent, s, E)[e].refs =
                   IF e \in E THEN ent[e].refs \cup {s} ELSE ent[e].refs
<1>1. \A e \in DOMAIN ent : ent[e] \in Entry
  BY DEF IsEntryTree
<1> DEFINE new(e) == [ent[e] EXCEPT !.refs = IF e \in E THEN @ \cup {s} ELSE @]
<1>2. \A e \in DOMAIN ent :
        /\ new(e) \in Entry
        /\ new(e).pub = ent[e].pub
        /\ new(e).refs = IF e \in E THEN ent[e].refs \cup {s} ELSE ent[e].refs
  BY <1>1 DEF Entry
<1>3. add_subscriber_reference(ent, s, E) = [e \in DOMAIN ent |-> new(e)]
  BY DEF add_subscriber_reference
<1> HIDE DEF new
<1> QED BY <1>2, <1>3 DEF IsEntryTree

\* Storing latest_received_entry_id changes one field of one subscriber.
LEMMA LatestType ==
  ASSUME NEW sb, NEW s \in DOMAIN sb, NEW v \in Int, IsSubTable(sb)
  PROVE  LET new == [sb EXCEPT ![s].latest = v]
         IN  /\ IsSubTable(new)
             /\ DOMAIN new = DOMAIN sb
             /\ \A t \in DOMAIN sb :
                  /\ new[t].pid = sb[t].pid
                  /\ new[t].qos = sb[t].qos
                  /\ new[t].latest = IF t = s THEN v ELSE sb[t].latest
BY DEF IsSubTable, SubInfo

\* The empty table is a table of each kind.
LEMMA EmptyType ==
  /\ DOMAIN Empty = {}
  /\ IsPubTable(Empty)
  /\ IsSubTable(Empty)
  /\ IsEntryTree(Empty)
BY DEF Empty, IsPubTable, IsSubTable, IsEntryTree

-----------------------------------------------------------------------------
(* Type correctness.                                                       *)

\* The part of TypeOK about the topic_struct.
TopicTypeOK ==
  /\ wrappers \subseteq Domains
  /\ IsPubTable(pubs)
  /\ IsSubTable(subs)
  /\ IsEntryTree(entries)
  /\ nextId \in 0 .. MaxTopicLocalId
  /\ nextEntry \in 0 .. MaxEntryId

\* The part of TypeOK about the library.
UserTypeOK ==
  /\ running \subseteq Pids
  /\ pubObj \subseteq Pids \X Ids
  /\ subObj \subseteq Pids \X Ids
  /\ unprepared \subseteq Pids \X Ids
  /\ ready \in [Pids \X Ids -> Nat]
  /\ held \subseteq Pids \X Ids \X EntryIds
  /\ fatal \subseteq Pids

\* TypeOK by its parts.
LEMMA TypeParts ==
  TypeOK <=> /\ proc \in [Pids -> {"none", "alive", "exited", "gone"}]
             /\ TopicTypeOK
             /\ UserTypeOK
             /\ signalling \subseteq Ids
             /\ eventfd \subseteq Ids
BY DEF TypeOK, TopicTypeOK, UserTypeOK

\* Releasing wrappers installs well-typed tables.
LEMMA ReleaseWrapperType ==
  ASSUME TopicTypeOK, NEW D, NEW pb, NEW sb, NEW ent,
         IsPubTable(pb), IsSubTable(sb), IsEntryTree(ent),
         agnocast_release_topic_wrapper(D, pb, sb, ent)
  PROVE  TopicTypeOK'
<1> DEFINE left == {d \in wrappers :
                      d \in D => agnocast_wrapper_has_domain_endpoints(d, pb, sb)}
<1>1. /\ wrappers' = left
      /\ pubs' = IF left = {} THEN Empty ELSE pb
      /\ subs' = IF left = {} THEN Empty ELSE sb
      /\ entries' = IF left = {} THEN Empty ELSE ent
      /\ nextId' = IF left = {} THEN 0 ELSE nextId
      /\ nextEntry' = IF left = {} THEN 0 ELSE nextEntry
  BY DEF agnocast_release_topic_wrapper
<1>2. left \subseteq wrappers
  OBVIOUS
<1> HIDE DEF left
<1>3. /\ IsPubTable(pubs')
      /\ IsSubTable(subs')
      /\ IsEntryTree(entries')
  BY <1>1, EmptyType
<1>4. nextId' \in 0 .. MaxTopicLocalId /\ nextEntry' \in 0 .. MaxEntryId
  BY <1>1, ConstantsAssumption DEF TopicTypeOK
<1>5. (IsPubTable(pubs))' /\ (IsSubTable(subs))' /\ (IsEntryTree(entries))'
  BY <1>3 DEF IsPubTable, IsSubTable, IsEntryTree
<1> QED BY <1>1, <1>2, <1>4, <1>5 DEF TopicTypeOK

\* A leaving subscriber leaves well-typed tables behind.
LEMMA LeaveTopicType ==
  ASSUME TopicTypeOK, NEW pr, NEW D, NEW pb, NEW sb, NEW ent, NEW S,
         IsPubTable(pb), IsSubTable(sb), IsEntryTree(ent),
         LeaveTopic(pr, D, pb, sb, ent, S)
  PROVE  TopicTypeOK'
<1> DEFINE cleared == clear_references(ent, S)
           dead == Abandoned(pr, pb, cleared)
           newPubs == Discharge(pb, cleared, dead, PublishersOf(cleared, dead))
           newEntries == agnocast_remove_entry_node(cleared, dead)
<1>1. IsEntryTree(cleared)
  BY ClearType
<1>2. agnocast_release_topic_wrapper(D, newPubs, sb, newEntries)
  BY DEF LeaveTopic
<1>3. IsPubTable(newPubs)
  <2> HIDE DEF cleared, dead
  <2> QED BY <1>1, DischargeType
<1>4. IsEntryTree(newEntries)
  <2> HIDE DEF cleared, dead
  <2> QED BY <1>1, RemoveType
<1> HIDE DEF newPubs, newEntries
<1> QED BY <1>2, <1>3, <1>4, ReleaseWrapperType

\* The end of a process keeps the types of the user-space state.
LEMMA EndsType ==
  ASSUME UserTypeOK, NEW p \in Pids, Ends(p), fatal' \in SUBSET Pids
  PROVE  UserTypeOK'
BY DEF UserTypeOK, Ends

\* So does exit(EXIT_FAILURE).
LEMMA AbortsType ==
  ASSUME UserTypeOK, NEW p \in Pids, Aborts(p)
  PROVE  UserTypeOK'
BY EndsType DEF UserTypeOK, Aborts

\* Every step keeps every table, counter and object within its type.
LEMMA TypeStep ==
  ASSUME TypeOK, signalling \subseteq DOMAIN pubs, [Next]_vars
  PROVE  TypeOK'
<1> USE ConstantsAssumption
<1>1. ASSUME NEW p \in Pids, AddProcess(p) PROVE TypeOK'
  BY <1>1 DEF TypeOK, AddProcess, topicVars, IsPubTable, IsSubTable, IsEntryTree
<1>2. ASSUME NEW p \in Pids, ProcessDies(p) PROVE TypeOK'
  <2>1. UserTypeOK'
    BY <1>2, EndsType DEF ProcessDies, TypeOK, UserTypeOK
  <2> QED BY <1>2, <2>1 DEF TypeOK, UserTypeOK, ProcessDies, kernelVars,
            IsPubTable, IsSubTable, IsEntryTree
<1>3. ASSUME NEW p \in Pids, agnocast_process_exit_cleanup(p) PROVE TypeOK'
  <2> DEFINE mine    == {i \in DOMAIN pubs : pubs[i].pid = p}
             unread  == {e \in DOMAIN entries :
                           /\ entries[e].pub \in mine
                           /\ ~agnocast_is_referenced(entries, e)}
             pb      == Discharge(pubs, entries, unread, mine)
             ent     == agnocast_remove_entry_node(entries, unread)
             leaving == {s \in DOMAIN subs : subs[s].pid = p}
             sb      == [s \in DOMAIN subs \ leaving |-> subs[s]]
  <2>1. IsPubTable(pb) /\ IsEntryTree(ent)
    <3> HIDE DEF mine, unread
    <3> QED BY DischargeType, RemoveType DEF TypeOK
  <2>2. IsSubTable(sb)
    <3> HIDE DEF leaving
    <3> QED BY DEF TypeOK, IsSubTable
  <2>3. /\ IF leaving = {}
           THEN agnocast_release_topic_wrapper(Domains, pb, sb, ent)
           ELSE LeaveTopic(proc', Domains, rebuild_all_notify_lists(pb, sb),
                           sb, ent, leaving)
        /\ eventfd' = eventfd \ leaving
    BY <1>3 DEF agnocast_process_exit_cleanup
  <2>4. TopicTypeOK
    BY TypeParts
  <2> HIDE DEF pb, ent, sb, leaving
  <2>5. TopicTypeOK'
    <3>1. CASE leaving = {}
      BY <2>1, <2>2, <2>3, <2>4, <3>1, ReleaseWrapperType
    <3>2. CASE leaving # {}
      BY <2>1, <2>2, <2>3, <2>4, <3>2, LeaveTopicType, RebuildType
    <3> QED BY <3>1, <3>2
  <2> QED BY <1>3, <2>3, <2>5 DEF TypeOK, TopicTypeOK, userVars,
            agnocast_process_exit_cleanup
<1>4. ASSUME NEW p \in Pids, agnocast_commit_exit_process(p) PROVE TypeOK'
  BY <1>4 DEF TypeOK, agnocast_commit_exit_process, topicVars, userVars,
     IsPubTable, IsSubTable, IsEntryTree
<1>5. ASSUME NEW p \in Pids, AddEndpointFails(p) PROVE TypeOK'
  <2>1. UserTypeOK'
    BY <1>5, EndsType DEF AddEndpointFails, TypeOK, UserTypeOK
  <2>2. wrappers' \subseteq Domains
    BY <1>5 DEF AddEndpointFails, add_topic, TypeOK
  <2> QED BY <1>5, <2>1, <2>2 DEF TypeOK, UserTypeOK, AddEndpointFails,
            IsPubTable, IsSubTable, IsEntryTree
<1>6. ASSUME NEW p \in Pids, NEW q \in PubQos, AddPublisher(p, q) PROVE TypeOK'
  <2> DEFINE new == [pid |-> p, qos |-> q, num |-> 0, notify |-> {}]
             pub == [new EXCEPT !.notify = rebuild_notify_list(new, subs)]
  <2>1. /\ pubs' = [i \in DOMAIN pubs \cup {nextId} |->
                      IF i = nextId THEN pub ELSE pubs[i]]
        /\ nextId' = nextId + 1
        /\ pubObj' = pubObj \cup {<<p, nextId>>}
    BY <1>6 DEF AddPublisher
  <2>2. rebuild_notify_list(new, subs) \in SUBSET Ids
    <3> HIDE DEF new
    <3> QED BY DEF rebuild_notify_list, TypeOK, IsSubTable
  <2>3. pub \in PubInfo
    <3> DEFINE N == rebuild_notify_list(new, subs)
    <3>1. pub = [pid |-> p, qos |-> q, num |-> 0, notify |-> N]
      OBVIOUS
    <3> HIDE DEF N, pub
    <3> QED BY <2>2, <3>1 DEF PubInfo, N
  <2>4. nextId \in Ids /\ nextId' \in 0 .. MaxTopicLocalId
    BY <1>6, <2>1 DEF AddPublisher, HasFreeId, Ids, TypeOK
  <2> HIDE DEF pub
  <2>5. IsPubTable(pubs')
    BY <2>1, <2>3, <2>4 DEF IsPubTable, TypeOK
  <2>6. wrappers' \subseteq Domains
    BY <1>6 DEF AddPublisher, add_topic, TypeOK
  <2>7. TopicTypeOK'
    BY <1>6, <2>4, <2>5, <2>6 DEF AddPublisher, TypeOK, TopicTypeOK, IsPubTable,
       IsSubTable, IsEntryTree
  <2>8. UserTypeOK'
    BY <1>6, <2>1, <2>4 DEF AddPublisher, TypeOK, UserTypeOK
  <2> QED BY <1>6, <2>7, <2>8 DEF AddPublisher, TypeOK, TopicTypeOK, UserTypeOK
<1>7. ASSUME NEW p \in Pids, NEW q \in SubQos, AddSubscriber(p, q) PROVE TypeOK'
  <2> DEFINE sub == [pid |-> p, qos |-> q,
                     latest |-> IF q.tl THEN -1 ELSE nextEntry]
             sb  == [s \in DOMAIN subs \cup {nextId} |->
                       IF s = nextId THEN sub ELSE subs[s]]
  <2>1. /\ subs' = sb
        /\ pubs' = IF q.take THEN pubs ELSE rebuild_all_notify_lists(pubs, sb)
        /\ nextId' = nextId + 1
        /\ nextEntry' = IF q.tl THEN nextEntry ELSE nextEntry + 1
        /\ subObj' = subObj \cup {<<p, nextId>>}
        /\ unprepared' = IF q.take THEN unprepared
                         ELSE unprepared \cup {<<p, nextId>>}
    BY <1>7 DEF AddSubscriber
  <2>2. sub \in SubInfo
    BY DEF SubInfo, TypeOK
  <2>3. nextId \in Ids /\ nextId' \in 0 .. MaxTopicLocalId
    BY <1>7, <2>1 DEF AddSubscriber, HasFreeId, Ids, TypeOK
  <2>4. nextEntry' \in 0 .. MaxEntryId
    BY <1>7, <2>1 DEF AddSubscriber, TypeOK
  <2> HIDE DEF sub
  <2>5. IsSubTable(sb)
    BY <2>2, <2>3 DEF IsSubTable, TypeOK
  <2> HIDE DEF sb
  <2>6. IsPubTable(pubs')
    BY <2>1, <2>5, RebuildType DEF TypeOK
  <2>7. wrappers' \subseteq Domains
    BY <1>7 DEF AddSubscriber, add_topic, TypeOK
  <2>8. TopicTypeOK'
    <3>1. IsSubTable(subs')
      BY <2>1, <2>5
    <3> QED BY <1>7, <2>3, <2>4, <2>6, <2>7, <3>1 DEF AddSubscriber, TypeOK,
              TopicTypeOK, IsPubTable, IsSubTable, IsEntryTree
  <2>9. UserTypeOK'
    BY <1>7, <2>1, <2>3 DEF AddSubscriber, TypeOK, UserTypeOK
  <2> QED BY <1>7, <2>8, <2>9 DEF AddSubscriber, TypeOK, TopicTypeOK, UserTypeOK
<1>8. ASSUME NEW p \in Pids, NEW i \in Ids, RemovePublisher(p, i) PROVE TypeOK'
  <2> DEFINE unread == {e \in OwnedBy(entries, i) :
                          ~agnocast_is_referenced(entries, e)}
             pb == Discharge(pubs, entries, unread, {i})
             ent == agnocast_remove_entry_node(entries, unread)
  <2>1. IsPubTable(pb) /\ IsEntryTree(ent)
    <3> HIDE DEF unread
    <3> QED BY DischargeType, RemoveType DEF TypeOK
  <2>2. IF DomainOf[p] \in wrappers /\ i \in DOMAIN pubs
        THEN agnocast_release_topic_wrapper({DomainOf[p]}, pb, subs, ent)
        ELSE UNCHANGED topicVars
    BY <1>8 DEF RemovePublisher
  <2> HIDE DEF pb, ent
  <2>3. TopicTypeOK /\ IsSubTable(subs)
    BY TypeParts DEF TypeOK
  <2>4. TopicTypeOK'
    <3>1. CASE UNCHANGED topicVars
      BY <2>3, <3>1 DEF TopicTypeOK, topicVars, IsPubTable, IsSubTable, IsEntryTree
    <3> QED BY <2>1, <2>2, <2>3, <3>1, ReleaseWrapperType
  <2> QED BY <1>8, <2>4 DEF RemovePublisher, TypeOK, TopicTypeOK
<1>9. ASSUME NEW p \in Pids, NEW s \in Ids, RemoveSubscriber(p, s) PROVE TypeOK'
  <2> DEFINE sb == [t \in DOMAIN subs \ {s} |-> subs[t]]
             pb == IF subs[s].qos.take THEN pubs
                   ELSE rebuild_all_notify_lists(pubs, sb)
  <2>1. IF DomainOf[p] \in wrappers /\ s \in DOMAIN subs
        THEN /\ LeaveTopic(proc, {DomainOf[p]}, pb, sb, entries, {s})
             /\ eventfd' = eventfd \ {s}
        ELSE UNCHANGED <<topicVars, eventfd>>
    BY <1>9 DEF RemoveSubscriber
  <2>2. IsSubTable(sb)
    BY DEF TypeOK, IsSubTable
  <2> HIDE DEF sb
  <2>3. IsPubTable(pb)
    BY <2>2, RebuildType DEF TypeOK
  <2> HIDE DEF pb
  <2>4. TopicTypeOK /\ IsEntryTree(entries)
    BY TypeParts DEF TypeOK
  <2>5. TopicTypeOK' /\ eventfd' \subseteq Ids
    <3>1. CASE UNCHANGED <<topicVars, eventfd>>
      BY <2>4, <3>1 DEF TypeOK, TopicTypeOK, topicVars, IsPubTable, IsSubTable,
         IsEntryTree
    <3>2. CASE LeaveTopic(proc, {DomainOf[p]}, pb, sb, entries, {s})
               /\ eventfd' = eventfd \ {s}
      BY <2>2, <2>3, <2>4, <3>2, LeaveTopicType DEF TypeOK
    <3> QED BY <2>1, <3>1, <3>2
  <2> QED BY <1>9, <2>5 DEF RemoveSubscriber, TypeOK, TopicTypeOK
<1>10. ASSUME NEW p \in Pids, NEW i \in Ids, Publish(p, i) PROVE TypeOK'
  <2>1. CASE publish_error(p, i)
    <3>1. Aborts(p) /\ UNCHANGED kernelVars
      BY <1>10, <2>1 DEF Publish
    <3>2. UserTypeOK'
      BY <3>1, AbortsType, TypeParts
    <3> QED BY <3>1, <3>2 DEF TypeOK, UserTypeOK, kernelVars, IsPubTable,
              IsSubTable, IsEntryTree
  <2>2. CASE ~publish_error(p, i)
    <3> DEFINE ent == [e \in DOMAIN entries \cup {nextEntry} |->
                         IF e = nextEntry THEN [pub |-> i, refs |-> {}]
                         ELSE entries[e]]
               seen == Searched(ent, OwnedBy(ent, i), pubs[i].num + 1,
                                pubs[i].qos.depth)
               released == {e \in seen \ {nextEntry} :
                              ~agnocast_is_referenced(ent, e)}
    <3>1. /\ entries' = agnocast_remove_entry_node(ent, released)
          /\ pubs' = [pubs EXCEPT ![i].num = @ + 1 - Cardinality(released)]
          /\ nextEntry' = nextEntry + 1
          /\ IF nextEntry \in seen
             THEN Aborts(p) /\ UNCHANGED signalling
             ELSE /\ signalling' = signalling \cup {i}
                  /\ UNCHANGED userVars
          /\ UNCHANGED <<proc, wrappers, subs, nextId, eventfd>>
      BY <1>10, <2>2 DEF Publish
    <3>2. nextEntry \in EntryIds /\ nextEntry' \in 0 .. MaxEntryId
      BY <1>10, <3>1 DEF Publish, TypeOK, EntryIds
    <3>3. IsEntryTree(ent)
      BY <3>2 DEF IsEntryTree, TypeOK, Entry
    <3>4. released \in SUBSET EntryIds
      <4> HIDE DEF ent
      <4> QED BY <3>3, OwnedByFinite DEF Searched
    <3>5. Cardinality(released) \in Nat
      <4> HIDE DEF released
      <4> QED BY <3>4, EntryIdsFinite
    <3> HIDE DEF ent, seen, released
    <3>6. IsEntryTree(entries')
      BY <3>1, <3>3, RemoveType
    <3>7. i \in DOMAIN pubs
      BY <2>2 DEF publish_error
    <3>8. IsPubTable(pubs')
      BY <3>1, <3>5, <3>7 DEF IsPubTable, TypeOK, PubInfo
    <3>9. TopicTypeOK'
      BY <3>1, <3>2, <3>6, <3>8 DEF TypeOK, TopicTypeOK, IsPubTable,
         IsSubTable, IsEntryTree
    <3>10. UserTypeOK' /\ signalling' \subseteq Ids
      <4>1. CASE nextEntry \in seen
        BY <3>1, <4>1, AbortsType, TypeParts
      <4>2. CASE nextEntry \notin seen
        BY <3>1, <4>2 DEF TypeOK, UserTypeOK, userVars
      <4> QED BY <4>1, <4>2
    <3> QED BY <3>1, <3>9, <3>10 DEF TypeOK, TopicTypeOK, UserTypeOK
  <2> QED BY <2>1, <2>2
<1>11. ASSUME NEW i \in Ids, PublishSignal(i), signalling \subseteq DOMAIN pubs
       PROVE  TypeOK'
  <2>1. i \in DOMAIN pubs /\ pubs[i].notify \subseteq Ids
    BY <1>11 DEF PublishSignal, TypeOK, IsPubTable, PubInfo
  <2> QED BY <1>11, <2>1 DEF PublishSignal, TypeOK, topicVars, userVars,
            IsPubTable, IsSubTable, IsEntryTree
<1>12. ASSUME NEW p \in Pids, NEW s \in Ids, Receive(p, s) PROVE TypeOK'
  <2> DEFINE window == ReceiveWindow(s)
             batch  == Oldest(window, MaxReceiveNum)
             got    == Claimable(s, batch)
  <2>1. batch \in SUBSET DOMAIN entries
    BY DEF ReceiveWindow, Unreceived, Newest, Oldest
  <2>2. batch \in SUBSET EntryIds
    BY <2>1 DEF TypeOK, IsEntryTree
  <2>3. /\ <<p, s>> \in DOMAIN ready
        /\ ready[<<p, s>>] \in Nat \ {0}
    BY <1>12 DEF Receive, TypeOK
  <2>4. CASE NotFound(p, s)
    <3>1. Aborts(p) /\ UNCHANGED kernelVars
      BY <1>12, <2>4 DEF Receive, kernelVars
    <3>2. UserTypeOK'
      BY <3>1, AbortsType, TypeParts
    <3> QED BY <3>1, <3>2 DEF TypeOK, UserTypeOK, kernelVars, IsPubTable,
              IsSubTable, IsEntryTree
  <2>5. CASE ~NotFound(p, s)
    <3>1. /\ entries' = add_subscriber_reference(entries, s, got)
          /\ IF got # batch \/ MeetsOrphan(s, Unreceived(s))
             THEN Aborts(p) /\ UNCHANGED subs
             ELSE /\ subs' = [subs EXCEPT ![s].latest =
                                IF batch = {} THEN @ ELSE MaxOf(batch)]
                  /\ held' = held \cup {<<p, s, e>> : e \in batch}
                  /\ ready' = [ready EXCEPT ![<<p, s>>] =
                                 IF ret_call_again(batch, window)
                                 THEN @ ELSE @ - 1]
                  /\ UNCHANGED <<running, pubObj, subObj, unprepared, fatal>>
          /\ UNCHANGED <<proc, wrappers, pubs, nextId, nextEntry, signalling,
                         eventfd>>
      BY <1>12, <2>5 DEF Receive, latest_received
    <3> HIDE DEF window, batch, got
    <3>2. IsEntryTree(entries')
      BY <3>1, AddReferenceType DEF TypeOK
    <3>3. s \in DOMAIN subs
      BY <2>5 DEF NotFound
    <3>4. UserTypeOK' /\ IsSubTable(subs')
      <4>1. CASE got # batch \/ MeetsOrphan(s, Unreceived(s))
        BY <3>1, <4>1, AbortsType, TypeParts DEF TypeOK
      <4>2. CASE ~(got # batch \/ MeetsOrphan(s, Unreceived(s)))
        <5>1. batch # {} => MaxOf(batch) \in Int
          <6>1. batch # {} => MaxOf(batch) \in EntryIds
            BY <2>2, MaxOfProperty
          <6> QED BY <6>1, EntryIdsInt
        <5>2. IsSubTable(subs')
          <6> DEFINE v == IF batch = {} THEN subs[s].latest ELSE MaxOf(batch)
          <6>1. v \in Int
            BY <3>3, <5>1 DEF TypeOK, IsSubTable, SubInfo
          <6>2. subs' = [subs EXCEPT ![s].latest = v]
            BY <3>1, <4>2
          <6> HIDE DEF v
          <6> QED BY <3>3, <6>1, <6>2, LatestType DEF TypeOK
        <5>3. held' \subseteq Pids \X Ids \X EntryIds
          BY <2>2, <3>1, <4>2 DEF TypeOK
        <5>4. ready' \in [Pids \X Ids -> Nat]
          <6> DEFINE v == IF ret_call_again(batch, window) THEN ready[<<p, s>>]
                          ELSE ready[<<p, s>>] - 1
          <6>1. v \in Nat
            BY <2>3
          <6>2. ready' = [ready EXCEPT ![<<p, s>>] = v]
            BY <3>1, <4>2
          <6> HIDE DEF v
          <6> QED BY <6>1, <6>2 DEF TypeOK
        <5> QED BY <3>1, <4>2, <5>2, <5>3, <5>4 DEF TypeOK, UserTypeOK
      <4> QED BY <4>1, <4>2
    <3> QED BY <3>1, <3>2, <3>4 DEF TypeOK, UserTypeOK, IsPubTable, IsSubTable,
              IsEntryTree
  <2> QED BY <2>4, <2>5
<1>13. ASSUME NEW p \in Pids, NEW s \in Ids, NEW same \in BOOLEAN,
              Take(p, s, same)
       PROVE  TypeOK'
  <2> DEFINE scanned == {e \in DOMAIN entries :
                           \/ e > subs[s].latest
                           \/ same /\ e = subs[s].latest}
             window  == Newest({e \in scanned : is_entry_deliverable(s, e)},
                               subs[s].qos.depth)
             chosen  == IF window = {} THEN {} ELSE {MinOf(window)}
  <2>1. window \in SUBSET EntryIds
    BY DEF Newest, TypeOK, IsEntryTree
  <2>2. CASE Aborts(p) /\ UNCHANGED kernelVars
    <3>1. UserTypeOK'
      BY <2>2, AbortsType, TypeParts
    <3> QED BY <2>2, <3>1 DEF TypeOK, UserTypeOK, kernelVars, IsPubTable,
              IsSubTable, IsEntryTree
  <2>3. CASE ~(Aborts(p) /\ UNCHANGED kernelVars)
    <3>1. /\ ~NotFound(p, s)
          /\ entries' = add_subscriber_reference(entries, s, chosen)
          /\ subs' = [subs EXCEPT ![s].latest =
                        IF chosen = {} THEN @ ELSE MinOf(window)]
          /\ held' = held \cup {<<p, s, e>> : e \in chosen}
          /\ UNCHANGED <<running, pubObj, subObj, unprepared, ready, fatal>>
          /\ UNCHANGED <<proc, wrappers, pubs, nextId, nextEntry, signalling,
                         eventfd>>
      BY <1>13, <2>3 DEF Take, kernelVars
    <3>2. chosen \in SUBSET EntryIds /\ (chosen # {} => MinOf(window) \in Int)
      <4> HIDE DEF window
      <4>1. window # {} => MinOf(window) \in EntryIds
        BY <2>1, MinOfProperty
      <4>2. chosen # {} => MinOf(window) \in Int
        BY <4>1, EntryIdsInt
      <4>3. chosen \in SUBSET EntryIds
        BY <4>1
      <4> QED BY <4>2, <4>3
    <3> HIDE DEF window, chosen
    <3>3. IsEntryTree(entries')
      BY <3>1, AddReferenceType DEF TypeOK
    <3>4. s \in DOMAIN subs
      BY <3>1 DEF NotFound
    <3>5. IsSubTable(subs')
      BY <3>1, <3>2, <3>4 DEF IsSubTable, TypeOK, SubInfo
    <3>6. held' \subseteq Pids \X Ids \X EntryIds
      BY <3>1, <3>2 DEF TypeOK
    <3> QED BY <3>1, <3>3, <3>5, <3>6 DEF TypeOK, IsPubTable, IsSubTable,
              IsEntryTree
  <2> QED BY <2>2, <2>3
<1>14. ASSUME NEW p \in Pids, NEW s \in Ids, NEW e \in EntryIds, Release(p, s, e)
       PROVE  TypeOK'
  <2>1. CASE Aborts(p) /\ UNCHANGED kernelVars
    <3>1. UserTypeOK'
      BY <2>1, AbortsType, TypeParts
    <3> QED BY <2>1, <3>1 DEF TypeOK, UserTypeOK, kernelVars, IsPubTable,
              IsSubTable, IsEntryTree
  <2>2. CASE ~(Aborts(p) /\ UNCHANGED kernelVars)
    <3>1. /\ e \in DOMAIN entries
          /\ entries' = [entries EXCEPT ![e].refs = @ \ {s}]
          /\ held' = held \ {<<p, s, e>>}
          /\ UNCHANGED <<running, pubObj, subObj, unprepared, ready, fatal>>
          /\ UNCHANGED <<proc, wrappers, pubs, subs, nextId, nextEntry,
                         signalling, eventfd>>
      BY <1>14, <2>2 DEF Release, kernelVars
    <3>2. IsEntryTree(entries')
      BY <3>1 DEF IsEntryTree, TypeOK, Entry
    <3> QED BY <3>1, <3>2 DEF TypeOK, IsPubTable, IsSubTable, IsEntryTree
  <2> QED BY <2>1, <2>2
<1>15. ASSUME NEW p \in Pids, NEW s \in Ids, PrepareEpoll(p, s) PROVE TypeOK'
  BY <1>15 DEF PrepareEpoll, TypeOK, kernelVars, IsPubTable, IsSubTable,
     IsEntryTree
<1>16. ASSUME NEW p \in Pids, NEW s \in Ids, HandleEvent(p, s) PROVE TypeOK'
  BY <1>16 DEF HandleEvent, TypeOK, topicVars, IsPubTable, IsSubTable,
     IsEntryTree
<1>17. CASE UNCHANGED vars
  BY <1>17 DEF TypeOK, vars, IsPubTable, IsSubTable, IsEntryTree
<1> QED BY <1>1, <1>2, <1>3, <1>4, <1>5, <1>6, <1>7, <1>8, <1>9, <1>10, <1>11,
        <1>12, <1>13, <1>14, <1>15, <1>16, <1>17 DEF Next

-----------------------------------------------------------------------------
(***************************************************************************)
(* The inductive invariant KernelInv joins the type invariant, the         *)
(* accounting of entries, the watermark of references, the reachability of *)
(* endpoints and the ownership of objects: each is needed for the          *)
(* induction step of another.                                              *)
(***************************************************************************)

\* Erasing entries and discharging them keeps entries_num equal to the number
\* of entries, and frees no publisher an entry still points to.
LEMMA DischargeAccounted ==
  ASSUME NEW pb, NEW ent, NEW D, NEW F,
         IsPubTable(pb), IsEntryTree(ent), Accounted(pb, ent)
  PROVE  Accounted(Discharge(pb, ent, D, F), agnocast_remove_entry_node(ent, D))
<1> DEFINE new == Discharge(pb, ent, D, F)
           rest == agnocast_remove_entry_node(ent, D)
           left(i) == Left(pb, ent, D, i)
<1>1. /\ DOMAIN new \subseteq DOMAIN pb
      /\ \A j \in DOMAIN pb : j \in DOMAIN new <=> (j \in F => left(j) # 0)
      /\ \A i \in DOMAIN new : new[i].num = left(i)
  BY DischargeType
<1>2. /\ DOMAIN rest = DOMAIN ent \ D
      /\ \A e \in DOMAIN rest : rest[e] = ent[e]
  <2>1. /\ DOMAIN agnocast_remove_entry_node(ent, D) = DOMAIN ent \ D
        /\ \A e \in DOMAIN ent \ D :
              agnocast_remove_entry_node(ent, D)[e] = ent[e]
    BY RemoveType
  <2> QED BY <2>1
<1>3. \A i : OwnedBy(rest, i) = OwnedBy(ent, i) \ D
  <2> HIDE DEF rest
  <2> QED BY <1>2 DEF OwnedBy
<1>4. \A i : IsFiniteSet(OwnedBy(ent, i))
  BY OwnedByFinite, EntryIdsFinite
<1>5. \A i : Cardinality(OwnedBy(ent, i) \ D)
               = Cardinality(OwnedBy(ent, i)) - Cardinality(OwnedBy(ent, i) \cap D)
  BY <1>4, FS_Difference
<1>6. \A i \in DOMAIN pb : left(i) = Cardinality(OwnedBy(rest, i))
  BY <1>3, <1>5 DEF Accounted, Left
<1>7. ASSUME NEW e \in DOMAIN rest PROVE rest[e].pub \in DOMAIN new
  <2>1. ent[e].pub \in DOMAIN pb /\ rest[e] = ent[e]
    BY <1>2, <1>7 DEF Accounted
  <2>2. e \in OwnedBy(rest, rest[e].pub)
    BY DEF OwnedBy
  <2>3. Cardinality(OwnedBy(rest, rest[e].pub)) # 0
    <3>1. IsFiniteSet(OwnedBy(rest, rest[e].pub))
      BY <1>3, <1>4, FS_Subset
    <3> QED BY <2>2, <3>1, FS_EmptySet
  <2> HIDE DEF rest, new, left
  <2> QED BY <1>1, <1>6, <2>1, <2>3
<1> HIDE DEF rest, new, left
<1> QED BY <1>1, <1>6, <1>7 DEF Accounted, new, rest

\* Accounted looks at entries_num and at the publishers of entries only.
LEMMA AccountedCongruence ==
  ASSUME NEW pb, NEW ent, NEW pb2, NEW ent2, Accounted(pb, ent),
         DOMAIN pb2 = DOMAIN pb, \A i \in DOMAIN pb : pb2[i].num = pb[i].num,
         DOMAIN ent2 = DOMAIN ent, \A e \in DOMAIN ent : ent2[e].pub = ent[e].pub
  PROVE  Accounted(pb2, ent2)
<1>1. \A i : OwnedBy(ent2, i) = OwnedBy(ent, i)
  BY DEF OwnedBy
<1> QED BY <1>1 DEF Accounted

\* The kernel has a record, under the right pid, for every object.
Backed(PO, SO, pb, sb) ==
  /\ \A o \in PO : o[2] \in DOMAIN pb /\ pb[o[2]].pid = o[1]
  /\ \A o \in SO : o[2] \in DOMAIN sb /\ sb[o[2]].pid = o[1]

\* Ids and entry ids were handed out by the counters.
Numbered(pb, sb, ent, nid, nent) ==
  /\ \A i \in DOMAIN pb \cup DOMAIN sb : i < nid
  /\ \A e \in DOMAIN ent : e < nent

\* Every handle of H has its entry and its reference bit.
Hold(H, ent) == \A h \in H : h[3] \in DOMAIN ent /\ h[2] \in ent[h[3]].refs

\* agnocast_release_topic_wrapper frees the struct only when no endpoint, no
\* object and no handle is left, so it keeps every relation between the tables.
LEMMA ReleaseWrapperKeeps ==
  ASSUME NEW D, NEW pb, NEW sb, NEW ent, NEW PO, NEW SO, NEW H,
         agnocast_release_topic_wrapper(D, pb, sb, ent),
         Accounted(pb, ent), BelowWatermark(sb, ent),
         Reachable(wrappers, pb, sb), Backed(PO, SO, pb, sb), Hold(H, ent),
         Numbered(pb, sb, ent, nextId, nextEntry)
  PROVE  /\ Accounted(pubs', entries')
         /\ BelowWatermark(subs', entries')
         /\ Reachable(wrappers', pubs', subs')
         /\ Backed(PO, SO, pubs', subs')
         /\ Hold(H, entries')
         /\ Numbered(pubs', subs', entries', nextId', nextEntry')
<1> DEFINE left == {d \in wrappers :
                      d \in D => agnocast_wrapper_has_domain_endpoints(d, pb, sb)}
<1>1. /\ wrappers' = left
      /\ pubs' = IF left = {} THEN Empty ELSE pb
      /\ subs' = IF left = {} THEN Empty ELSE sb
      /\ entries' = IF left = {} THEN Empty ELSE ent
      /\ nextId' = IF left = {} THEN 0 ELSE nextId
      /\ nextEntry' = IF left = {} THEN 0 ELSE nextEntry
  BY DEF agnocast_release_topic_wrapper
<1>2. Reachable(left, pb, sb)
  BY DEF Reachable, agnocast_wrapper_has_domain_endpoints
<1> HIDE DEF left
<1>3. CASE left # {}
  BY <1>1, <1>2, <1>3
<1>4. CASE left = {}
  <2>1. DOMAIN pb = {} /\ DOMAIN sb = {}
    BY <1>2, <1>4 DEF Reachable
  <2>2. PO = {} /\ SO = {}
    BY <2>1 DEF Backed
  <2>3. H = {}
    BY <2>1 DEF Hold, BelowWatermark
  <2>4. /\ wrappers' = {} /\ pubs' = Empty /\ subs' = Empty /\ entries' = Empty
    BY <1>1, <1>4
  <2> QED BY <2>2, <2>3, <2>4, EmptyType DEF Accounted, BelowWatermark, Reachable,
            Backed, Hold, Numbered
<1> QED BY <1>3, <1>4

\* A leaving subscriber takes away its own bits and entries nobody can read:
\* objects of live processes and handles of other subscribers stay backed.
LEMMA LeaveTopicKeeps ==
  ASSUME NEW pr, NEW D, NEW pb, NEW sb, NEW ent, NEW S, NEW PO, NEW SO, NEW H,
         LeaveTopic(pr, D, pb, sb, ent, S),
         IsPubTable(pb), IsSubTable(sb), IsEntryTree(ent),
         Accounted(pb, ent), Reachable(wrappers, pb, sb),
         \A e \in DOMAIN ent : \A s \in ent[e].refs \ S :
           s \in DOMAIN sb /\ e <= sb[s].latest,
         Backed(PO, SO, pb, sb), \A o \in PO : pr[o[1]] = "alive",
         Hold(H, ent), \A h \in H : h[2] \notin S,
         Numbered(pb, sb, ent, nextId, nextEntry)
  PROVE  /\ Accounted(pubs', entries')
         /\ BelowWatermark(subs', entries')
         /\ Reachable(wrappers', pubs', subs')
         /\ Backed(PO, SO, pubs', subs')
         /\ Hold(H, entries')
         /\ Numbered(pubs', subs', entries', nextId', nextEntry')
<1> DEFINE cleared == clear_references(ent, S)
           dead == Abandoned(pr, pb, cleared)
           newPubs == Discharge(pb, cleared, dead, PublishersOf(cleared, dead))
           newEntries == agnocast_remove_entry_node(cleared, dead)
<1>1. /\ IsEntryTree(cleared)
      /\ DOMAIN cleared = DOMAIN ent
      /\ \A e \in DOMAIN ent : /\ cleared[e].pub = ent[e].pub
                               /\ cleared[e].refs = ent[e].refs \ S
  BY ClearType
<1>2. agnocast_release_topic_wrapper(D, newPubs, sb, newEntries)
  BY DEF LeaveTopic
<1> HIDE DEF cleared
<1>3. Accounted(pb, cleared)
  BY <1>1, AccountedCongruence
<1>4. \A e \in dead : /\ e \in DOMAIN cleared /\ cleared[e].refs = {}
                      /\ pr[pb[cleared[e].pub].pid] # "alive"
  BY DEF Abandoned, agnocast_is_referenced
<1> HIDE DEF dead
<1>5. Accounted(newPubs, newEntries)
  BY <1>1, <1>3, DischargeAccounted
<1>6. /\ DOMAIN newPubs \subseteq DOMAIN pb
      /\ \A j \in DOMAIN pb :
           j \in DOMAIN newPubs
             <=> (j \in PublishersOf(cleared, dead)
                    => Left(pb, cleared, dead, j) # 0)
      /\ \A i \in DOMAIN newPubs : newPubs[i].pid = pb[i].pid
  BY <1>1, DischargeType
<1>7. /\ DOMAIN newEntries = DOMAIN cleared \ dead
      /\ \A e \in DOMAIN cleared \ dead : newEntries[e] = cleared[e]
  BY <1>1, RemoveType
<1> HIDE DEF newPubs, newEntries
<1>8. BelowWatermark(sb, newEntries)
  BY <1>1, <1>7 DEF BelowWatermark
<1>9. Reachable(wrappers, newPubs, sb)
  BY <1>6 DEF Reachable
<1>10. Hold(H, newEntries)
  BY <1>1, <1>4, <1>7 DEF Hold
<1>11. Numbered(newPubs, sb, newEntries, nextId, nextEntry)
  BY <1>1, <1>6, <1>7 DEF Numbered
<1>12. Backed(PO, SO, newPubs, sb)
  <2>1. \A j \in PublishersOf(cleared, dead) : pr[pb[j].pid] # "alive"
    BY <1>4 DEF PublishersOf
  <2> QED BY <1>6, <2>1 DEF Backed
<1> QED BY <1>2, <1>5, <1>8, <1>9, <1>10, <1>11, <1>12, ReleaseWrapperKeeps

-----------------------------------------------------------------------------
(* The kernel module's own invariant.                                      *)

\* The inductive invariant of the kernel tables, whatever the programs do.
KernelInv ==
  /\ TypeOK
  /\ EntriesAccounted
  /\ RefsBelowWatermark
  /\ EndpointsReachable
  /\ OwnersRun

\* The part of KernelInv that a structural operation rewrites.
TopicInv(H) ==
  /\ Accounted(pubs, entries)
  /\ BelowWatermark(subs, entries)
  /\ Reachable(wrappers, pubs, subs)
  /\ Backed(pubObj, subObj, pubs, subs)
  /\ Hold(H, entries)
  /\ Numbered(pubs, subs, entries, nextId, nextEntry)

\* KernelInv by its parts.
LEMMA KernelInvParts ==
  KernelInv <=> /\ TypeOK
                /\ TopicInv({})
                /\ signalling \subseteq DOMAIN pubs
                /\ OwnersRun
BY DEF KernelInv, TopicInv, EntriesAccounted, RefsBelowWatermark,
   EndpointsReachable, Backed, Hold, Numbered

\* agnocast_process_exit_cleanup gives up only what belongs to the dead process:
\* the tables stay consistent and handles of other processes stay referenced.
LEMMA CleanupKeeps ==
  ASSUME KernelInv, NEW p \in Pids, agnocast_process_exit_cleanup(p),
         p \notin running,
         NEW H, Hold(H, entries), \A h \in H : subs[h[2]].pid # p
  PROVE  /\ Accounted(pubs', entries')
         /\ BelowWatermark(subs', entries')
         /\ Reachable(wrappers', pubs', subs')
         /\ Backed(pubObj, subObj, pubs', subs')
         /\ Hold(H, entries')
         /\ Numbered(pubs', subs', entries', nextId', nextEntry')
<1> DEFINE mine    == {i \in DOMAIN pubs : pubs[i].pid = p}
           unread  == {e \in DOMAIN entries :
                         /\ entries[e].pub \in mine
                         /\ ~agnocast_is_referenced(entries, e)}
           pb      == Discharge(pubs, entries, unread, mine)
           ent     == agnocast_remove_entry_node(entries, unread)
           leaving == {s \in DOMAIN subs : subs[s].pid = p}
           sb      == [s \in DOMAIN subs \ leaving |-> subs[s]]
           rb      == rebuild_all_notify_lists(pb, sb)
<1>1. IF leaving = {}
      THEN agnocast_release_topic_wrapper(Domains, pb, sb, ent)
      ELSE LeaveTopic(proc', Domains, rb, sb, ent, leaving)
  BY DEF agnocast_process_exit_cleanup
<1>2. /\ IsPubTable(pubs) /\ IsSubTable(subs) /\ IsEntryTree(entries)
      /\ proc \in [Pids -> {"none", "alive", "exited", "gone"}]
      /\ Accounted(pubs, entries) /\ BelowWatermark(subs, entries)
      /\ Reachable(wrappers, pubs, subs)
      /\ Backed(pubObj, subObj, pubs, subs)
      /\ Numbered(pubs, subs, entries, nextId, nextEntry)
  BY KernelInvParts DEF TopicInv, TypeOK
<1>3. \A o \in pubObj \cup subObj : o[1] \in Pids /\ o[1] # p /\ proc'[o[1]] = "alive"
  BY DEF KernelInv, OwnersRun, TypeOK, agnocast_process_exit_cleanup
<1>4. \A e \in unread : e \in DOMAIN entries /\ entries[e].refs = {}
  BY DEF agnocast_is_referenced
<1>5. \A i \in mine : i \in DOMAIN pubs /\ pubs[i].pid = p
  OBVIOUS
<1> HIDE DEF unread, mine
<1>6. /\ IsPubTable(pb) /\ IsEntryTree(ent) /\ Accounted(pb, ent)
  BY <1>2, DischargeType, RemoveType, DischargeAccounted
<1>7. /\ DOMAIN pb \subseteq DOMAIN pubs
      /\ \A j \in DOMAIN pubs :
           j \in DOMAIN pb <=> (j \in mine => Left(pubs, entries, unread, j) # 0)
      /\ \A i \in DOMAIN pb : pb[i].pid = pubs[i].pid
  BY <1>2, DischargeType
<1>8. /\ DOMAIN ent = DOMAIN entries \ unread
      /\ \A e \in DOMAIN entries \ unread : ent[e] = entries[e]
  BY <1>2, RemoveType
<1> HIDE DEF pb, ent
<1>9. /\ IsSubTable(sb) /\ DOMAIN sb = DOMAIN subs \ leaving
      /\ \A s \in DOMAIN sb : sb[s] = subs[s]
  BY <1>2 DEF IsSubTable
<1>10. \A s \in DOMAIN subs : s \in leaving <=> subs[s].pid = p
  OBVIOUS
<1> HIDE DEF sb, leaving
<1>11. Reachable(wrappers, pb, sb)
  BY <1>2, <1>7, <1>9 DEF Reachable
<1>12. Backed(pubObj, subObj, pb, sb)
  BY <1>2, <1>3, <1>5, <1>7, <1>9, <1>10 DEF Backed
<1>13. Hold(H, ent) /\ \A h \in H : h[2] \notin leaving
  <2>1. \A h \in H : h[2] \in DOMAIN subs
    BY <1>2 DEF Hold, BelowWatermark
  <2> QED BY <1>4, <1>8, <1>10, <2>1 DEF Hold
<1>14. Numbered(pb, sb, ent, nextId, nextEntry)
  BY <1>2, <1>7, <1>8, <1>9 DEF Numbered
<1>15. \A e \in DOMAIN ent : \A s \in ent[e].refs \ leaving :
         s \in DOMAIN sb /\ e <= sb[s].latest
  BY <1>2, <1>8, <1>9 DEF BelowWatermark
<1>16. CASE leaving = {}
  <2>1. BelowWatermark(sb, ent)
    BY <1>15, <1>16 DEF BelowWatermark
  <2> QED BY <1>1, <1>6, <1>11, <1>12, <1>13, <1>14, <1>16, <2>1,
            ReleaseWrapperKeeps
<1>17. CASE leaving # {}
  <2>1. /\ IsPubTable(rb) /\ DOMAIN rb = DOMAIN pb
        /\ \A i \in DOMAIN pb : rb[i].pid = pb[i].pid /\ rb[i].num = pb[i].num
    BY <1>6, <1>9, RebuildType
  <2> HIDE DEF rb
  <2>2. Accounted(rb, ent)
    BY <1>6, <2>1, AccountedCongruence
  <2>3. Reachable(wrappers, rb, sb) /\ Backed(pubObj, subObj, rb, sb)
        /\ Numbered(rb, sb, ent, nextId, nextEntry)
    BY <1>11, <1>12, <1>14, <2>1 DEF Reachable, Backed, Numbered
  <2>4. \A o \in pubObj : proc'[o[1]] = "alive"
    BY <1>3
  <2>5. LeaveTopic(proc', Domains, rb, sb, ent, leaving)
    BY <1>1, <1>17
  <2> QED BY <1>6, <1>9, <1>13, <1>15, <2>1, <2>2, <2>3, <2>4, <2>5,
            LeaveTopicKeeps
<1> QED BY <1>16, <1>17

\* remove_publisher keeps the tables consistent and every handle referenced.
LEMMA RemovePublisherKeeps ==
  ASSUME KernelInv, NEW p \in Pids, NEW i \in Ids, RemovePublisher(p, i),
         NEW H, Hold(H, entries)
  PROVE  TopicInv(H)'
<1> DEFINE unread == {e \in OwnedBy(entries, i) :
                        ~agnocast_is_referenced(entries, e)}
           pb == Discharge(pubs, entries, unread, {i})
           ent == agnocast_remove_entry_node(entries, unread)
<1>1. /\ <<p, i>> \in pubObj
      /\ pubObj' = pubObj \ {<<p, i>>}
      /\ subObj' = subObj
      /\ IF DomainOf[p] \in wrappers /\ i \in DOMAIN pubs
         THEN agnocast_release_topic_wrapper({DomainOf[p]}, pb, subs, ent)
         ELSE UNCHANGED topicVars
  BY DEF RemovePublisher
<1>2. /\ IsPubTable(pubs) /\ IsSubTable(subs) /\ IsEntryTree(entries)
      /\ Accounted(pubs, entries) /\ BelowWatermark(subs, entries)
      /\ Reachable(wrappers, pubs, subs)
      /\ Backed(pubObj, subObj, pubs, subs)
      /\ Numbered(pubs, subs, entries, nextId, nextEntry)
  BY KernelInvParts DEF TopicInv, TypeOK
<1>3. \A e \in unread : e \in DOMAIN entries /\ entries[e].refs = {}
  BY DEF agnocast_is_referenced, OwnedBy
<1> HIDE DEF unread
<1>4. /\ IsPubTable(pb) /\ IsEntryTree(ent) /\ Accounted(pb, ent)
  BY <1>2, DischargeType, RemoveType, DischargeAccounted
<1>5. /\ DOMAIN pb \subseteq DOMAIN pubs
      /\ \A j \in DOMAIN pubs :
           j \in DOMAIN pb <=> (j \in {i} => Left(pubs, entries, unread, j) # 0)
      /\ \A j \in DOMAIN pb : pb[j].pid = pubs[j].pid
  BY <1>2, DischargeType
<1>6. /\ DOMAIN ent = DOMAIN entries \ unread
      /\ \A e \in DOMAIN entries \ unread : ent[e] = entries[e]
  BY <1>2, RemoveType
<1> HIDE DEF pb, ent
<1>7. i \in DOMAIN pubs /\ pubs[i].pid = p /\ DomainOf[p] \in wrappers
  BY <1>1, <1>2 DEF Backed, Reachable
<1>8. Backed(pubObj', subObj', pb, subs)
  <2>1. \A o \in pubObj' : o[2] # i
    <3>1. \A o \in pubObj : o = <<o[1], o[2]>>
      BY DEF KernelInv, TypeOK
    <3>2. \A o \in pubObj : o[2] = i => o[1] = p
      BY <1>2, <1>7 DEF Backed
    <3> QED BY <1>1, <3>1, <3>2
  <2> QED BY <1>1, <1>2, <1>5, <2>1 DEF Backed
<1>9. Reachable(wrappers, pb, subs) /\ Numbered(pb, subs, ent, nextId, nextEntry)
  BY <1>2, <1>5, <1>6 DEF Reachable, Numbered
<1>10. BelowWatermark(subs, ent) /\ Hold(H, ent)
  BY <1>2, <1>3, <1>6 DEF BelowWatermark, Hold
<1>11. /\ Accounted(pubs', entries')
       /\ BelowWatermark(subs', entries')
       /\ Reachable(wrappers', pubs', subs')
       /\ Backed(pubObj', subObj', pubs', subs')
       /\ Hold(H, entries')
       /\ Numbered(pubs', subs', entries', nextId', nextEntry')
  BY <1>1, <1>4, <1>7, <1>8, <1>9, <1>10, ReleaseWrapperKeeps
<1> QED BY <1>11 DEF TopicInv, Accounted, BelowWatermark, Reachable, Backed, Hold,
        Numbered, OwnedBy

\* remove_subscriber keeps the tables consistent and the handles of other
\* subscribers referenced.
LEMMA RemoveSubscriberKeeps ==
  ASSUME KernelInv, NEW p \in Pids, NEW s \in Ids, RemoveSubscriber(p, s),
         NEW H, Hold(H, entries), \A h \in H : h[2] # s
  PROVE  TopicInv(H)'
<1> DEFINE sb == [t \in DOMAIN subs \ {s} |-> subs[t]]
           pb == IF subs[s].qos.take THEN pubs
                 ELSE rebuild_all_notify_lists(pubs, sb)
<1>1. /\ <<p, s>> \in subObj
      /\ subObj' = subObj \ {<<p, s>>}
      /\ pubObj' = pubObj
      /\ IF DomainOf[p] \in wrappers /\ s \in DOMAIN subs
         THEN LeaveTopic(proc, {DomainOf[p]}, pb, sb, entries, {s})
         ELSE UNCHANGED topicVars
  BY DEF RemoveSubscriber
<1>2. /\ IsPubTable(pubs) /\ IsSubTable(subs) /\ IsEntryTree(entries)
      /\ Accounted(pubs, entries) /\ BelowWatermark(subs, entries)
      /\ Reachable(wrappers, pubs, subs)
      /\ Backed(pubObj, subObj, pubs, subs)
      /\ Numbered(pubs, subs, entries, nextId, nextEntry)
  BY KernelInvParts DEF TopicInv, TypeOK
<1>3. s \in DOMAIN subs /\ subs[s].pid = p /\ DomainOf[p] \in wrappers
  BY <1>1, <1>2 DEF Backed, Reachable
<1>4. /\ IsSubTable(sb) /\ DOMAIN sb = DOMAIN subs \ {s}
      /\ \A t \in DOMAIN sb : sb[t] = subs[t]
  BY <1>2 DEF IsSubTable
<1> HIDE DEF sb
<1>5. /\ IsPubTable(pb) /\ DOMAIN pb = DOMAIN pubs
      /\ \A i \in DOMAIN pubs : pb[i].pid = pubs[i].pid /\ pb[i].num = pubs[i].num
  <2>1. CASE subs[s].qos.take
    BY <1>2, <2>1
  <2>2. CASE ~subs[s].qos.take
    <3>1. pb = rebuild_all_notify_lists(pubs, sb)
      BY <2>2
    <3> HIDE DEF pb
    <3> QED BY <1>2, <1>4, <3>1, RebuildType
  <2> QED BY <2>1, <2>2
<1> HIDE DEF pb
<1>6. Accounted(pb, entries)
  BY <1>2, <1>5, AccountedCongruence
<1>7. Reachable(wrappers, pb, sb) /\ Numbered(pb, sb, entries, nextId, nextEntry)
  BY <1>2, <1>4, <1>5 DEF Reachable, Numbered
<1>8. Backed(pubObj', subObj', pb, sb)
  <2>1. \A o \in subObj' : o[2] # s
    <3>1. \A o \in subObj : o = <<o[1], o[2]>>
      BY DEF KernelInv, TypeOK
    <3>2. \A o \in subObj : o[2] = s => o[1] = p
      BY <1>2, <1>3 DEF Backed
    <3> QED BY <1>1, <3>1, <3>2
  <2> QED BY <1>1, <1>2, <1>4, <1>5, <2>1 DEF Backed
<1>9. \A e \in DOMAIN entries : \A t \in entries[e].refs \ {s} :
        t \in DOMAIN sb /\ e <= sb[t].latest
  BY <1>2, <1>4 DEF BelowWatermark
<1>10. \A o \in pubObj' : proc[o[1]] = "alive"
  BY <1>1 DEF KernelInv, OwnersRun
<1>11. \A h \in H : h[2] \notin {s}
  OBVIOUS
<1>12. LeaveTopic(proc, {DomainOf[p]}, pb, sb, entries, {s})
  BY <1>1, <1>3
<1>13. /\ Accounted(pubs', entries')
       /\ BelowWatermark(subs', entries')
       /\ Reachable(wrappers', pubs', subs')
       /\ Backed(pubObj', subObj', pubs', subs')
       /\ Hold(H, entries')
       /\ Numbered(pubs', subs', entries', nextId', nextEntry')
  BY <1>2, <1>4, <1>5, <1>6, <1>7, <1>8, <1>9, <1>10, <1>11, <1>12,
     LeaveTopicKeeps
<1> QED BY <1>13 DEF TopicInv, Accounted, BelowWatermark, Reachable, Backed, Hold,
        Numbered, OwnedBy

\* release_msgs_to_meet_depth looks only at entries in excess of the depth.
LEMMA SearchedExceeds ==
  ASSUME NEW ent, NEW own, NEW num, NEW depth,
         NEW e \in Searched(ent, own, num, depth)
  PROVE  e \in own /\ Rank(e, own) < num - depth
BY DEF Searched

\* publish_msg keeps the tables consistent, releases no referenced entry, and
\* with a depth of at least one never reaches the entry it has just inserted.
LEMMA PublishKeeps ==
  ASSUME KernelInv, NEW p \in Pids, NEW i \in Ids, Publish(p, i),
         NEW H, Hold(H, entries)
  PROVE  /\ Accounted(pubs', entries')
         /\ BelowWatermark(subs', entries')
         /\ Hold(H, entries')
         /\ Numbered(pubs', subs', entries', nextId', nextEntry')
         /\ DOMAIN pubs' = DOMAIN pubs
         /\ \A j \in DOMAIN pubs : pubs'[j].pid = pubs[j].pid
         /\ UNCHANGED <<proc, wrappers, subs, nextId, eventfd>>
         /\ i \in DOMAIN pubs
         /\ \/ Aborts(p) /\ UNCHANGED signalling
            \/ signalling' = signalling \cup {i} /\ UNCHANGED userVars
         /\ pubs[i].qos.depth > 0 => UNCHANGED userVars
         /\ DOMAIN entries' \subseteq DOMAIN entries \cup {nextEntry}
         /\ nextEntry \in DOMAIN entries'
<1> DEFINE ent == [e \in DOMAIN entries \cup {nextEntry} |->
                     IF e = nextEntry THEN [pub |-> i, refs |-> {}]
                     ELSE entries[e]]
           seen == Searched(ent, OwnedBy(ent, i), pubs[i].num + 1,
                            pubs[i].qos.depth)
           released == {e \in seen \ {nextEntry} :
                          ~agnocast_is_referenced(ent, e)}
<1>1. /\ IsPubTable(pubs) /\ IsSubTable(subs) /\ IsEntryTree(entries)
      /\ nextEntry \in Nat
      /\ Accounted(pubs, entries) /\ BelowWatermark(subs, entries)
      /\ Reachable(wrappers, pubs, subs)
      /\ Backed(pubObj, subObj, pubs, subs)
      /\ Numbered(pubs, subs, entries, nextId, nextEntry)
  BY KernelInvParts DEF TopicInv, TypeOK
<1>2. i \in DOMAIN pubs /\ pubs[i].pid = p /\ ~publish_error(p, i)
  <2>1. <<p, i>> \in pubObj
    BY DEF Publish
  <2>2. i \in DOMAIN pubs /\ pubs[i].pid = p
    BY <1>1, <2>1 DEF Backed
  <2>3. DomainOf[p] \in wrappers
    BY <1>1, <2>2 DEF Reachable
  <2>4. proc[p] = "alive"
    BY <2>1 DEF KernelInv, OwnersRun
  <2> QED BY <2>2, <2>3, <2>4 DEF publish_error
<1>3. /\ entries' = agnocast_remove_entry_node(ent, released)
      /\ pubs' = [pubs EXCEPT ![i].num = @ + 1 - Cardinality(released)]
      /\ nextEntry' = nextEntry + 1
      /\ IF nextEntry \in seen
         THEN Aborts(p) /\ UNCHANGED signalling
         ELSE /\ signalling' = signalling \cup {i}
              /\ UNCHANGED userVars
      /\ UNCHANGED <<proc, wrappers, subs, nextId, eventfd>>
  BY <1>2 DEF Publish
<1>4. nextEntry \in EntryIds /\ nextEntry \notin DOMAIN entries
  BY <1>1, ConstantsAssumption DEF Publish, EntryIds, Numbered
<1>5. /\ IsEntryTree(ent) /\ DOMAIN ent = DOMAIN entries \cup {nextEntry}
      /\ ent[nextEntry].pub = i /\ ent[nextEntry].refs = {}
      /\ \A e \in DOMAIN entries : ent[e] = entries[e]
  BY <1>1, <1>4 DEF IsEntryTree, Entry
<1> HIDE DEF ent
<1>6. \A j : OwnedBy(ent, j) = IF j = i THEN OwnedBy(entries, i) \cup {nextEntry}
                               ELSE OwnedBy(entries, j)
  BY <1>4, <1>5 DEF OwnedBy
<1>7. \A e \in released : /\ e \in OwnedBy(ent, i) /\ e # nextEntry
                          /\ ent[e].refs = {}
  BY DEF Searched, agnocast_is_referenced
<1>8. pubs[i].qos.depth > 0 => nextEntry \notin seen
  <2> SUFFICES ASSUME pubs[i].qos.depth > 0, nextEntry \in seen PROVE FALSE
    OBVIOUS
  <2>1. Rank(nextEntry, OwnedBy(ent, i)) < (pubs[i].num + 1) - pubs[i].qos.depth
    BY SearchedExceeds
  <2>2. {f \in OwnedBy(ent, i) : f < nextEntry} = OwnedBy(entries, i)
    <3>1. \A e \in OwnedBy(entries, i) : e < nextEntry
      BY <1>1 DEF OwnedBy, Numbered
    <3> QED BY <1>1, <1>6, <3>1
  <2>3. Rank(nextEntry, OwnedBy(ent, i)) = pubs[i].num
    BY <1>1, <1>2, <2>2 DEF Rank, Accounted
  <2>4. pubs[i].num \in Int /\ pubs[i].qos.depth \in Nat
    BY <1>1, <1>2, ConstantsAssumption DEF IsPubTable, PubInfo, PubQosType
  <2> QED BY <2>1, <2>3, <2>4
<1> HIDE DEF released, seen
<1>9. /\ DOMAIN entries' = DOMAIN ent \ released
      /\ \A e \in DOMAIN ent \ released : entries'[e] = ent[e]
  <2>1. /\ DOMAIN agnocast_remove_entry_node(ent, released) = DOMAIN ent \ released
        /\ \A e \in DOMAIN ent \ released :
             agnocast_remove_entry_node(ent, released)[e] = ent[e]
    BY <1>5, RemoveType
  <2> QED BY <1>3, <2>1
<1>10. \A j : OwnedBy(entries', j) = OwnedBy(ent, j) \ released
  BY <1>9 DEF OwnedBy
<1>11. Cardinality(OwnedBy(entries', i))
         = Cardinality(OwnedBy(entries, i)) + 1 - Cardinality(released)
  <2>1. IsFiniteSet(OwnedBy(entries, i)) /\ IsFiniteSet(OwnedBy(ent, i))
    BY <1>1, <1>5, OwnedByFinite, EntryIdsFinite
  <2>2. nextEntry \notin OwnedBy(entries, i)
    BY <1>4 DEF OwnedBy
  <2>3. Cardinality(OwnedBy(ent, i)) = Cardinality(OwnedBy(entries, i)) + 1
    BY <1>6, <2>1, <2>2, FS_AddElement
  <2>4. OwnedBy(ent, i) \cap released = released
    BY <1>7
  <2>5. Cardinality(OwnedBy(ent, i) \ released)
          = Cardinality(OwnedBy(ent, i)) - Cardinality(OwnedBy(ent, i) \cap released)
    BY <2>1, FS_Difference
  <2>6. Cardinality(OwnedBy(entries', i))
          = Cardinality(OwnedBy(ent, i)) - Cardinality(released)
    BY <1>10, <2>4, <2>5
  <2>7. Cardinality(OwnedBy(entries, i)) \in Nat /\ Cardinality(released) \in Nat
    BY <2>1, <2>4, FS_CardinalityType, FS_Subset
  <2> QED BY <2>3, <2>6, <2>7
<1>12. \A j : j # i => OwnedBy(entries', j) = OwnedBy(entries, j)
  <2>1. \A j, e : j # i /\ e \in OwnedBy(ent, j) => e \notin released
    BY <1>7 DEF OwnedBy
  <2> QED BY <1>6, <1>10, <2>1
<1>13. /\ DOMAIN pubs' = DOMAIN pubs
       /\ \A j \in DOMAIN pubs :
            /\ pubs'[j].pid = pubs[j].pid
            /\ pubs'[j].num = IF j = i THEN pubs[i].num + 1 - Cardinality(released)
                              ELSE pubs[j].num
  BY <1>1, <1>2, <1>3 DEF IsPubTable, PubInfo
<1>14. Accounted(pubs', entries')
  <2>1. \A j \in DOMAIN pubs' : pubs'[j].num = Cardinality(OwnedBy(entries', j))
    BY <1>1, <1>2, <1>11, <1>12, <1>13 DEF Accounted
  <2>2. \A e \in DOMAIN entries' : entries'[e].pub \in DOMAIN pubs'
    BY <1>1, <1>2, <1>5, <1>9, <1>13 DEF Accounted
  <2> QED BY <2>1, <2>2 DEF Accounted
<1>15. BelowWatermark(subs', entries')
  BY <1>1, <1>3, <1>5, <1>9 DEF BelowWatermark
<1>16. Hold(H, entries')
  BY <1>4, <1>5, <1>7, <1>9 DEF Hold
<1>17. Numbered(pubs', subs', entries', nextId', nextEntry')
  <2>1. \A e \in DOMAIN entries' : e \in DOMAIN entries \/ e = nextEntry
    BY <1>5, <1>9
  <2>2. \A e \in DOMAIN entries : e \in Int /\ e < nextEntry
    BY <1>1, EntryIdsInt DEF IsEntryTree, Numbered
  <2>3. \A e \in DOMAIN entries' : e < nextEntry'
    BY <1>1, <1>3, <2>1, <2>2
  <2> QED BY <1>1, <1>3, <1>13, <2>3 DEF Numbered
<1>18. /\ DOMAIN entries' \subseteq DOMAIN entries \cup {nextEntry}
       /\ nextEntry \in DOMAIN entries'
  BY <1>5, <1>7, <1>9
<1> QED BY <1>2, <1>3, <1>8, <1>13, <1>14, <1>15, <1>16, <1>17, <1>18

\* Handing entries up to the new watermark to a subscriber keeps the tables
\* consistent and references every entry handed out.
LEMMA HandOutKeeps ==
  ASSUME KernelInv, NEW s \in DOMAIN subs, NEW E \in SUBSET DOMAIN entries,
         NEW v \in Int, subs[s].latest <= v, \A e \in E : e <= v,
         NEW H, Hold(H, entries),
         entries' = add_subscriber_reference(entries, s, E),
         subs' = [subs EXCEPT ![s].latest = v],
         UNCHANGED <<wrappers, pubs, nextId, nextEntry, pubObj, subObj>>
  PROVE  /\ TopicInv(H)'
         /\ Hold(H, entries')
         /\ \A e \in E : e \in DOMAIN entries' /\ s \in entries'[e].refs
<1>1. /\ IsPubTable(pubs) /\ IsSubTable(subs) /\ IsEntryTree(entries)
      /\ Accounted(pubs, entries) /\ BelowWatermark(subs, entries)
      /\ Reachable(wrappers, pubs, subs)
      /\ Backed(pubObj, subObj, pubs, subs)
      /\ Numbered(pubs, subs, entries, nextId, nextEntry)
  BY KernelInvParts DEF TopicInv, TypeOK
<1>2. s \in Ids
  BY <1>1 DEF IsSubTable
<1>3. /\ DOMAIN add_subscriber_reference(entries, s, E) = DOMAIN entries
      /\ \A e \in DOMAIN entries :
           /\ add_subscriber_reference(entries, s, E)[e].pub = entries[e].pub
           /\ add_subscriber_reference(entries, s, E)[e].refs =
                IF e \in E THEN entries[e].refs \cup {s} ELSE entries[e].refs
  BY <1>1, <1>2, AddReferenceType
<1>4. /\ DOMAIN entries' = DOMAIN entries
      /\ \A e \in DOMAIN entries :
           /\ entries'[e].pub = entries[e].pub
           /\ entries'[e].refs = IF e \in E THEN entries[e].refs \cup {s}
                                 ELSE entries[e].refs
  BY <1>3
<1>5. /\ DOMAIN subs' = DOMAIN subs
      /\ \A t \in DOMAIN subs :
           /\ subs'[t].pid = subs[t].pid
           /\ subs'[t].latest = IF t = s THEN v ELSE subs[t].latest
  BY <1>1, LatestType
<1>6. Accounted(pubs', entries')
  BY <1>1, <1>4, AccountedCongruence
<1>7. BelowWatermark(subs', entries')
  <2> SUFFICES ASSUME NEW e \in DOMAIN entries', NEW t \in entries'[e].refs
               PROVE  t \in DOMAIN subs' /\ e <= subs'[t].latest
    BY DEF BelowWatermark
  <2>1. e \in Int /\ subs[s].latest \in Int
    BY <1>1, <1>4, EntryIdsInt DEF IsEntryTree, IsSubTable, SubInfo
  <2>2. CASE t \in entries[e].refs
    <3>1. t \in DOMAIN subs /\ e <= subs[t].latest
      BY <1>1, <1>4, <2>2 DEF BelowWatermark
    <3> QED BY <1>5, <2>1, <3>1
  <2>3. CASE t \notin entries[e].refs
    <3>1. t = s /\ e \in E
      BY <1>4, <2>3
    <3> QED BY <1>5, <3>1
  <2> QED BY <2>2, <2>3
<1>8. Reachable(wrappers', pubs', subs')
  BY <1>1, <1>5 DEF Reachable
<1>9. Backed(pubObj', subObj', pubs', subs')
  BY <1>1, <1>5 DEF Backed
<1>10. Numbered(pubs', subs', entries', nextId', nextEntry')
  BY <1>1, <1>4, <1>5 DEF Numbered
<1>11. Hold(H, entries')
  BY <1>4 DEF Hold
<1>12. \A e \in E : e \in DOMAIN entries' /\ s \in entries'[e].refs
  BY <1>4
<1> QED BY <1>6, <1>7, <1>8, <1>9, <1>10, <1>11, <1>12 DEF TopicInv, Accounted,
        BelowWatermark, Reachable, Backed, Hold, Numbered, OwnedBy

\* The walk back never meets an entry without a publisher.
LEMMA NoOrphans ==
  ASSUME KernelInv, NEW s, NEW E \in SUBSET DOMAIN entries
  PROVE  ~MeetsOrphan(s, E)
BY DEF KernelInv, EntriesAccounted, Accounted, MeetsOrphan

\* Subscriber s of process p is handed a set of entries, none beyond its new
\* latest_received_entry_id.
HandsOut(p, s) ==
  \E E \in SUBSET DOMAIN entries : \E v \in Int :
    /\ subs[s].latest <= v
    /\ \A e \in E : e <= v
    /\ entries' = add_subscriber_reference(entries, s, E)
    /\ subs' = [subs EXCEPT ![s].latest = v]
    /\ held' = held \cup {<<p, s, e>> : e \in E}

\* A receive that finds its subscriber succeeds: no entry beyond the watermark
\* carries the subscriber's bit, so -EALREADY is never returned.
LEMMA ReceiveSteps ==
  ASSUME KernelInv, NEW p \in Pids, NEW s \in Ids, Receive(p, s),
         ~NotFound(p, s)
  PROVE  LET window == ReceiveWindow(s)
             batch  == Oldest(window, MaxReceiveNum)
         IN  /\ s \in DOMAIN subs
             /\ batch \in SUBSET DOMAIN entries
             /\ \A e \in batch : e > subs[s].latest
             /\ entries' = add_subscriber_reference(entries, s, batch)
             /\ subs' = [subs EXCEPT ![s].latest =
                           IF batch = {} THEN @ ELSE MaxOf(batch)]
             /\ held' = held \cup {<<p, s, e>> : e \in batch}
             /\ ready' = [ready EXCEPT ![<<p, s>>] =
                            IF ret_call_again(batch, window) THEN @ ELSE @ - 1]
             /\ UNCHANGED <<running, pubObj, subObj, unprepared, fatal>>
             /\ UNCHANGED <<proc, wrappers, pubs, nextId, nextEntry, signalling,
                            eventfd>>
<1> DEFINE window == ReceiveWindow(s)
           batch  == Oldest(window, MaxReceiveNum)
           got    == Claimable(s, batch)
<1>1. s \in DOMAIN subs
  BY DEF NotFound
<1>2. batch \in SUBSET DOMAIN entries /\ \A e \in batch : e > subs[s].latest
  BY DEF ReceiveWindow, Unreceived, Newest, Oldest
<1>3. got = batch
  <2> HIDE DEF batch
  <2>1. \A e \in batch : e \in Int
    BY <1>2, EntryIdsInt DEF KernelInv, TypeOK, IsEntryTree
  <2>2. subs[s].latest \in Int
    BY <1>1 DEF KernelInv, TypeOK, IsSubTable, SubInfo
  <2>3. \A e \in batch : s \notin entries[e].refs
    BY <1>2, <2>1, <2>2 DEF KernelInv, RefsBelowWatermark, BelowWatermark
  <2> QED BY <2>3 DEF Claimable
<1>4. ~MeetsOrphan(s, Unreceived(s))
  BY NoOrphans DEF Unreceived
<1>5. /\ entries' = add_subscriber_reference(entries, s, got)
      /\ subs' = [subs EXCEPT ![s].latest =
                    IF batch = {} THEN @ ELSE MaxOf(batch)]
      /\ held' = held \cup {<<p, s, e>> : e \in batch}
      /\ ready' = [ready EXCEPT ![<<p, s>>] =
                     IF ret_call_again(batch, window) THEN @ ELSE @ - 1]
      /\ UNCHANGED <<running, pubObj, subObj, unprepared, fatal>>
      /\ UNCHANGED <<proc, wrappers, pubs, nextId, nextEntry, signalling,
                     eventfd>>
  BY <1>3, <1>4 DEF Receive, latest_received
<1> QED BY <1>1, <1>2, <1>3, <1>5

\* Such a receive hands out entries beyond the old watermark, up to the new one.
LEMMA ReceiveCases ==
  ASSUME KernelInv, NEW p \in Pids, NEW s \in Ids, Receive(p, s),
         ~NotFound(p, s)
  PROVE  /\ s \in DOMAIN subs
         /\ HandsOut(p, s)
         /\ \E n : ready' = [ready EXCEPT ![<<p, s>>] = n]
         /\ UNCHANGED <<running, pubObj, subObj, unprepared, fatal>>
         /\ UNCHANGED <<proc, wrappers, pubs, nextId, nextEntry, signalling,
                        eventfd>>
<1> DEFINE window == ReceiveWindow(s)
           batch  == Oldest(window, MaxReceiveNum)
<1>1. /\ s \in DOMAIN subs
      /\ batch \in SUBSET DOMAIN entries /\ \A e \in batch : e > subs[s].latest
      /\ entries' = add_subscriber_reference(entries, s, batch)
      /\ subs' = [subs EXCEPT ![s].latest =
                    IF batch = {} THEN @ ELSE MaxOf(batch)]
      /\ held' = held \cup {<<p, s, e>> : e \in batch}
      /\ \E n : ready' = [ready EXCEPT ![<<p, s>>] = n]
      /\ UNCHANGED <<running, pubObj, subObj, unprepared, fatal>>
      /\ UNCHANGED <<proc, wrappers, pubs, nextId, nextEntry, signalling,
                     eventfd>>
  BY ReceiveSteps
<1> HIDE DEF batch, window
<1> DEFINE v == IF batch = {} THEN subs[s].latest ELSE MaxOf(batch)
<1>2. v \in Int /\ subs[s].latest <= v /\ \A e \in batch : e <= v
  <2>1. subs[s].latest \in Int
    BY <1>1 DEF KernelInv, TypeOK, IsSubTable, SubInfo
  <2>2. batch \in SUBSET EntryIds
    BY <1>1 DEF KernelInv, TypeOK, IsEntryTree
  <2>3. batch # {} => MaxOf(batch) \in batch /\ \A f \in batch : f <= MaxOf(batch)
    BY <2>2, MaxOfProperty
  <2>4. batch # {} => MaxOf(batch) \in Int /\ MaxOf(batch) > subs[s].latest
    BY <1>1, <2>2, <2>3, EntryIdsInt
  <2> QED BY <2>1, <2>3, <2>4
<1>3. subs' = [subs EXCEPT ![s].latest = v]
  BY <1>1
<1> HIDE DEF v
<1>4. HandsOut(p, s)
  BY <1>1, <1>2, <1>3 DEF HandsOut
<1> QED BY <1>1, <1>4

\* A take always succeeds while its TakeSubscription exists.
LEMMA TakeCases ==
  ASSUME KernelInv, NEW p \in Pids, NEW s \in Ids, NEW same \in BOOLEAN,
         Take(p, s, same)
  PROVE  /\ s \in DOMAIN subs
         /\ HandsOut(p, s)
         /\ UNCHANGED <<running, pubObj, subObj, unprepared, ready, fatal>>
         /\ UNCHANGED <<proc, wrappers, pubs, nextId, nextEntry, signalling,
                        eventfd>>
<1> DEFINE scanned == {e \in DOMAIN entries :
                         \/ e > subs[s].latest
                         \/ same /\ e = subs[s].latest}
           window  == Newest({e \in scanned : is_entry_deliverable(s, e)},
                             subs[s].qos.depth)
           chosen  == IF window = {} THEN {} ELSE {MinOf(window)}
<1>1. <<p, s>> \in subObj
  BY DEF Take
<1>2. s \in DOMAIN subs /\ ~NotFound(p, s)
  BY <1>1 DEF NotFound, KernelInv, EndpointsReachable, Reachable
<1>3. /\ window \in SUBSET DOMAIN entries
      /\ \A e \in window : e > subs[s].latest \/ (same /\ e = subs[s].latest)
  BY DEF Newest
<1>4. ~MeetsOrphan(s, scanned)
  BY NoOrphans
<1>5. subs[s].latest \in Int
  BY <1>2 DEF KernelInv, TypeOK, IsSubTable, SubInfo
<1>6. window \in SUBSET EntryIds
  BY <1>3 DEF KernelInv, TypeOK, IsEntryTree
<1>7. IF \/ MeetsOrphan(s, scanned)
         \/ ~same /\ Claimable(s, chosen) # chosen
      THEN Aborts(p) /\ UNCHANGED entries /\ UNCHANGED subs
      ELSE /\ entries' = add_subscriber_reference(entries, s, chosen)
           /\ subs' = [subs EXCEPT ![s].latest =
                         IF chosen = {} THEN @ ELSE MinOf(window)]
           /\ held' = held \cup {<<p, s, e>> : e \in chosen}
           /\ UNCHANGED <<running, pubObj, subObj, unprepared, ready, fatal>>
  BY <1>2 DEF Take
<1>8. UNCHANGED <<proc, wrappers, pubs, nextId, nextEntry, signalling, eventfd>>
  BY DEF Take
<1> HIDE DEF window, scanned
<1>9. window # {} => MinOf(window) \in window
  BY <1>6, MinOfProperty
<1>10. /\ chosen \in SUBSET DOMAIN entries
       /\ \A e \in chosen : e \in window /\ e \in Int /\ e = MinOf(window)
  BY <1>3, <1>6, <1>9, EntryIdsInt
<1> DEFINE v == IF chosen = {} THEN subs[s].latest ELSE MinOf(window)
<1>11. v \in Int /\ subs[s].latest <= v /\ \A e \in chosen : e <= v
  BY <1>3, <1>5, <1>9, <1>10
<1> HIDE DEF chosen
<1>12. ~same => Claimable(s, chosen) = chosen
  <2> SUFFICES ASSUME ~same PROVE Claimable(s, chosen) = chosen
    OBVIOUS
  <2>1. \A e \in chosen : e > subs[s].latest
    BY <1>3, <1>10
  <2>2. \A e \in chosen : s \notin entries[e].refs
    BY <1>5, <1>10, <2>1 DEF KernelInv, RefsBelowWatermark, BelowWatermark
  <2> QED BY <2>2 DEF Claimable
<1>13. /\ entries' = add_subscriber_reference(entries, s, chosen)
       /\ subs' = [subs EXCEPT ![s].latest = v]
       /\ held' = held \cup {<<p, s, e>> : e \in chosen}
       /\ UNCHANGED <<running, pubObj, subObj, unprepared, ready, fatal>>
  BY <1>4, <1>7, <1>12
<1> HIDE DEF v
<1>14. HandsOut(p, s)
  BY <1>10, <1>11, <1>13 DEF HandsOut
<1> QED BY <1>2, <1>8, <1>13, <1>14

\* The end of a process only takes objects away, and only its own.
LEMMA EndsShrinks ==
  ASSUME TypeOK, NEW p \in Pids, Ends(p)
  PROVE  /\ running' = running \ {p}
         /\ pubObj' \subseteq pubObj
         /\ subObj' \subseteq subObj
         /\ held' \subseteq held
         /\ \A o \in pubObj' \cup subObj' : o[1] # p
         /\ OwnersRun /\ UNCHANGED proc => OwnersRun'
BY DEF Ends, OwnersRun

\* A step that leaves the topic alone and adds no object keeps its invariant.
LEMMA TopicInvUnchanged ==
  ASSUME TopicInv({}), UNCHANGED topicVars,
         pubObj' \subseteq pubObj, subObj' \subseteq subObj
  PROVE  TopicInv({})'
BY DEF TopicInv, topicVars, Accounted, BelowWatermark, Reachable, Backed, Hold,
   Numbered, OwnedBy

\* The freshly loaded module satisfies KernelInv.
LEMMA KernelInvInit == Init => KernelInv
<1> SUFFICES ASSUME Init PROVE KernelInv
  OBVIOUS
<1>1. TypeOK
  BY EmptyType, ConstantsAssumption DEF Init, TypeOK
<1>2. TopicInv({})
  BY EmptyType DEF Init, TopicInv, Accounted, BelowWatermark, Reachable, Backed,
     Hold, Numbered
<1> QED BY <1>1, <1>2, KernelInvParts DEF Init, OwnersRun

\* Every step keeps KernelInv, one case per operation.
LEMMA KernelInvStep ==
  ASSUME KernelInv, [Next]_vars
  PROVE  KernelInv'
<1> DEFINE Kept == /\ TopicInv({})'
                   /\ signalling' \subseteq DOMAIN pubs'
                   /\ OwnersRun'
<1>1. TypeOK'
  BY TypeStep DEF KernelInv, EndpointsReachable
<1>2. /\ TypeOK /\ TopicInv({}) /\ signalling \subseteq DOMAIN pubs /\ OwnersRun
  BY KernelInvParts
<1>3. Hold({}, entries)
  BY DEF Hold
<1> SUFFICES Kept
  BY <1>1 DEF TopicInv, KernelInv, EntriesAccounted, RefsBelowWatermark,
     EndpointsReachable, Backed, Numbered
<1>4. ASSUME NEW p \in Pids, AddProcess(p) PROVE Kept
  BY <1>2, <1>4, TopicInvUnchanged DEF AddProcess, topicVars, OwnersRun, TypeOK
<1>5. ASSUME NEW p \in Pids, Ends(p), UNCHANGED kernelVars PROVE Kept
  BY <1>2, <1>5, EndsShrinks, TopicInvUnchanged DEF kernelVars, topicVars
<1>6. ASSUME NEW p \in Pids, agnocast_process_exit_cleanup(p) PROVE Kept
  <2>1. p \notin running /\ signalling' = {} /\ UNCHANGED userVars
    BY <1>6 DEF agnocast_process_exit_cleanup, LastThreadExited, GlobalWrite
  <2>2. /\ Accounted(pubs', entries')
        /\ BelowWatermark(subs', entries')
        /\ Reachable(wrappers', pubs', subs')
        /\ Backed(pubObj, subObj, pubs', subs')
        /\ Numbered(pubs', subs', entries', nextId', nextEntry')
    BY <1>3, <1>6, <2>1, CleanupKeeps
  <2>3. TopicInv({})'
    BY <2>1, <2>2 DEF userVars, TopicInv, Accounted, BelowWatermark, Reachable,
       Backed, Hold, Numbered, OwnedBy
  <2>4. OwnersRun'
    BY <1>2, <1>6, <2>1 DEF OwnersRun, userVars, agnocast_process_exit_cleanup,
       TypeOK
  <2> QED BY <2>1, <2>3, <2>4
<1>7. ASSUME NEW p \in Pids, agnocast_commit_exit_process(p) PROVE Kept
  BY <1>2, <1>7, TopicInvUnchanged DEF agnocast_commit_exit_process, topicVars,
     userVars, OwnersRun, TypeOK
<1>8. ASSUME NEW p \in Pids, AddEndpointFails(p) PROVE Kept
  <2>1. TopicInv({})'
    BY <1>2, <1>8, EndsShrinks DEF AddEndpointFails, add_topic, TopicInv, Accounted,
       BelowWatermark, Reachable, Backed, Hold, Numbered, OwnedBy
  <2> QED BY <1>2, <1>8, <2>1, EndsShrinks DEF AddEndpointFails
<1>9. ASSUME NEW p \in Pids, NEW q \in PubQos, AddPublisher(p, q) PROVE Kept
  <2> DEFINE new == [pid |-> p, qos |-> q, num |-> 0, notify |-> {}]
             pub == [new EXCEPT !.notify = rebuild_notify_list(new, subs)]
  <2>1. /\ pubs' = [i \in DOMAIN pubs \cup {nextId} |->
                      IF i = nextId THEN pub ELSE pubs[i]]
        /\ wrappers' = wrappers \cup {DomainOf[p]}
        /\ nextId' = nextId + 1
        /\ pubObj' = pubObj \cup {<<p, nextId>>}
        /\ p \in running
        /\ UNCHANGED <<proc, subs, entries, nextEntry, signalling, running, subObj>>
    BY <1>9 DEF AddPublisher, add_topic
  <2>2. pub.pid = p /\ pub.num = 0
    OBVIOUS
  <2> HIDE DEF pub
  <2>3. \A i \in DOMAIN pubs \cup DOMAIN subs : i \in Int /\ i < nextId
    BY <1>2 DEF TopicInv, Numbered, TypeOK, IsPubTable, IsSubTable, Ids
  <2>4. nextId \notin DOMAIN pubs /\ nextId \in Int
    BY <1>2, <2>3 DEF TypeOK
  <2>5. OwnedBy(entries, nextId) = {}
    BY <1>2, <2>4 DEF OwnedBy, TopicInv, Accounted
  <2>6. /\ DOMAIN pubs' = DOMAIN pubs \cup {nextId}
        /\ pubs'[nextId] = pub
        /\ \A i \in DOMAIN pubs : pubs'[i] = pubs[i]
    BY <2>1, <2>4
  <2>7. Accounted(pubs', entries')
    BY <1>2, <2>1, <2>2, <2>5, <2>6, FS_EmptySet DEF TopicInv, Accounted
  <2>8. Reachable(wrappers', pubs', subs')
    BY <1>2, <2>1, <2>2, <2>6 DEF TopicInv, Reachable
  <2>9. Backed(pubObj', subObj', pubs', subs')
    BY <1>2, <2>1, <2>2, <2>6 DEF TopicInv, Backed
  <2>10. Numbered(pubs', subs', entries', nextId', nextEntry')
    <3>1. \A i \in DOMAIN pubs' \cup DOMAIN subs' : i < nextId'
      BY <2>1, <2>3, <2>4, <2>6
    <3> QED BY <1>2, <2>1, <3>1 DEF TopicInv, Numbered
  <2>11. BelowWatermark(subs', entries') /\ Hold({}, entries')
    BY <1>2, <2>1 DEF TopicInv, BelowWatermark, Hold
  <2>12. TopicInv({})'
    BY <2>7, <2>8, <2>9, <2>10, <2>11 DEF TopicInv, Accounted, BelowWatermark,
       Reachable, Backed, Hold, Numbered, OwnedBy
  <2>13. OwnersRun'
    BY <1>2, <2>1 DEF OwnersRun
  <2> QED BY <1>2, <2>1, <2>6, <2>12, <2>13
<1>10. ASSUME NEW p \in Pids, NEW q \in SubQos, AddSubscriber(p, q) PROVE Kept
  <2> DEFINE sub == [pid |-> p, qos |-> q,
                     latest |-> IF q.tl THEN -1 ELSE nextEntry]
             sb  == [s \in DOMAIN subs \cup {nextId} |->
                       IF s = nextId THEN sub ELSE subs[s]]
  <2>1. /\ subs' = sb
        /\ pubs' = IF q.take THEN pubs ELSE rebuild_all_notify_lists(pubs, sb)
        /\ wrappers' = wrappers \cup {DomainOf[p]}
        /\ nextId' = nextId + 1
        /\ nextEntry' = IF q.tl THEN nextEntry ELSE nextEntry + 1
        /\ subObj' = subObj \cup {<<p, nextId>>}
        /\ p \in running
        /\ UNCHANGED <<proc, entries, signalling, running, pubObj>>
    BY <1>10 DEF AddSubscriber, add_topic
  <2>2. \A i \in DOMAIN pubs \cup DOMAIN subs : i \in Int /\ i < nextId
    BY <1>2 DEF TopicInv, Numbered, TypeOK, IsPubTable, IsSubTable, Ids
  <2>3. nextId \notin DOMAIN subs /\ nextId \in Int
    BY <1>2, <2>2 DEF TypeOK
  <2>4. sub.pid = p
    OBVIOUS
  <2> HIDE DEF sub
  <2>5. /\ DOMAIN subs' = DOMAIN subs \cup {nextId}
        /\ subs'[nextId] = sub
        /\ \A s \in DOMAIN subs : subs'[s] = subs[s]
    BY <2>1, <2>3
  <2>6. IsSubTable(sb)
    BY <1>1, <2>1 DEF TypeOK, IsSubTable
  <2> HIDE DEF sb
  <2>7. /\ DOMAIN pubs' = DOMAIN pubs
        /\ \A i \in DOMAIN pubs : /\ pubs'[i].pid = pubs[i].pid
                                  /\ pubs'[i].num = pubs[i].num
    <3>1. CASE q.take
      BY <2>1, <3>1
    <3>2. CASE ~q.take
      BY <1>2, <2>1, <2>6, <3>2, RebuildType DEF TypeOK
    <3> QED BY <3>1, <3>2
  <2>8. Accounted(pubs', entries')
    BY <1>2, <2>1, <2>7, AccountedCongruence DEF TopicInv
  <2>9. Reachable(wrappers', pubs', subs')
    BY <1>2, <2>1, <2>4, <2>5, <2>7 DEF TopicInv, Reachable
  <2>10. Backed(pubObj', subObj', pubs', subs')
    BY <1>2, <2>1, <2>4, <2>5, <2>7 DEF TopicInv, Backed
  <2>11. Numbered(pubs', subs', entries', nextId', nextEntry')
    <3>1. \A i \in DOMAIN pubs' \cup DOMAIN subs' : i < nextId'
      BY <2>1, <2>2, <2>3, <2>5, <2>7
    <3>2. nextEntry \in Int
      BY <1>2 DEF TypeOK
    <3>3. \A e \in DOMAIN entries : e \in Int /\ e < nextEntry
      BY <1>2, EntryIdsInt DEF TopicInv, Numbered, TypeOK, IsEntryTree
    <3>4. \A e \in DOMAIN entries' : e < nextEntry'
      BY <2>1, <3>2, <3>3
    <3> QED BY <3>1, <3>4 DEF Numbered
  <2>12. BelowWatermark(subs', entries') /\ Hold({}, entries')
    BY <1>2, <2>1, <2>5 DEF TopicInv, BelowWatermark, Hold
  <2>13. TopicInv({})'
    BY <2>8, <2>9, <2>10, <2>11, <2>12 DEF TopicInv, Accounted, BelowWatermark,
       Reachable, Backed, Hold, Numbered, OwnedBy
  <2>14. OwnersRun'
    BY <1>2, <2>1 DEF OwnersRun
  <2> QED BY <1>2, <2>1, <2>7, <2>13, <2>14
<1>11. ASSUME NEW p \in Pids, NEW i \in Ids, RemovePublisher(p, i) PROVE Kept
  <2>1. TopicInv({})'
    BY <1>3, <1>11, RemovePublisherKeeps
  <2> QED BY <1>2, <1>11, <2>1 DEF RemovePublisher, GlobalWrite, OwnersRun
<1>12. ASSUME NEW p \in Pids, NEW s \in Ids, RemoveSubscriber(p, s) PROVE Kept
  <2>1. TopicInv({})'
    BY <1>3, <1>12, RemoveSubscriberKeeps
  <2> QED BY <1>2, <1>12, <2>1 DEF RemoveSubscriber, GlobalWrite, OwnersRun
<1>13. ASSUME NEW p \in Pids, NEW i \in Ids, Publish(p, i) PROVE Kept
  <2>1. /\ Accounted(pubs', entries')
        /\ BelowWatermark(subs', entries')
        /\ Hold({}, entries')
        /\ Numbered(pubs', subs', entries', nextId', nextEntry')
        /\ DOMAIN pubs' = DOMAIN pubs
        /\ \A j \in DOMAIN pubs : pubs'[j].pid = pubs[j].pid
        /\ UNCHANGED <<proc, wrappers, subs, nextId, eventfd>>
        /\ i \in DOMAIN pubs
        /\ \/ Aborts(p) /\ UNCHANGED signalling
           \/ signalling' = signalling \cup {i} /\ UNCHANGED userVars
    BY <1>3, <1>13, PublishKeeps
  <2>2. pubObj' \subseteq pubObj /\ subObj' \subseteq subObj /\ OwnersRun'
    <3>1. CASE Aborts(p)
      BY <1>2, <2>1, <3>1, EndsShrinks DEF Aborts
    <3>2. CASE UNCHANGED userVars
      BY <1>2, <2>1, <3>2 DEF userVars, OwnersRun
    <3> QED BY <2>1, <3>1, <3>2
  <2>3. Reachable(wrappers', pubs', subs') /\ Backed(pubObj', subObj', pubs', subs')
    BY <1>2, <2>1, <2>2 DEF TopicInv, Reachable, Backed
  <2>4. TopicInv({})'
    BY <2>1, <2>3 DEF TopicInv, Accounted, BelowWatermark, Reachable, Backed, Hold,
       Numbered, OwnedBy
  <2> QED BY <1>2, <2>1, <2>2, <2>4
<1>14. ASSUME NEW i \in Ids, PublishSignal(i) PROVE Kept
  BY <1>2, <1>14, TopicInvUnchanged DEF PublishSignal, topicVars, userVars, OwnersRun
<1>15. ASSUME NEW p \in Pids, NEW s \in Ids, Receive(p, s) PROVE Kept
  <2>1. CASE NotFound(p, s)
    <3>1. Ends(p) /\ UNCHANGED kernelVars
      BY <1>15, <2>1 DEF Receive, Aborts, kernelVars
    <3> QED BY <1>5, <3>1
  <2>2. CASE ~NotFound(p, s)
    <3>1. /\ s \in DOMAIN subs
          /\ HandsOut(p, s)
          /\ UNCHANGED <<running, pubObj, subObj>>
          /\ UNCHANGED <<proc, wrappers, pubs, nextId, nextEntry, signalling>>
      BY <1>15, <2>2, ReceiveCases
    <3>2. TopicInv({})'
      BY <1>3, <3>1, HandOutKeeps DEF HandsOut
    <3> QED BY <1>2, <3>1, <3>2 DEF OwnersRun
  <2> QED BY <2>1, <2>2
<1>16. ASSUME NEW p \in Pids, NEW s \in Ids, NEW same \in BOOLEAN, Take(p, s, same)
       PROVE  Kept
  <2>1. /\ s \in DOMAIN subs
        /\ HandsOut(p, s)
        /\ UNCHANGED <<running, pubObj, subObj>>
        /\ UNCHANGED <<proc, wrappers, pubs, nextId, nextEntry, signalling>>
    BY <1>16, TakeCases
  <2>2. TopicInv({})'
    BY <1>3, <2>1, HandOutKeeps DEF HandsOut
  <2> QED BY <1>2, <2>1, <2>2 DEF OwnersRun
<1>17. ASSUME NEW p \in Pids, NEW s \in Ids, NEW e \in EntryIds, Release(p, s, e)
       PROVE  Kept
  <2>1. CASE Ends(p) /\ UNCHANGED kernelVars
    BY <1>5, <2>1
  <2>2. CASE ~(Ends(p) /\ UNCHANGED kernelVars)
    <3>1. /\ e \in DOMAIN entries
          /\ entries' = [entries EXCEPT ![e].refs = @ \ {s}]
          /\ UNCHANGED <<proc, wrappers, pubs, subs, nextId, nextEntry, signalling>>
          /\ UNCHANGED <<running, pubObj, subObj>>
      BY <1>17, <2>2 DEF Release, Aborts, kernelVars
    <3>2. /\ DOMAIN entries' = DOMAIN entries
          /\ \A f \in DOMAIN entries : /\ entries'[f].pub = entries[f].pub
                                       /\ entries'[f].refs \subseteq entries[f].refs
      BY <1>2, <3>1 DEF TypeOK, IsEntryTree, Entry
    <3>3. Accounted(pubs', entries')
      <4>1. Accounted(pubs, entries) /\ pubs' = pubs
        BY <1>2, <3>1 DEF TopicInv
      <4>2. \A i : OwnedBy(entries', i) = OwnedBy(entries, i)
        BY <3>2 DEF OwnedBy
      <4> QED BY <3>2, <4>1, <4>2 DEF Accounted
    <3>4. /\ BelowWatermark(subs', entries')
          /\ Numbered(pubs', subs', entries', nextId', nextEntry')
      BY <1>2, <3>1, <3>2 DEF TopicInv, BelowWatermark, Numbered
    <3>5. TopicInv({})'
      BY <1>2, <3>1, <3>3, <3>4 DEF TopicInv, Accounted, BelowWatermark, Reachable,
         Backed, Hold, Numbered, OwnedBy
    <3> QED BY <1>2, <3>1, <3>5 DEF OwnersRun
  <2> QED BY <2>1, <2>2
<1>18. ASSUME NEW p \in Pids, NEW s \in Ids, PrepareEpoll(p, s) \/ HandleEvent(p, s)
       PROVE  Kept
  BY <1>2, <1>18, TopicInvUnchanged DEF PrepareEpoll, HandleEvent, kernelVars,
     topicVars, OwnersRun
<1>19. CASE UNCHANGED vars
  BY <1>2, <1>19, TopicInvUnchanged DEF vars, topicVars, historyVars, OwnersRun
<1>20. ASSUME NEW p \in Pids, ProcessDies(p) PROVE Kept
  BY <1>5, <1>20 DEF ProcessDies
<1> HIDE DEF Kept
<1> QED BY <1>4, <1>6, <1>7, <1>8, <1>9, <1>10, <1>11, <1>12, <1>13, <1>14,
        <1>15, <1>16, <1>17, <1>18, <1>19, <1>20 DEF Next

\* Under every schedule of processes, deaths and misuse, the topic's tables stay
\* consistent.
THEOREM KernelInvariant == Spec => []KernelInv
<1>1. Init => KernelInv
  BY KernelInvInit
<1>2. KernelInv /\ [Next]_vars => KernelInv'
  BY KernelInvStep
<1> QED BY <1>1, <1>2, PTL DEF Spec

\* Every table keeps its type: in particular ids stay below MAX_TOPIC_LOCAL_ID,
\* the width of the reference bitmap, in every reachable state.
THEOREM TypeCorrect == Spec => []TypeOK
<1>1. KernelInv => TypeOK
  BY DEF KernelInv
<1> QED BY <1>1, KernelInvariant, PTL

\* entries_num counts the entries of its publisher and no entry is orphaned,
\* whatever processes do and whenever they die.
THEOREM Accounting == Spec => []EntriesAccounted
<1>1. KernelInv => EntriesAccounted
  BY DEF KernelInv
<1> QED BY <1>1, KernelInvariant, PTL

\* Reference bits belong to registered subscribers and lie below their
\* watermark, so a bit never outlives its subscriber.
THEOREM Watermark == Spec => []RefsBelowWatermark
<1>1. KernelInv => RefsBelowWatermark
  BY DEF KernelInv
<1> QED BY <1>1, KernelInvariant, PTL

\* Every endpoint keeps its wrapper and every live object its kernel record:
\* no release of a wrapper tears down a live endpoint.
THEOREM Reachability == Spec => []EndpointsReachable
<1>1. KernelInv => EndpointsReachable
  BY DEF KernelInv
<1> QED BY <1>1, KernelInvariant, PTL

-----------------------------------------------------------------------------
(* References only ever appear on new entries.                             *)

\* The new tree has only entries of ent, with no reference added.
Within(ent) ==
  \A e \in DOMAIN entries' : e \in DOMAIN ent /\ entries'[e].refs \subseteq ent[e].refs

\* Releasing wrappers adds no reference.
LEMMA ReleaseWrapperWithin ==
  ASSUME NEW D, NEW pb, NEW sb, NEW ent,
         agnocast_release_topic_wrapper(D, pb, sb, ent)
  PROVE  Within(ent)
<1>1. entries' = Empty \/ entries' = ent
  BY DEF agnocast_release_topic_wrapper
<1> QED BY <1>1, EmptyType DEF Within

\* A leaving subscriber adds no reference.
LEMMA LeaveTopicWithin ==
  ASSUME NEW pr, NEW D, NEW pb, NEW sb, NEW ent, NEW S, IsEntryTree(ent),
         LeaveTopic(pr, D, pb, sb, ent, S)
  PROVE  Within(ent)
<1> DEFINE cleared == clear_references(ent, S)
           dead == Abandoned(pr, pb, cleared)
           rest == agnocast_remove_entry_node(cleared, dead)
<1>1. /\ IsEntryTree(cleared)
      /\ DOMAIN cleared = DOMAIN ent
      /\ \A e \in DOMAIN ent : /\ cleared[e].pub = ent[e].pub
                               /\ cleared[e].refs = ent[e].refs \ S
  BY ClearType
<1>2. Within(rest)
  BY ReleaseWrapperWithin DEF LeaveTopic
<1> HIDE DEF cleared, dead
<1>3. /\ DOMAIN rest = DOMAIN cleared \ dead
      /\ \A e \in DOMAIN cleared \ dead : rest[e] = cleared[e]
  BY <1>1, RemoveType
<1> HIDE DEF rest
<1> QED BY <1>1, <1>2, <1>3 DEF Within

\* Neither the cleanup of a process nor the removal of an endpoint adds an entry
\* or a reference.
LEMMA StructuralWithin ==
  ASSUME TypeOK, NEW p, NEW i,
         agnocast_process_exit_cleanup(p) \/ RemovePublisher(p, i)
           \/ RemoveSubscriber(p, i)
  PROVE  Within(entries)
<1>1. \A E : LET rest == agnocast_remove_entry_node(entries, E)
             IN  /\ IsEntryTree(rest)
                 /\ \A e \in DOMAIN rest : e \in DOMAIN entries /\ rest[e] = entries[e]
  BY DEF agnocast_remove_entry_node, IsEntryTree, TypeOK
<1>2. CASE agnocast_process_exit_cleanup(p)
  <2>1. \E D, E, pb, sb, pr, S :
          \/ agnocast_release_topic_wrapper(
               D, pb, sb, agnocast_remove_entry_node(entries, E))
          \/ LeaveTopic(pr, D, pb, sb, agnocast_remove_entry_node(entries, E), S)
    BY <1>2 DEF agnocast_process_exit_cleanup
  <2>2. \E E : Within(agnocast_remove_entry_node(entries, E))
    BY <1>1, <2>1, ReleaseWrapperWithin, LeaveTopicWithin
  <2> QED BY <1>1, <2>2 DEF Within
<1>3. CASE RemovePublisher(p, i)
  <2>1. \/ UNCHANGED entries
        \/ \E D, E, pb : agnocast_release_topic_wrapper(
                           D, pb, subs, agnocast_remove_entry_node(entries, E))
    BY <1>3 DEF RemovePublisher, topicVars
  <2>2. UNCHANGED entries \/ \E E : Within(agnocast_remove_entry_node(entries, E))
    BY <2>1, ReleaseWrapperWithin
  <2> QED BY <1>1, <2>2 DEF Within
<1>4. CASE RemoveSubscriber(p, i)
  <2>1. \/ UNCHANGED entries
        \/ \E D, pb, sb, S : LeaveTopic(proc, D, pb, sb, entries, S)
    BY <1>4 DEF RemoveSubscriber, topicVars
  <2>2. UNCHANGED entries \/ Within(entries)
    BY <2>1, LeaveTopicWithin DEF TypeOK
  <2> QED BY <2>2 DEF Within
<1> QED BY <1>2, <1>3, <1>4

-----------------------------------------------------------------------------
(* The history of deliveries: what is behind a watermark was handed out or *)
(* passed over, and neither twice nor too early.                           *)

\* The step adds no reference to an entry that was there before.
NoNewReference ==
  \A e \in DOMAIN entries \cap DOMAIN entries' :
    entries'[e].refs \subseteq entries[e].refs

\* WatermarkExact of any tables sb and ent with history d and k.
Behind(d, k, sb, ent, n) ==
  /\ DOMAIN d = DOMAIN sb
  /\ DOMAIN k = DOMAIN sb
  /\ \A s \in DOMAIN sb :
       /\ d[s] \cup k[s] = {e \in DOMAIN ent : e <= sb[s].latest}
       /\ \A e \in k[s] : e < sb[s].latest
       /\ sb[s].latest < n

\* WatermarkExact before and after a step.
LEMMA BehindIsExact ==
  /\ WatermarkExact <=> Behind(delivered, skipped, subs, entries, nextEntry)
  /\ WatermarkExact' <=> Behind(delivered', skipped', subs', entries', nextEntry')
BY DEF WatermarkExact, Behind

\* What the step hands to subscriber s, and what it passes over.
HandsOverExactly(s) == OnceAndInOrder(s) /\ SkipsOnlyOverDepth(s)

\* The step leaves nothing to a subscriber whose last receive it is.
LeavesNothing(s) == ReceiveEnds(s) /\ subs[s].qos.depth # 0 => Pending(s)' = {}

\* The step is not the last receive of any subscription.
Quiet == \A s \in DOMAIN subs : ~ReceiveEnds(s)

\* The step delivers exactly and keeps the watermarks exact.
Exactly ==
  /\ Behind(delivered', skipped', subs', entries', nextEntry')
  /\ \A s \in DOMAIN subs \cap DOMAIN subs' : HandsOverExactly(s) /\ LeavesNothing(s)

\* A step that adds no reference, passes nothing over and is not the last
\* receive of anybody delivers exactly.
LEMMA QuietDelivers ==
  ASSUME NoNewReference, Quiet,
         \A s \in DOMAIN subs \cap DOMAIN subs' : skipped'[s] \subseteq skipped[s]
  PROVE  \A s \in DOMAIN subs \cap DOMAIN subs' : HandsOverExactly(s) /\ LeavesNothing(s)
BY DEF NoNewReference, Quiet, HandsOverExactly, LeavesNothing, OnceAndInOrder,
   SkipsOnlyOverDepth

\* A process that ends drops its receives, it does not finish them.
LEMMA EndsQuiet ==
  ASSUME TypeOK, NEW p \in Pids, Ends(p)
  PROVE  Quiet
<1> SUFFICES ASSUME NEW s \in DOMAIN subs, ReceiveEnds(s) PROVE FALSE
  BY DEF Quiet
<1> DEFINE o == <<subs[s].pid, s>>
<1>1. o \in Pids \X Ids /\ o[1] = subs[s].pid
  BY DEF TypeOK, IsSubTable, SubInfo
<1>2. ready'[o] = IF o[1] = p THEN 0 ELSE ready[o]
  BY <1>1 DEF Ends
<1>3. ready[o] \in Nat /\ ready'[o] < ready[o] /\ subs[s].pid \in running \ {p}
  BY <1>1 DEF ReceiveEnds, Ends, TypeOK
<1> QED BY <1>1, <1>2, <1>3

\* Nor is a step that leaves the receives alone or queues one.
LEMMA ReadyQuiet ==
  ASSUME TypeOK, NEW p \in Pids, NEW i \in Ids,
         UNCHANGED ready \/ ready' = [ready EXCEPT ![<<p, i>>] = @ + 1]
  PROVE  Quiet
<1> SUFFICES ASSUME NEW s \in DOMAIN subs, ReceiveEnds(s) PROVE FALSE
  BY DEF Quiet
<1> DEFINE o == <<subs[s].pid, s>>
<1>1. o \in Pids \X Ids
  BY DEF TypeOK, IsSubTable, SubInfo
<1>2. ready[o] \in Nat /\ ready'[o] < ready[o]
  BY <1>1 DEF ReceiveEnds, TypeOK
<1> HIDE DEF o
<1>3. ready'[o] = ready[o] \/ ready'[o] = ready[o] + 1
  BY <1>1 DEF TypeOK
<1> QED BY <1>2, <1>3

\* The step does not touch what the history is about.
Still == UNCHANGED <<subs, entries, nextEntry, delivered, skipped>>

\* Such a step delivers nothing.
LEMMA StillDelivers ==
  ASSUME WatermarkExact, Still, Quiet
  PROVE  Exactly
<1>1. Behind(delivered', skipped', subs', entries', nextEntry')
  BY BehindIsExact DEF Still
<1> QED BY <1>1, QuietDelivers DEF Still, Exactly, NoNewReference

\* The step only drops subscribers and entries, with their history.
Forgets ==
  /\ DOMAIN subs' \subseteq DOMAIN subs
  /\ \A s \in DOMAIN subs' : subs'[s] = subs[s]
  /\ DOMAIN entries' \subseteq DOMAIN entries
  /\ Remembers(DOMAIN subs', DOMAIN entries')
  /\ nextEntry' = nextEntry \/ DOMAIN subs' = {}

\* Releasing wrappers does that.
LEMMA ReleaseWrapperForgets ==
  ASSUME NEW D, NEW pb, NEW sb, NEW ent,
         DOMAIN sb \subseteq DOMAIN subs, \A s \in DOMAIN sb : sb[s] = subs[s],
         DOMAIN ent \subseteq DOMAIN entries,
         agnocast_release_topic_wrapper(D, pb, sb, ent)
  PROVE  Forgets
<1>1. /\ \/ subs' = Empty /\ entries' = Empty
         \/ subs' = sb /\ entries' = ent /\ nextEntry' = nextEntry
      /\ Remembers(DOMAIN subs', DOMAIN entries')
  BY DEF agnocast_release_topic_wrapper
<1> QED BY <1>1, EmptyType DEF Forgets

\* A leaving subscriber drops itself and what only it kept alive.
LEMMA LeaveTopicForgets ==
  ASSUME NEW pr, NEW D, NEW pb, NEW sb, NEW ent, NEW S, IsEntryTree(ent),
         DOMAIN sb \subseteq DOMAIN subs, \A s \in DOMAIN sb : sb[s] = subs[s],
         DOMAIN ent \subseteq DOMAIN entries,
         LeaveTopic(pr, D, pb, sb, ent, S)
  PROVE  Forgets
<1> DEFINE cleared == clear_references(ent, S)
           dead == Abandoned(pr, pb, cleared)
           rest == agnocast_remove_entry_node(cleared, dead)
           left == Discharge(pb, cleared, dead, PublishersOf(cleared, dead))
<1>1. DOMAIN cleared = DOMAIN ent
  BY ClearType
<1>2. agnocast_release_topic_wrapper(D, left, sb, rest)
  BY DEF LeaveTopic
<1>3. DOMAIN rest \subseteq DOMAIN entries
  <2> HIDE DEF cleared, dead
  <2> QED BY <1>1 DEF agnocast_remove_entry_node
<1> HIDE DEF rest, left
<1> QED BY <1>2, <1>3, ReleaseWrapperForgets

\* The cleanup of a process and the removal of an endpoint drop things, or the
\* topic is not touched.
LEMMA StructuralForgets ==
  ASSUME TypeOK, NEW p \in Pids, NEW i \in Ids,
         agnocast_process_exit_cleanup(p) \/ RemovePublisher(p, i)
           \/ RemoveSubscriber(p, i)
  PROVE  (Forgets \/ Still) /\ UNCHANGED ready
<1>1. \A E : LET rest == agnocast_remove_entry_node(entries, E)
             IN  IsEntryTree(rest) /\ DOMAIN rest \subseteq DOMAIN entries
  BY DEF agnocast_remove_entry_node, IsEntryTree, TypeOK
<1>2. \A S : LET sb == [s \in DOMAIN subs \ S |-> subs[s]]
             IN  /\ DOMAIN sb \subseteq DOMAIN subs
                 /\ \A s \in DOMAIN sb : sb[s] = subs[s]
  OBVIOUS
<1>3. CASE agnocast_process_exit_cleanup(p)
  <2>1. \E D, E, pb, pr, S, T :
          \/ agnocast_release_topic_wrapper(
               D, pb, [s \in DOMAIN subs \ T |-> subs[s]],
               agnocast_remove_entry_node(entries, E))
          \/ LeaveTopic(pr, D, pb, [s \in DOMAIN subs \ T |-> subs[s]],
                        agnocast_remove_entry_node(entries, E), S)
    BY <1>3 DEF agnocast_process_exit_cleanup
  <2>2. Forgets
    BY <1>1, <1>2, <2>1, ReleaseWrapperForgets, LeaveTopicForgets
  <2> QED BY <1>3, <2>2 DEF agnocast_process_exit_cleanup, userVars
<1>4. CASE RemovePublisher(p, i)
  <2>1. \/ Still
        \/ \E D, E, pb : agnocast_release_topic_wrapper(
                           D, pb, subs, agnocast_remove_entry_node(entries, E))
    BY <1>4 DEF RemovePublisher, topicVars, historyVars, Still
  <2>2. Still \/ Forgets
    BY <1>1, <2>1, ReleaseWrapperForgets
  <2> QED BY <1>4, <2>2 DEF RemovePublisher
<1>5. CASE RemoveSubscriber(p, i)
  <2>1. \/ Still
        \/ \E D, pb, S, T : LeaveTopic(proc, D, pb, [s \in DOMAIN subs \ T |-> subs[s]],
                                       entries, S)
    BY <1>5 DEF RemoveSubscriber, topicVars, historyVars, Still
  <2>2. Still \/ Forgets
    BY <1>2, <2>1, LeaveTopicForgets DEF TypeOK
  <2> QED BY <1>5, <2>2 DEF RemoveSubscriber
<1> QED BY <1>3, <1>4, <1>5

\* Dropping subscribers and entries delivers nothing.
LEMMA ForgettingDelivers ==
  ASSUME WatermarkExact, Forgets, Within(entries), Quiet
  PROVE  Exactly
<1>1. /\ \A s \in DOMAIN subs' : /\ delivered'[s] = delivered[s] \cap DOMAIN entries'
                                 /\ skipped'[s] = skipped[s] \cap DOMAIN entries'
      /\ DOMAIN delivered' = DOMAIN subs' /\ DOMAIN skipped' = DOMAIN subs'
  BY DEF Forgets, Remembers
<1>2. \A s \in DOMAIN subs' : s \in DOMAIN subs /\ subs'[s] = subs[s]
  BY DEF Forgets
<1>3. DOMAIN entries' \subseteq DOMAIN entries
  BY DEF Forgets
<1>4. Behind(delivered', skipped', subs', entries', nextEntry')
  <2> SUFFICES ASSUME NEW s \in DOMAIN subs'
               PROVE  /\ delivered'[s] \cup skipped'[s]
                           = {e \in DOMAIN entries' : e <= subs'[s].latest}
                      /\ \A e \in skipped'[s] : e < subs'[s].latest
                      /\ subs'[s].latest < nextEntry'
    BY <1>1 DEF Behind
  <2>1. /\ delivered[s] \cup skipped[s] = {e \in DOMAIN entries : e <= subs[s].latest}
        /\ \A e \in skipped[s] : e < subs[s].latest
        /\ subs[s].latest < nextEntry
    BY <1>2 DEF WatermarkExact
  <2>2. nextEntry' = nextEntry
    BY DEF Forgets
  <2>3. delivered'[s] \cup skipped'[s] = (delivered[s] \cup skipped[s]) \cap DOMAIN entries'
    BY <1>1
  <2>4. delivered'[s] \cup skipped'[s] = {e \in DOMAIN entries' : e <= subs'[s].latest}
    BY <1>2, <1>3, <2>1, <2>3
  <2> QED BY <1>1, <1>2, <2>1, <2>2, <2>4
<1>5. NoNewReference
  BY DEF Within, NoNewReference
<1>6. \A s \in DOMAIN subs \cap DOMAIN subs' : skipped'[s] \subseteq skipped[s]
  BY <1>1
<1> QED BY <1>4, <1>5, <1>6, QuietDelivers DEF Exactly

\* A new subscriber has been handed nothing; what was published before it joined
\* is behind it unless it asked for that.
LEMMA JoinDelivers ==
  ASSUME KernelInv, WatermarkExact, NEW p \in Pids, NEW q \in SubQos,
         AddSubscriber(p, q)
  PROVE  Exactly
<1> DEFINE sub == [pid |-> p, qos |-> q,
                   latest |-> IF q.tl THEN -1 ELSE nextEntry]
           past == IF q.tl THEN {} ELSE DOMAIN entries
<1>1. /\ subs' = [s \in DOMAIN subs \cup {nextId} |->
                    IF s = nextId THEN sub ELSE subs[s]]
      /\ Joins(nextId, past)
      /\ nextEntry' = IF q.tl THEN nextEntry ELSE nextEntry + 1
      /\ UNCHANGED entries /\ UNCHANGED ready
  BY DEF AddSubscriber
<1>2. nextId \notin DOMAIN subs
  <2>1. \A s \in DOMAIN subs : s < nextId
    BY DEF KernelInv, EndpointsReachable
  <2>2. nextId \in Int
    BY ConstantsAssumption DEF KernelInv, TypeOK
  <2> QED BY <2>1, <2>2
<1>3. /\ DOMAIN subs' = DOMAIN subs \cup {nextId}
      /\ DOMAIN delivered' = DOMAIN subs' /\ DOMAIN skipped' = DOMAIN subs'
      /\ subs'[nextId].latest = IF q.tl THEN -1 ELSE nextEntry
      /\ delivered'[nextId] = {} /\ skipped'[nextId] = past
      /\ \A s \in DOMAIN subs : /\ subs'[s] = subs[s]
                                /\ delivered'[s] = delivered[s]
                                /\ skipped'[s] = skipped[s]
  BY <1>1, <1>2 DEF Joins
<1>4. nextEntry \in Nat /\ \A e \in DOMAIN entries : e \in Nat /\ e < nextEntry
  <2>1. nextEntry \in Nat
    BY ConstantsAssumption DEF KernelInv, TypeOK
  <2>2. DOMAIN entries \subseteq Nat
    BY EntryIdsFinite DEF KernelInv, TypeOK, IsEntryTree
  <2> QED BY <2>1, <2>2 DEF KernelInv, EndpointsReachable
<1>5. Behind(delivered', skipped', subs', entries', nextEntry')
  <2> SUFFICES ASSUME NEW s \in DOMAIN subs'
               PROVE  /\ delivered'[s] \cup skipped'[s]
                           = {e \in DOMAIN entries : e <= subs'[s].latest}
                      /\ \A e \in skipped'[s] : e < subs'[s].latest
                      /\ subs'[s].latest < nextEntry'
    BY <1>1, <1>3 DEF Behind
  <2>1. CASE s = nextId
    <3>1. CASE q.tl
      BY <1>1, <1>3, <1>4, <2>1, <3>1
    <3>2. CASE ~q.tl
      BY <1>1, <1>3, <1>4, <2>1, <3>2
    <3> QED BY <3>1, <3>2
  <2>2. CASE s # nextId
    <3>1. s \in DOMAIN subs
      BY <1>3, <2>2
    <3>2. /\ delivered[s] \cup skipped[s] = {e \in DOMAIN entries : e <= subs[s].latest}
          /\ \A e \in skipped[s] : e < subs[s].latest
          /\ subs[s].latest < nextEntry
      BY <3>1 DEF WatermarkExact
    <3>3. subs[s].latest \in Int
      BY <3>1 DEF KernelInv, TypeOK, IsSubTable, SubInfo
    <3>4. subs'[s].latest < nextEntry'
      BY <1>1, <1>3, <1>4, <3>1, <3>2, <3>3
    <3> QED BY <1>3, <3>1, <3>2, <3>4
  <2> QED BY <2>1, <2>2
<1>6. NoNewReference
  BY <1>1 DEF NoNewReference
<1>7. Quiet
  <2> SUFFICES ASSUME NEW s \in DOMAIN subs, ReceiveEnds(s) PROVE FALSE
    BY DEF Quiet
  <2>1. ready[<<subs[s].pid, s>>] \in Nat
    BY DEF KernelInv, TypeOK, IsSubTable, SubInfo
  <2> QED BY <1>1, <2>1 DEF ReceiveEnds
<1>8. \A s \in DOMAIN subs \cap DOMAIN subs' : skipped'[s] \subseteq skipped[s]
  BY <1>3
<1> QED BY <1>5, <1>6, <1>7, <1>8, QuietDelivers DEF Exactly

\* Publishing puts an entry beyond every watermark and may erase others.
LEMMA PublishDelivers ==
  ASSUME KernelInv, WatermarkExact, NEW p \in Pids, NEW i \in Ids, Publish(p, i)
  PROVE  Exactly
<1>1. TypeOK
  BY DEF KernelInv
<1>2. CASE publish_error(p, i)
  <2>1. Aborts(p) /\ UNCHANGED kernelVars
    BY <1>2 DEF Publish
  <2> QED BY <1>1, <2>1, EndsQuiet, StillDelivers DEF Aborts, kernelVars,
            historyVars, Still
<1>3. CASE ~publish_error(p, i)
  <2> DEFINE ent == [e \in DOMAIN entries \cup {nextEntry} |->
                       IF e = nextEntry THEN [pub |-> i, refs |-> {}]
                       ELSE entries[e]]
  <2>1. /\ \E D : entries' = agnocast_remove_entry_node(ent, D)
        /\ nextEntry' = nextEntry + 1
        /\ Remembers(DOMAIN subs, DOMAIN entries')
        /\ UNCHANGED subs
        /\ Aborts(p) \/ UNCHANGED userVars
    BY <1>3 DEF Publish
  <2>2. nextEntry \in Nat /\ nextEntry \notin DOMAIN entries
    <3>1. nextEntry \in Nat
      BY <1>1, ConstantsAssumption DEF TypeOK
    <3>2. \A e \in DOMAIN entries : e < nextEntry
      BY DEF KernelInv, EndpointsReachable
    <3> QED BY <3>1, <3>2
  <2>3. /\ DOMAIN entries' \subseteq DOMAIN entries \cup {nextEntry}
        /\ \A e \in DOMAIN entries' : e # nextEntry => entries'[e] = entries[e]
    BY <2>1 DEF agnocast_remove_entry_node
  <2>4. /\ DOMAIN delivered' = DOMAIN subs' /\ DOMAIN skipped' = DOMAIN subs'
        /\ \A s \in DOMAIN subs : /\ delivered'[s] = delivered[s] \cap DOMAIN entries'
                                  /\ skipped'[s] = skipped[s] \cap DOMAIN entries'
    BY <2>1 DEF Remembers
  <2>5. Behind(delivered', skipped', subs', entries', nextEntry')
    <3> SUFFICES ASSUME NEW s \in DOMAIN subs
                 PROVE  /\ delivered'[s] \cup skipped'[s]
                             = {e \in DOMAIN entries' : e <= subs[s].latest}
                        /\ \A e \in skipped'[s] : e < subs[s].latest
                        /\ subs[s].latest < nextEntry'
      BY <2>1, <2>4 DEF Behind
    <3>1. /\ delivered[s] \cup skipped[s] = {e \in DOMAIN entries : e <= subs[s].latest}
          /\ \A e \in skipped[s] : e < subs[s].latest
          /\ subs[s].latest < nextEntry
      BY DEF WatermarkExact
    <3>2. subs[s].latest \in Int
      BY <1>1 DEF TypeOK, IsSubTable, SubInfo
    <3>3. ~(nextEntry <= subs[s].latest)
      BY <2>2, <3>1, <3>2
    <3>4. {e \in DOMAIN entries : e <= subs[s].latest} \cap DOMAIN entries'
            = {e \in DOMAIN entries' : e <= subs[s].latest}
      BY <2>3, <3>3
    <3>5. delivered'[s] \cup skipped'[s]
            = (delivered[s] \cup skipped[s]) \cap DOMAIN entries'
      BY <2>4
    <3>6. delivered'[s] \cup skipped'[s] = {e \in DOMAIN entries' : e <= subs[s].latest}
      BY <3>1, <3>4, <3>5
    <3>7. subs[s].latest < nextEntry'
      BY <2>1, <2>2, <3>1, <3>2
    <3> QED BY <2>4, <3>1, <3>6, <3>7
  <2>6. NoNewReference
    BY <2>2, <2>3 DEF NoNewReference
  <2>7. Quiet
    BY <1>1, <2>1, EndsQuiet, ReadyQuiet DEF Aborts, userVars
  <2>8. \A s \in DOMAIN subs \cap DOMAIN subs' : skipped'[s] \subseteq skipped[s]
    BY <2>4
  <2> QED BY <2>5, <2>6, <2>7, <2>8, QuietDelivers DEF Exactly
<1> QED BY <1>2, <1>3

\* Giving up a reference delivers nothing.
LEMMA ReleaseDelivers ==
  ASSUME KernelInv, WatermarkExact, NEW p \in Pids, NEW s \in Ids,
         NEW e \in EntryIds, Release(p, s, e)
  PROVE  Exactly
<1>1. TypeOK
  BY DEF KernelInv
<1>2. CASE Aborts(p) /\ UNCHANGED entries
  <2>1. Still
    BY <1>2 DEF Release, historyVars, Still
  <2> QED BY <1>1, <1>2, <2>1, EndsQuiet, StillDelivers DEF Aborts
<1>3. CASE ~(Aborts(p) /\ UNCHANGED entries)
  <2>1. /\ e \in DOMAIN entries
        /\ entries' = [entries EXCEPT ![e].refs = @ \ {s}]
        /\ UNCHANGED <<subs, nextEntry, delivered, skipped, ready>>
    BY <1>3 DEF Release, historyVars
  <2>2. /\ DOMAIN entries' = DOMAIN entries
        /\ \A f \in DOMAIN entries : entries'[f].refs \subseteq entries[f].refs
    BY <1>1, <2>1 DEF TypeOK, IsEntryTree, Entry
  <2>3. NoNewReference
    BY <2>2 DEF NoNewReference
  <2>4. Behind(delivered', skipped', subs', entries', nextEntry')
    BY <2>1, <2>2, BehindIsExact DEF Behind
  <2>5. Quiet
    BY <1>1, <2>1, ReadyQuiet
  <2> QED BY <2>1, <2>3, <2>4, <2>5, QuietDelivers DEF Exactly
<1> QED BY <1>2, <1>3

\* What subscriber s can still be handed by its watermark.
Ahead(s) == {e \in Unreceived(s) : is_entry_deliverable(s, e)}

\* Before a step, this is what it has neither been handed nor passed over.
LEMMA AheadIsPending ==
  ASSUME KernelInv, WatermarkExact, NEW s \in DOMAIN subs
  PROVE  /\ Ahead(s) = Pending(s)
         /\ Ahead(s) \in SUBSET EntryIds
         /\ Ahead(s) \in SUBSET DOMAIN entries
<1>1. delivered[s] \cup skipped[s] = {e \in DOMAIN entries : e <= subs[s].latest}
  BY DEF WatermarkExact
<1>2. subs[s].latest \in Int
  BY DEF KernelInv, TypeOK, IsSubTable, SubInfo
<1>3. \A e \in DOMAIN entries : e \in EntryIds /\ e \in Int
  BY EntryIdsInt DEF KernelInv, TypeOK, IsEntryTree
<1>4. \A e \in DOMAIN entries :
        e > subs[s].latest <=> e \notin delivered[s] \cup skipped[s]
  BY <1>1, <1>2, <1>3
<1> QED BY <1>3, <1>4 DEF Ahead, Pending, Unreceived

\* An entry of E that is not among the n newest has n newer ones in E.
LEMMA NotNewest ==
  ASSUME NEW E \in SUBSET EntryIds, NEW n \in Nat, NEW e \in E, e \notin Newest(E, n)
  PROVE  Cardinality({f \in E : f > e}) >= n
<1>1. Cardinality({f \in E : f > e}) \in Nat
  BY EntryIdsFinite
<1> QED BY <1>1 DEF Newest

\* The n oldest of a set are all older than the rest of it.
LEMMA OldestFirst ==
  ASSUME NEW E \in SUBSET EntryIds, NEW n \in Nat, NEW f \in Oldest(E, n),
         NEW e \in E, e < f
  PROVE  e \in Oldest(E, n)
<1> DEFINE A == {g \in E : g < e}
           B == {g \in E : g < f}
<1>1. /\ A \in SUBSET EntryIds /\ B \in SUBSET EntryIds
      /\ f \in Int /\ \A g \in E : g \in Int
  BY EntryIdsInt DEF Oldest
<1>2. A \subseteq B
  BY <1>1
<1>3. Cardinality(B) < n
  BY DEF Oldest
<1>4. Cardinality(A) <= Cardinality(B)
  <2> HIDE DEF A, B
  <2>1. IsFiniteSet(B)
    BY <1>1, EntryIdsFinite
  <2> QED BY <1>2, <2>1, FS_Subset
<1>5. Cardinality(A) \in Nat /\ Cardinality(B) \in Nat
  <2> HIDE DEF A, B
  <2> QED BY <1>1, EntryIdsFinite
<1>6. Cardinality(A) < n
  <2> HIDE DEF A, B
  <2> QED BY <1>3, <1>4, <1>5
<1> QED BY <1>6 DEF Oldest

\* The newest of all is among the n newest, for every n but 0.
LEMMA NewestIsNewest ==
  ASSUME NEW E \in SUBSET EntryIds, E # {}, NEW n \in Nat, n # 0
  PROVE  MaxOf(E) \in Newest(E, n)
<1>1. MaxOf(E) \in E /\ \A f \in E : f <= MaxOf(E) /\ f \in Int
  BY MaxOfProperty, EntryIdsInt
<1>2. {f \in E : f > MaxOf(E)} = {}
  BY <1>1
<1>3. Cardinality({f \in E : f > MaxOf(E)}) = 0
  BY <1>2, FS_EmptySet
<1> QED BY <1>1, <1>3 DEF Newest

\* Subscriber s is handed the entries of E and its watermark moves up to v.
Hands(s, E, v) ==
  /\ E \in SUBSET DOMAIN entries
  /\ E = {} => v = subs[s].latest
  /\ E # {} => v \in E
  /\ \A e \in E : subs[s].latest <= e /\ e <= v
  /\ \A e \in E : e > subs[s].latest \/ subs[s].qos.take
  /\ entries' = add_subscriber_reference(entries, s, E)
  /\ subs' = [subs EXCEPT ![s].latest = v]
  /\ Delivers(s, E)
  /\ UNCHANGED <<proc, pubs, nextEntry>>

\* What is skipped between the old watermark and v has qos_depth newer ones ahead.
DepthKept(s, E, v) ==
  \A e \in Ahead(s) \ E :
    e < v => Cardinality({f \in Ahead(s) : f > e}) >= subs[s].qos.depth

\* Handing over entries that way is exact and keeps the watermarks exact.
LEMMA HandingDelivers ==
  ASSUME KernelInv, WatermarkExact, NEW s \in DOMAIN subs, NEW E, NEW v,
         Hands(s, E, v), DepthKept(s, E, v)
  PROVE  /\ Behind(delivered', skipped', subs', entries', nextEntry')
         /\ \A t \in DOMAIN subs \cap DOMAIN subs' : HandsOverExactly(t)
         /\ DOMAIN entries' = DOMAIN entries /\ DOMAIN subs' = DOMAIN subs
         /\ v \in Int /\ subs[s].latest <= v /\ subs'[s].latest = v
         /\ \A t \in DOMAIN subs : subs'[t].pid = subs[t].pid /\ subs'[t].qos = subs[t].qos
         /\ \A e \in DOMAIN entries : entries'[e].pub = entries[e].pub
<1>1. /\ IsSubTable(subs) /\ IsEntryTree(entries) /\ s \in Ids
      /\ subs[s].latest \in Int
  BY DEF KernelInv, TypeOK, IsSubTable, SubInfo
<1>2. \A e \in DOMAIN entries : e \in EntryIds /\ e \in Int
  BY <1>1, EntryIdsInt DEF IsEntryTree
<1>3. /\ v \in Int /\ subs[s].latest <= v /\ v < nextEntry
      /\ \A e \in E : e \in DOMAIN entries /\ e <= v
      /\ \A e \in DOMAIN entries : e < v /\ e \notin E /\ v # subs[s].latest
           => \E f \in E : e < f
  <2>1. CASE E = {}
    BY <1>1, <2>1 DEF Hands, WatermarkExact
  <2>2. CASE E # {}
    <3>1. v \in E /\ v \in DOMAIN entries
      BY <2>2 DEF Hands
    <3>2. v < nextEntry
      BY <3>1 DEF KernelInv, EndpointsReachable
    <3> QED BY <1>1, <1>2, <3>1, <3>2 DEF Hands
  <2> QED BY <2>1, <2>2
<1>4. /\ DOMAIN entries' = DOMAIN entries
      /\ \A e \in DOMAIN entries :
           /\ entries'[e].pub = entries[e].pub
           /\ entries'[e].refs = IF e \in E THEN entries[e].refs \cup {s}
                                 ELSE entries[e].refs
  <2>1. entries' = add_subscriber_reference(entries, s, E)
    BY DEF Hands
  <2>2. /\ DOMAIN add_subscriber_reference(entries, s, E) = DOMAIN entries
        /\ \A e \in DOMAIN entries :
             /\ add_subscriber_reference(entries, s, E)[e].pub = entries[e].pub
             /\ add_subscriber_reference(entries, s, E)[e].refs =
                  IF e \in E THEN entries[e].refs \cup {s} ELSE entries[e].refs
    BY <1>1, AddReferenceType
  <2> QED BY <2>1, <2>2
<1>5. /\ DOMAIN subs' = DOMAIN subs
      /\ \A t \in DOMAIN subs :
           /\ subs'[t].pid = subs[t].pid
           /\ subs'[t].qos = subs[t].qos
           /\ subs'[t].latest = IF t = s THEN v ELSE subs[t].latest
  BY <1>1, <1>3, LatestType DEF Hands
<1>6. \A t \in DOMAIN subs :
        /\ delivered[t] \cup skipped[t] = {e \in DOMAIN entries : e <= subs[t].latest}
        /\ \A e \in skipped[t] : e < subs[t].latest
        /\ subs[t].latest < nextEntry
  BY DEF WatermarkExact
<1> DEFINE passed == {e \in DOMAIN entries \ (delivered[s] \cup E) : \E f \in E : e < f}
<1>7. /\ DOMAIN delivered' = DOMAIN subs /\ DOMAIN skipped' = DOMAIN subs
      /\ \A t \in DOMAIN subs :
           /\ delivered'[t] = IF t = s THEN delivered[s] \cup E ELSE delivered[t]
           /\ skipped'[t] = IF t = s THEN skipped[s] \cup passed ELSE skipped[t]
  BY DEF Hands, Delivers, WatermarkExact
<1>8. \A e \in passed : e \in DOMAIN entries /\ e \notin E /\ e < v
  BY <1>2, <1>3
<1>9. \A e \in DOMAIN entries :
        e <= v => e \in delivered[s] \cup skipped[s] \cup E \cup passed
  <2> SUFFICES ASSUME NEW e \in DOMAIN entries, e <= v,
                      e \notin delivered[s] \cup skipped[s], e \notin E
               PROVE  \E f \in E : e < f
    OBVIOUS
  <2>1. e > subs[s].latest
    BY <1>1, <1>2, <1>6
  <2>2. v \notin E => E = {}
    BY DEF Hands
  <2>3. E # {}
    BY <1>1, <1>2, <2>1 DEF Hands
  <2>4. e # v
    BY <2>2, <2>3
  <2>5. e < v
    BY <1>2, <1>3, <2>4
  <2> QED BY <2>2, <2>3, <2>5
<1> HIDE DEF passed
<1>10. delivered'[s] \cup skipped'[s] = {e \in DOMAIN entries : e <= v}
  <2>1. \A e \in delivered'[s] \cup skipped'[s] : e \in DOMAIN entries /\ e <= v
    <3> SUFFICES ASSUME NEW e \in delivered'[s] \cup skipped'[s]
                 PROVE  e \in DOMAIN entries /\ e <= v
      OBVIOUS
    <3>1. CASE e \in delivered[s] \cup skipped[s]
      <4>1. e \in DOMAIN entries /\ e <= subs[s].latest
        BY <1>6, <3>1
      <4> QED BY <1>1, <1>2, <1>3, <4>1
    <3>2. CASE e \in E
      BY <1>3, <3>2
    <3>3. CASE e \in passed
      BY <1>2, <1>3, <1>8, <3>3
    <3> QED BY <1>7, <3>1, <3>2, <3>3
  <2>2. \A e \in DOMAIN entries : e <= v => e \in delivered'[s] \cup skipped'[s]
    BY <1>7, <1>9
  <2> QED BY <2>1, <2>2
<1>11. \A e \in skipped'[s] : e < v
  <2>1. \A e \in skipped[s] : e < subs[s].latest /\ e \in Int
    BY <1>2, <1>6
  <2>2. \A e \in skipped[s] : e < v
    BY <1>1, <1>3, <2>1
  <2> QED BY <1>7, <1>8, <2>2
<1>12. Behind(delivered', skipped', subs', entries', nextEntry')
  <2> SUFFICES ASSUME NEW t \in DOMAIN subs
               PROVE  /\ delivered'[t] \cup skipped'[t]
                           = {e \in DOMAIN entries : e <= subs'[t].latest}
                      /\ \A e \in skipped'[t] : e < subs'[t].latest
                      /\ subs'[t].latest < nextEntry
    BY <1>4, <1>5, <1>7 DEF Behind, Hands
  <2>1. CASE t = s
    BY <1>3, <1>5, <1>10, <1>11, <2>1
  <2>2. CASE t # s
    BY <1>5, <1>6, <1>7, <2>2
  <2> QED BY <2>1, <2>2
<1>13. ASSUME NEW t \in DOMAIN subs PROVE OnceAndInOrder(t)
  <2> SUFFICES ASSUME NEW e \in DOMAIN entries,
                      t \in entries'[e].refs \ entries[e].refs
               PROVE  /\ e \notin skipped[t]
                      /\ \A f \in delivered[t] : f < e \/ (f = e /\ subs[t].qos.take)
    BY DEF OnceAndInOrder
  <2>1. t = s /\ e \in E
    BY <1>4
  <2>2. /\ subs[s].latest <= e
        /\ e > subs[s].latest \/ subs[s].qos.take
        /\ e \in Int
    BY <1>2, <2>1 DEF Hands
  <2>3. ASSUME NEW f \in delivered[s] PROVE f < e \/ (f = e /\ subs[s].qos.take)
    <3>1. f <= subs[s].latest /\ f \in Int
      BY <1>2, <1>6, <2>3
    <3> QED BY <1>1, <2>2, <3>1
  <2>4. e \notin skipped[s]
    BY <1>1, <1>6, <2>2
  <2> QED BY <2>1, <2>3, <2>4
<1>14. ASSUME NEW t \in DOMAIN subs PROVE SkipsOnlyOverDepth(t)
  <2> SUFFICES ASSUME NEW e \in skipped'[t] \ skipped[t], is_entry_deliverable(t, e)
               PROVE  Cardinality({f \in Pending(t) : f > e}) >= subs[t].qos.depth
    BY DEF SkipsOnlyOverDepth
  <2>1. t = s /\ e \in passed
    BY <1>7
  <2>2. e \in DOMAIN entries /\ e \notin E /\ e < v /\ e \notin delivered[s] \cup skipped[s]
    BY <1>8, <2>1 DEF passed
  <2>3. e \in Pending(s)
    BY <2>1, <2>2 DEF Pending
  <2>4. Ahead(s) = Pending(s)
    BY AheadIsPending
  <2> QED BY <2>1, <2>2, <2>3, <2>4 DEF DepthKept
<1> QED BY <1>3, <1>4, <1>5, <1>12, <1>13, <1>14 DEF HandsOverExactly

\* A receive hands over the oldest of the newest entries ahead, and if it is not
\* to be called again nothing stays ahead.
LEMMA ReceiveDelivers ==
  ASSUME KernelInv, WatermarkExact, NEW p \in Pids, NEW s \in Ids, Receive(p, s)
  PROVE  Exactly
<1>1. TypeOK
  BY DEF KernelInv
<1>2. CASE NotFound(p, s)
  <2>1. Aborts(p) /\ Still
    BY <1>2 DEF Receive, Still, historyVars
  <2> QED BY <1>1, <2>1, EndsQuiet, StillDelivers DEF Aborts
<1>3. CASE ~NotFound(p, s)
  <2> DEFINE window == ReceiveWindow(s)
             batch  == Oldest(window, MaxReceiveNum)
             v      == IF batch = {} THEN subs[s].latest ELSE MaxOf(batch)
             depth  == subs[s].qos.depth
  <2>1. /\ s \in DOMAIN subs
        /\ batch \in SUBSET DOMAIN entries
        /\ \A e \in batch : e > subs[s].latest
        /\ entries' = add_subscriber_reference(entries, s, batch)
        /\ subs' = [subs EXCEPT ![s].latest = v]
        /\ ready' = [ready EXCEPT ![<<p, s>>] =
                       IF ret_call_again(batch, window) THEN @ ELSE @ - 1]
        /\ UNCHANGED <<proc, pubs, nextEntry>>
    BY <1>3, ReceiveSteps
  <2>2. Delivers(s, batch)
    <3>1. Claimable(s, batch) = batch
      <4> HIDE DEF batch
      <4>1. subs[s].latest \in Int /\ \A e \in batch : e \in Int
        BY <1>1, <2>1, EntryIdsInt DEF TypeOK, IsEntryTree, IsSubTable, SubInfo
      <4>2. \A e \in batch : s \notin entries[e].refs
        BY <2>1, <4>1 DEF KernelInv, RefsBelowWatermark, BelowWatermark
      <4> QED BY <4>2 DEF Claimable
    <3>2. ~MeetsOrphan(s, Unreceived(s))
      BY NoOrphans DEF Unreceived
    <3> QED BY <1>3, <3>1, <3>2 DEF Receive
  <2>3. /\ Ahead(s) = Pending(s)
        /\ Ahead(s) \in SUBSET EntryIds
        /\ Ahead(s) \in SUBSET DOMAIN entries
    BY <2>1, AheadIsPending
  <2>4. depth \in Nat /\ MaxReceiveNum \in Nat /\ subs[s].latest \in Int
    BY <1>1, <2>1, ConstantsAssumption DEF TypeOK, IsSubTable, SubInfo, SubQosType
  <2>5. window = Newest(Ahead(s), depth) /\ window \in SUBSET EntryIds
    BY <2>3 DEF ReceiveWindow, Ahead, Newest
  <2> HIDE DEF window
  <2>6. batch \in SUBSET window /\ batch \in SUBSET EntryIds
    BY <2>5 DEF Oldest
  <2>7. batch # {} => MaxOf(batch) \in batch /\ \A f \in batch : f <= MaxOf(batch)
    <3> HIDE DEF batch
    <3> QED BY <2>6, MaxOfProperty
  <2>8. /\ \A e \in batch : e <= v
        /\ batch # {} => v \in batch
        /\ batch = {} => v = subs[s].latest
    BY <2>7
  <2>9. DepthKept(s, batch, v)
    <3> SUFFICES ASSUME NEW e \in Ahead(s) \ batch, e < v
                 PROVE  Cardinality({f \in Ahead(s) : f > e}) >= depth
      BY DEF DepthKept
    <3>1. e > subs[s].latest /\ e \in Int
      BY <2>3, EntryIdsInt DEF Ahead, Unreceived
    <3>2. v \in batch
      BY <2>4, <2>8, <3>1
    <3>3. e \notin window
      BY <2>4, <2>5, <3>2, OldestFirst
    <3> QED BY <2>3, <2>4, <2>5, <3>3, NotNewest
  <2> HIDE DEF batch, v
  <2>10. \A e \in batch : subs[s].latest <= e
    BY <2>1, <2>4, <2>6, EntryIdsInt
  <2>11. Hands(s, batch, v)
    BY <2>1, <2>2, <2>8, <2>10 DEF Hands
  <2>12. /\ Behind(delivered', skipped', subs', entries', nextEntry')
         /\ \A t \in DOMAIN subs \cap DOMAIN subs' : HandsOverExactly(t)
         /\ DOMAIN entries' = DOMAIN entries /\ DOMAIN subs' = DOMAIN subs
         /\ v \in Int /\ subs[s].latest <= v /\ subs'[s].latest = v
         /\ subs'[s].pid = subs[s].pid /\ subs'[s].qos = subs[s].qos
         /\ \A e \in DOMAIN entries : entries'[e].pub = entries[e].pub
    BY <2>1, <2>9, <2>11, HandingDelivers
  <2>13. ASSUME NEW t \in DOMAIN subs, ReceiveEnds(t), subs[t].qos.depth # 0
         PROVE  Pending(t)' = {}
    <3> DEFINE o == <<subs[t].pid, t>>
    <3>1. o \in Pids \X Ids /\ <<p, s>> \in Pids \X Ids
      BY <1>1 DEF TypeOK, IsSubTable, SubInfo
    <3>2. ready[o] \in Nat /\ ready'[o] < ready[o]
      BY <1>1, <2>13, <3>1 DEF ReceiveEnds, TypeOK
    <3>3. ready'[o] = IF o = <<p, s>>
                      THEN IF ret_call_again(batch, window) THEN ready[o]
                           ELSE ready[o] - 1
                      ELSE ready[o]
      BY <1>1, <2>1, <3>1 DEF TypeOK
    <3>4. t = s /\ batch = window
      BY <3>2, <3>3 DEF ret_call_again
    <3> SUFFICES ASSUME NEW e \in Pending(s)' PROVE FALSE
      BY <3>4
    <3>5. /\ e \in DOMAIN entries' /\ is_entry_deliverable(s, e)'
          /\ e \notin delivered'[s] \cup skipped'[s]
      BY DEF Pending
    <3>6. e \in DOMAIN entries /\ e \in Int /\ e > v
      <4>1. e \in DOMAIN entries /\ e \in Int
        BY <1>1, <2>12, <3>5, EntryIdsInt DEF TypeOK, IsEntryTree
      <4>2. ~(e <= v)
        BY <2>1, <2>12, <3>5 DEF Behind
      <4> QED BY <2>12, <4>1, <4>2
    <3>7. is_entry_deliverable(s, e)
      BY <2>1, <2>12, <3>5, <3>6 DEF is_entry_deliverable, domain_delivery_allowed
    <3>8. e > subs[s].latest
      BY <2>4, <2>12, <3>6
    <3>9. e \in Ahead(s)
      BY <3>6, <3>7, <3>8 DEF Ahead, Unreceived
    <3>10. MaxOf(Ahead(s)) \in window
      BY <2>3, <2>4, <2>5, <2>13, <3>4, <3>9, NewestIsNewest
    <3>11. e <= MaxOf(Ahead(s)) /\ MaxOf(Ahead(s)) \in Int
      BY <2>3, <3>9, MaxOfProperty, EntryIdsInt
    <3>12. MaxOf(Ahead(s)) <= v
      BY <2>8, <3>4, <3>10
    <3> QED BY <2>12, <3>6, <3>11, <3>12
  <2> QED BY <2>12, <2>13 DEF Exactly, LeavesNothing
<1> QED BY <1>2, <1>3

\* A take hands over the oldest of the newest entries ahead, or the same again.
LEMMA TakeDelivers ==
  ASSUME KernelInv, WatermarkExact, NEW p \in Pids, NEW s \in Ids,
         NEW same \in BOOLEAN, Take(p, s, same)
  PROVE  Exactly
<1>1. TypeOK
  BY DEF KernelInv
<1>2. /\ s \in DOMAIN subs /\ subs[s].qos.take
      /\ ~NotFound(p, s)
      /\ UNCHANGED <<ready, proc, pubs, nextEntry>>
  <2>1. s \in DOMAIN subs /\ UNCHANGED <<ready, proc, pubs, nextEntry>>
    BY TakeCases
  <2>2. ~NotFound(p, s)
    BY <2>1 DEF Take, NotFound, KernelInv, EndpointsReachable, Reachable
  <2> QED BY <2>1, <2>2 DEF Take
<1> DEFINE scanned == {e \in DOMAIN entries :
                         \/ e > subs[s].latest
                         \/ same /\ e = subs[s].latest}
           deliv   == {e \in scanned : is_entry_deliverable(s, e)}
           depth   == subs[s].qos.depth
           window  == Newest(deliv, depth)
           chosen  == IF window = {} THEN {} ELSE {MinOf(window)}
           v       == IF chosen = {} THEN subs[s].latest ELSE MinOf(window)
<1>3. /\ subs[s].latest \in Int /\ depth \in Nat
      /\ \A e \in DOMAIN entries : e \in EntryIds /\ e \in Int
  BY <1>1, <1>2, EntryIdsInt, ConstantsAssumption DEF TypeOK, IsSubTable, SubInfo,
     SubQosType, IsEntryTree
<1>4. deliv \in SUBSET EntryIds /\ window \in SUBSET deliv
  BY <1>3 DEF Newest
<1>5. window # {} => MinOf(window) \in window /\ \A f \in window : MinOf(window) <= f
  <2> HIDE DEF window, deliv
  <2> QED BY <1>4, MinOfProperty
<1>6. \A e \in chosen : /\ e \in window /\ e \in DOMAIN entries
                        /\ subs[s].latest <= e /\ e <= v
  <2> HIDE DEF window
  <2>1. \A e \in chosen : e = MinOf(window) /\ e = v /\ e \in window
    BY <1>5
  <2>2. \A e \in deliv : /\ e \in DOMAIN entries
                         /\ e > subs[s].latest \/ e = subs[s].latest
    OBVIOUS
  <2>3. \A e \in deliv : e \in DOMAIN entries /\ subs[s].latest <= e /\ e \in Int
    <3> HIDE DEF deliv
    <3> QED BY <1>3, <2>2
  <2> HIDE DEF deliv
  <2>4. \A e \in window : e \in DOMAIN entries /\ subs[s].latest <= e /\ e \in Int
    BY <1>4, <2>3
  <2>5. \A e \in chosen : e <= v
    BY <2>1, <2>4
  <2> QED BY <2>1, <2>4, <2>5
<1>7. /\ ~MeetsOrphan(s, scanned)
      /\ ~same => Claimable(s, chosen) = chosen
  <2>1. ~MeetsOrphan(s, scanned)
    BY NoOrphans
  <2>2. ASSUME ~same PROVE Claimable(s, chosen) = chosen
    <3>1. \A e \in chosen : e > subs[s].latest /\ e \in Int /\ e \in DOMAIN entries
      <4>1. \A e \in window : e > subs[s].latest
        BY <1>4, <2>2
      <4> HIDE DEF window, chosen
      <4> QED BY <1>3, <1>6, <4>1
    <3> HIDE DEF chosen
    <3>2. \A e \in chosen : s \notin entries[e].refs
      BY <1>3, <3>1 DEF KernelInv, RefsBelowWatermark, BelowWatermark
    <3> QED BY <3>2 DEF Claimable
  <2> QED BY <2>1, <2>2
<1>8. /\ entries' = add_subscriber_reference(entries, s, chosen)
      /\ subs' = [subs EXCEPT ![s].latest = v]
      /\ Delivers(s, chosen)
  <2>1. IF \/ MeetsOrphan(s, scanned)
           \/ ~same /\ Claimable(s, chosen) # chosen
        THEN Aborts(p) /\ UNCHANGED <<entries, subs, historyVars>>
        ELSE /\ entries' = add_subscriber_reference(entries, s, chosen)
             /\ subs' = [subs EXCEPT ![s].latest =
                           IF chosen = {} THEN @ ELSE MinOf(window)]
             /\ Delivers(s, chosen)
    BY <1>2 DEF Take
  <2> QED BY <1>7, <2>1
<1>9. DepthKept(s, chosen, v)
  <2> SUFFICES ASSUME NEW e \in Ahead(s) \ chosen, e < v
               PROVE  Cardinality({f \in Ahead(s) : f > e}) >= depth
    BY DEF DepthKept
  <2>1. e \in deliv /\ e > subs[s].latest /\ e \in Int
    BY <1>3 DEF Ahead, Unreceived
  <2>2. window # {} /\ v = MinOf(window)
    <3>1. chosen = {} => v = subs[s].latest
      OBVIOUS
    <3>2. chosen # {} => window # {} /\ v = MinOf(window)
      OBVIOUS
    <3> HIDE DEF chosen, v, window, deliv
    <3>3. chosen # {}
      BY <1>3, <2>1, <3>1
    <3> QED BY <3>2, <3>3
  <2>3. e \notin window
    <3>1. MinOf(window) \in Int
      BY <1>3, <1>5, <2>2 DEF Newest
    <3> QED BY <1>5, <2>1, <2>2, <3>1
  <2>4. Cardinality({f \in deliv : f > e}) >= depth
    <3> HIDE DEF deliv
    <3> QED BY <1>3, <1>4, <2>1, <2>3, NotNewest
  <2>5. {f \in deliv : f > e} = {f \in Ahead(s) : f > e}
    BY <1>3, <2>1 DEF Ahead, Unreceived
  <2> QED BY <2>4, <2>5
<1>10. chosen # {} => v \in chosen
  OBVIOUS
<1>11. chosen = {} => v = subs[s].latest
  OBVIOUS
<1> HIDE DEF chosen, v
<1>12. Hands(s, chosen, v)
  BY <1>2, <1>6, <1>8, <1>10, <1>11 DEF Hands
<1>13. /\ Behind(delivered', skipped', subs', entries', nextEntry')
       /\ \A t \in DOMAIN subs \cap DOMAIN subs' : HandsOverExactly(t)
  BY <1>2, <1>9, <1>12, HandingDelivers
<1>14. Quiet
  BY <1>1, <1>2, ReadyQuiet
<1> QED BY <1>13, <1>14 DEF Exactly, Quiet, LeavesNothing

\* Every step delivers exactly.
LEMMA DeliveryStep ==
  ASSUME KernelInv, WatermarkExact, [Next]_vars
  PROVE  Exactly
<1>1. TypeOK
  BY DEF KernelInv
<1>2. ASSUME NEW p \in Pids,
             \/ AddProcess(p) \/ agnocast_commit_exit_process(p)
             \/ \E q \in PubQos : AddPublisher(p, q)
      PROVE  Still /\ UNCHANGED ready
  BY <1>2 DEF AddProcess, agnocast_commit_exit_process, AddPublisher, topicVars,
     historyVars, userVars, Still
<1>3. ASSUME NEW p \in Pids, ProcessDies(p) \/ AddEndpointFails(p)
      PROVE  Exactly
  <2>1. Still /\ Ends(p)
    BY <1>3 DEF ProcessDies, AddEndpointFails, kernelVars, historyVars, Still
  <2> QED BY <1>1, <2>1, EndsQuiet, StillDelivers
<1>4. ASSUME NEW p \in Pids, NEW i \in Ids,
             agnocast_process_exit_cleanup(p) \/ RemovePublisher(p, i)
               \/ RemoveSubscriber(p, i)
      PROVE  Exactly
  <2>1. (Forgets \/ Still) /\ Within(entries) /\ Quiet
    BY <1>1, <1>4, StructuralForgets, StructuralWithin, ReadyQuiet
  <2> QED BY <2>1, ForgettingDelivers, StillDelivers
<1>5. ASSUME NEW p \in Pids, agnocast_process_exit_cleanup(p), Ids = {} PROVE Exactly
  <2>1. DOMAIN subs = {}
    BY <1>1, <1>5 DEF TypeOK, IsSubTable
  <2>2. DOMAIN subs' = {} /\ DOMAIN delivered' = {} /\ DOMAIN skipped' = {}
    <3>1. Within(entries)
      BY <1>1, <1>5, StructuralWithin
    <3>2. {s \in DOMAIN subs : subs[s].pid = p} = {}
      BY <2>1
    <3>3. \E pb, sb, ent : /\ DOMAIN sb = {}
                           /\ agnocast_release_topic_wrapper(Domains, pb, sb, ent)
      BY <1>5, <2>1, <3>2 DEF agnocast_process_exit_cleanup
    <3> QED BY <3>3, EmptyType DEF agnocast_release_topic_wrapper, Remembers
  <2> QED BY <2>1, <2>2 DEF Exactly, Behind
<1>6. ASSUME NEW p \in Pids, NEW s \in Ids, PrepareEpoll(p, s) \/ HandleEvent(p, s)
      PROVE  Exactly
  <2>1. Still
    BY <1>6 DEF PrepareEpoll, HandleEvent, kernelVars, topicVars, historyVars, Still
  <2>2. UNCHANGED ready \/ ready' = [ready EXCEPT ![<<p, s>>] = @ + 1]
    BY <1>6 DEF PrepareEpoll, HandleEvent
  <2> QED BY <1>1, <2>1, <2>2, ReadyQuiet, StillDelivers
<1>7. ASSUME UNCHANGED ready PROVE Quiet
  <2> SUFFICES ASSUME NEW s \in DOMAIN subs, ReceiveEnds(s) PROVE FALSE
    BY DEF Quiet
  <2>1. ready[<<subs[s].pid, s>>] \in Nat
    BY <1>1 DEF TypeOK, IsSubTable, SubInfo
  <2> QED BY <1>7, <2>1 DEF ReceiveEnds
<1>8. ASSUME NEW i \in Ids, PublishSignal(i) PROVE Still /\ UNCHANGED ready
  BY <1>8 DEF PublishSignal, topicVars, historyVars, userVars, Still
<1>9. UNCHANGED vars => Still /\ UNCHANGED ready
  BY DEF vars, Still
<1>10. Still /\ UNCHANGED ready => Exactly
  BY <1>7, StillDelivers
<1>11. CASE Ids = {}
  BY <1>2, <1>3, <1>5, <1>9, <1>10, <1>11, JoinDelivers DEF Next
<1>12. CASE Ids # {}
  BY <1>2, <1>3, <1>4, <1>6, <1>8, <1>9, <1>10, <1>12, JoinDelivers, PublishDelivers,
     ReleaseDelivers, ReceiveDelivers, TakeDelivers DEF Next
<1> QED BY <1>11, <1>12

\* latest_received_entry_id of every subscriber tells exactly what it has been
\* handed and what it has passed over.
THEOREM WatermarkHistory == Spec => []WatermarkExact
<1>1. Init => WatermarkExact
  BY EmptyType DEF Init, WatermarkExact
<1>2. KernelInv /\ WatermarkExact /\ [Next]_vars => WatermarkExact'
  BY DeliveryStep, BehindIsExact DEF Exactly
<1> QED BY <1>1, <1>2, KernelInvariant, PTL DEF Spec

\* Every subscription is handed what it is due once, in publication order and
\* without loss: nothing is passed over that has not qos_depth newer entries
\* pending, and nothing is left when no receive is to follow.
THEOREM DeliveryWithoutLoss == Spec => DeliveredOnceWithoutLoss
<1> DEFINE P == \A s \in DOMAIN subs \cap DOMAIN subs' :
                  /\ OnceAndInOrder(s)
                  /\ SkipsOnlyOverDepth(s)
                  /\ ReceiveEnds(s) /\ subs[s].qos.depth # 0 => Pending(s)' = {}
<1>1. KernelInv /\ WatermarkExact /\ [Next]_vars => P
  BY DeliveryStep DEF Exactly, HandsOverExactly, LeavesNothing
<1>2. P => [P]_vars
  OBVIOUS
<1> HIDE DEF P
<1>3. DeliveredOnceWithoutLoss <=> [][P]_vars
  BY DEF DeliveredOnceWithoutLoss, P
<1> QED BY <1>1, <1>2, <1>3, KernelInvariant, WatermarkHistory, PTL DEF Spec

-----------------------------------------------------------------------------
(***************************************************************************)
(* Proof that history depth is respected: no step takes an entry from a    *)
(* live publisher unless qos_depth newer entries of it remain.  The heart  *)
(* is a counting argument about the walk of release_msgs_to_meet_depth;    *)
(* the other operations erase entries of dead or leaving publishers only.  *)
(***************************************************************************)

\* At most k members of a set of entry ids have fewer than k smaller members.
LEMMA FewOfLowRank ==
  ASSUME NEW own \in SUBSET EntryIds, NEW k \in Int
  PROVE  LET low == {e \in own : Rank(e, own) < k}
         IN  low # {} => Cardinality(low) <= k
<1> DEFINE low == {e \in own : Rank(e, own) < k}
<1> SUFFICES ASSUME low # {} PROVE Cardinality(low) <= k
  OBVIOUS
<1>1. low \in SUBSET EntryIds
  OBVIOUS
<1>2. MaxOf(low) \in low /\ \A f \in low : f <= MaxOf(low)
  <2> HIDE DEF low
  <2> QED BY <1>1, MaxOfProperty
<1> DEFINE m == MaxOf(low)
           below == {f \in own : f < m}
<1>3. m \in own /\ Rank(m, own) < k
  BY <1>2
<1> HIDE DEF m
<1>4. \A f \in low : f <= m
  BY <1>2 DEF m
<1>5. below \in SUBSET EntryIds /\ m \notin below /\ m \in Int
  BY <1>3, EntryIdsInt
<1>6. low \subseteq below \cup {m}
  BY <1>3, <1>4, EntryIdsInt
<1>7. Cardinality(below) < k
  BY <1>3 DEF Rank
<1> HIDE DEF low, below
<1>8. /\ IsFiniteSet(below) /\ Cardinality(below) \in Nat
      /\ IsFiniteSet(low) /\ Cardinality(low) \in Nat
  BY <1>1, <1>5, EntryIdsFinite
<1>9. IsFiniteSet(below \cup {m}) /\ Cardinality(below \cup {m}) = Cardinality(below) + 1
  BY <1>5, <1>8, FS_AddElement
<1>10. Cardinality(low) <= Cardinality(below \cup {m})
  BY <1>6, <1>9, FS_Subset
<1> QED BY <1>7, <1>8, <1>9, <1>10

\* The members that do not have a low rank are above those that do, and there
\* are enough of them.
LEMMA ManyAbove ==
  ASSUME NEW own \in SUBSET EntryIds, NEW k \in Int, NEW e \in own,
         Rank(e, own) < k
  PROVE  LET high == {f \in own : ~(Rank(f, own) < k)}
         IN  /\ \A f \in high : f > e
             /\ Cardinality(high) >= Cardinality(own) - k
<1> DEFINE low == {f \in own : Rank(f, own) < k}
           high == {f \in own : ~(Rank(f, own) < k)}
<1>1. \A f \in own : {g \in own : g < f} \in SUBSET EntryIds
  OBVIOUS
<1>2. \A f \in own : /\ Rank(f, own) \in Nat /\ Rank(f, own) \in Int
                     /\ IsFiniteSet({g \in own : g < f})
  BY <1>1, EntryIdsFinite DEF Rank
<1>3. ASSUME NEW f \in own, f <= e PROVE Rank(f, own) <= Rank(e, own)
  <2>1. f \in Int /\ e \in Int
    BY EntryIdsInt
  <2>2. ASSUME NEW g \in own, g < f PROVE g < e
    <3>1. g \in Int
      BY EntryIdsInt
    <3> QED BY <1>3, <2>1, <2>2, <3>1
  <2>3. {g \in own : g < f} \subseteq {g \in own : g < e}
    BY <2>2
  <2> QED BY <1>2, <2>3, FS_Subset DEF Rank
<1>4. ASSUME NEW f \in high PROVE f > e
  <2>1. f \in own /\ ~(Rank(f, own) < k) /\ f \in Int /\ e \in Int
    BY <1>4, EntryIdsInt
  <2>2. Rank(f, own) \in Int /\ Rank(e, own) \in Int
    <3> HIDE DEF high
    <3> QED BY <1>2, <2>1, Zenon
  <2>3. ~(f <= e)
    BY <1>3, <2>1, <2>2
  <2> QED BY <2>1, <2>3
<1>5. low # {} /\ Cardinality(low) <= k
  BY FewOfLowRank
<1>6. high = own \ low /\ own \cap low = low
  OBVIOUS
<1> HIDE DEF low, high
<1>7. IsFiniteSet(own) /\ Cardinality(own) \in Nat
  BY EntryIdsFinite
<1>8. Cardinality(own \ low) = Cardinality(own) - Cardinality(own \cap low)
  BY <1>7, FS_Difference
<1>9. Cardinality(low) \in Nat
  <2>1. low \in SUBSET EntryIds
    BY <1>6
  <2> QED BY <2>1, EntryIdsFinite
<1>10. Cardinality(high) >= Cardinality(own) - k
  BY <1>5, <1>6, <1>7, <1>8, <1>9
<1> QED BY <1>4, <1>10 DEF high

\* The step takes no entry from a live publisher that is owed it.
HistoryKept ==
  \A e \in DOMAIN entries \ DOMAIN entries' :
    LET i == entries[e].pub
    IN  (\E p \in Pids : <<p, i>> \in pubObj /\ <<p, i>> \in pubObj')
        => Cardinality({f \in OwnedBy(entries', i) : f > e}) >= pubs[i].qos.depth

\* publish_msg releases entries in excess of the depth only.
LEMMA PublishHistory ==
  ASSUME KernelInv, NEW p \in Pids, NEW i \in Ids, Publish(p, i)
  PROVE  HistoryKept
<1> DEFINE ent == [e \in DOMAIN entries \cup {nextEntry} |->
                     IF e = nextEntry THEN [pub |-> i, refs |-> {}]
                     ELSE entries[e]]
           own == OwnedBy(ent, i)
           seen == Searched(ent, own, pubs[i].num + 1, pubs[i].qos.depth)
           released == {e \in seen \ {nextEntry} : ~agnocast_is_referenced(ent, e)}
           k == (pubs[i].num + 1) - pubs[i].qos.depth
<1>1. CASE UNCHANGED entries
  BY <1>1 DEF HistoryKept
<1>2. CASE ~UNCHANGED entries
  <2>1. /\ i \in DOMAIN pubs /\ nextEntry < MaxEntryId
        /\ entries' = agnocast_remove_entry_node(ent, released)
    BY <1>2 DEF Publish, publish_error, kernelVars
  <2>2. /\ IsEntryTree(entries) /\ nextEntry \in Nat
        /\ \A e \in DOMAIN entries : e < nextEntry
        /\ pubs[i].num = Cardinality(OwnedBy(entries, i))
        /\ pubs[i].num \in Int /\ pubs[i].qos.depth \in Nat
    BY <2>1, ConstantsAssumption DEF KernelInv, TypeOK, EndpointsReachable,
       EntriesAccounted, Accounted, IsPubTable, PubInfo, PubQosType
  <2>3. nextEntry \in EntryIds /\ nextEntry \notin DOMAIN entries
    BY <2>1, <2>2, ConstantsAssumption DEF EntryIds
  <2>4. /\ IsEntryTree(ent) /\ DOMAIN ent = DOMAIN entries \cup {nextEntry}
        /\ ent[nextEntry].pub = i
        /\ \A e \in DOMAIN entries : ent[e] = entries[e]
    BY <2>2, <2>3 DEF IsEntryTree, Entry
  <2> HIDE DEF ent
  <2>5. own = OwnedBy(entries, i) \cup {nextEntry}
    BY <2>3, <2>4 DEF OwnedBy
  <2>6. own \in SUBSET EntryIds
    BY <2>4 DEF OwnedBy, IsEntryTree
  <2>7. Cardinality(own) = pubs[i].num + 1
    <3>1. IsFiniteSet(OwnedBy(entries, i))
      BY <2>2, OwnedByFinite, EntryIdsFinite
    <3>2. nextEntry \notin OwnedBy(entries, i)
      BY <2>3 DEF OwnedBy
    <3> QED BY <2>2, <2>5, <3>1, <3>2, FS_AddElement
  <2>8. \A e \in released : e \in own /\ Rank(e, own) < k
    BY DEF Searched
  <2> HIDE DEF released, seen
  <2>9. /\ DOMAIN entries' = DOMAIN ent \ released
        /\ \A e \in DOMAIN ent \ released : entries'[e] = ent[e]
    <3>1. /\ DOMAIN agnocast_remove_entry_node(ent, released) = DOMAIN ent \ released
          /\ \A e \in DOMAIN ent \ released :
               agnocast_remove_entry_node(ent, released)[e] = ent[e]
      BY <2>4, RemoveType
    <3> QED BY <2>1, <3>1
  <2> SUFFICES ASSUME NEW e \in DOMAIN entries \ DOMAIN entries'
               PROVE  /\ entries[e].pub = i
                      /\ Cardinality({f \in OwnedBy(entries', i) : f > e})
                           >= pubs[i].qos.depth
    BY DEF HistoryKept
  <2>10. e \in released /\ e \in own /\ Rank(e, own) < k
    BY <2>4, <2>8, <2>9
  <2>11. entries[e].pub = i
    BY <2>4, <2>10 DEF OwnedBy
  <2> DEFINE high == {f \in own : ~(Rank(f, own) < k)}
             newer == {f \in OwnedBy(entries', i) : f > e}
  <2>12. k \in Int /\ Cardinality(own) - k = pubs[i].qos.depth
    BY <2>2, <2>7
  <2> HIDE DEF own, k
  <2>13. (\A f \in high : f > e) /\ Cardinality(high) >= Cardinality(own) - k
    BY <2>6, <2>10, <2>12, ManyAbove
  <2>14. high \subseteq newer
    <3>1. \A f \in high : f \in own /\ f \notin released /\ f > e
      BY <2>8, <2>13
    <3>2. \A f \in own : f \in DOMAIN ent /\ ent[f].pub = i
      BY DEF own, OwnedBy
    <3>3. \A f \in high : f \in OwnedBy(entries', i) /\ f > e
      BY <2>9, <3>1, <3>2 DEF OwnedBy
    <3> QED BY <3>3
  <2>15. newer \in SUBSET EntryIds
    BY <2>4, <2>9 DEF OwnedBy, IsEntryTree
  <2>16. high \in SUBSET EntryIds
    BY <2>6
  <2> HIDE DEF high, newer
  <2>17. IsFiniteSet(newer) /\ Cardinality(newer) \in Nat /\ Cardinality(high) \in Nat
    BY <2>15, <2>16, EntryIdsFinite
  <2>18. Cardinality(high) <= Cardinality(newer)
    BY <2>14, <2>17, FS_Subset
  <2>19. Cardinality(newer) >= pubs[i].qos.depth
    BY <2>2, <2>12, <2>13, <2>17, <2>18
  <2> QED BY <2>11, <2>19 DEF newer
<1> QED BY <1>1, <1>2

\* A leaving subscriber erases entries of dead publishers, or the whole struct.
LEMMA LeaveTopicErases ==
  ASSUME NEW pr, NEW D, NEW pb, NEW sb, NEW ent, NEW S, IsEntryTree(ent),
         LeaveTopic(pr, D, pb, sb, ent, S), NEW e \in DOMAIN ent,
         e \notin DOMAIN entries'
  PROVE  pubs' = Empty \/ pr[pb[ent[e].pub].pid] # "alive"
<1> DEFINE cleared == clear_references(ent, S)
           dead == Abandoned(pr, pb, cleared)
           rest == agnocast_remove_entry_node(cleared, dead)
<1>1. /\ IsEntryTree(cleared)
      /\ DOMAIN cleared = DOMAIN ent
      /\ \A f \in DOMAIN ent : /\ cleared[f].pub = ent[f].pub
                               /\ cleared[f].refs = ent[f].refs \ S
  BY ClearType
<1>2. pubs' = Empty \/ entries' = rest
  BY DEF LeaveTopic, agnocast_release_topic_wrapper
<1>3. \A f \in dead : pr[pb[cleared[f].pub].pid] # "alive"
  BY DEF Abandoned
<1> HIDE DEF cleared, dead
<1>4. /\ DOMAIN rest = DOMAIN cleared \ dead
      /\ \A f \in DOMAIN cleared \ dead : rest[f] = cleared[f]
  BY <1>1, RemoveType
<1> HIDE DEF rest
<1>5. CASE entries' = rest
  <2>1. e \in dead
    BY <1>1, <1>4, <1>5
  <2> QED BY <1>1, <1>3, <2>1
<1> QED BY <1>2, <1>5

\* Structural operations take no entry from a publisher object that survives.
LEMMA StructuralHistory ==
  ASSUME KernelInv, KernelInv', NEW p \in Pids, NEW i,
         agnocast_process_exit_cleanup(p) \/ RemovePublisher(p, i)
           \/ RemoveSubscriber(p, i)
  PROVE  HistoryKept
<1> SUFFICES ASSUME NEW e \in DOMAIN entries \ DOMAIN entries', NEW q \in Pids,
                    <<q, entries[e].pub>> \in pubObj, <<q, entries[e].pub>> \in pubObj'
             PROVE  FALSE
  BY DEF HistoryKept
<1> DEFINE j == entries[e].pub
<1>1. /\ IsPubTable(pubs) /\ IsSubTable(subs) /\ IsEntryTree(entries)
      /\ proc \in [Pids -> {"none", "alive", "exited", "gone"}]
  BY DEF KernelInv, TypeOK
<1>2. j \in DOMAIN pubs /\ pubs[j].pid = q /\ proc[q] = "alive" /\ q \in running
  <2> DEFINE o == <<q, j>>
  <2>1. o \in pubObj /\ o[1] = q /\ o[2] = j
    OBVIOUS
  <2> HIDE DEF o, j
  <2> QED BY <2>1 DEF KernelInv, EndpointsReachable, OwnersRun
<1>3. pubs' # Empty
  <2> DEFINE o == <<q, j>>
  <2>1. o \in pubObj' /\ o[2] = j
    OBVIOUS
  <2> HIDE DEF o, j
  <2>2. j \in DOMAIN pubs'
    BY <2>1 DEF KernelInv, EndpointsReachable
  <2> QED BY <2>2, EmptyType
<1>4. CASE agnocast_process_exit_cleanup(p)
  <2> DEFINE mine    == {k \in DOMAIN pubs : pubs[k].pid = p}
             unread  == {f \in DOMAIN entries :
                           /\ entries[f].pub \in mine
                           /\ ~agnocast_is_referenced(entries, f)}
             pb      == Discharge(pubs, entries, unread, mine)
             ent     == agnocast_remove_entry_node(entries, unread)
             leaving == {s \in DOMAIN subs : subs[s].pid = p}
             sb      == [s \in DOMAIN subs \ leaving |-> subs[s]]
             rb      == rebuild_all_notify_lists(pb, sb)
  <2>1. /\ IF leaving = {}
           THEN agnocast_release_topic_wrapper(Domains, pb, sb, ent)
           ELSE LeaveTopic(proc', Domains, rb, sb, ent, leaving)
        /\ proc' = [proc EXCEPT ![p] = "exited"]
        /\ p \notin running
    BY <1>4 DEF agnocast_process_exit_cleanup, LastThreadExited
  <2>2. q # p /\ e \notin unread /\ proc'[q] = "alive"
    BY <1>1, <1>2, <2>1
  <2>3. IsSubTable(sb)
    BY <1>1 DEF IsSubTable
  <2> HIDE DEF mine, unread, leaving, sb
  <2>4. /\ IsEntryTree(ent) /\ e \in DOMAIN ent /\ ent[e] = entries[e]
    <3>1. /\ IsEntryTree(agnocast_remove_entry_node(entries, unread))
          /\ DOMAIN agnocast_remove_entry_node(entries, unread) = DOMAIN entries \ unread
          /\ \A f \in DOMAIN entries \ unread :
               agnocast_remove_entry_node(entries, unread)[f] = entries[f]
      BY <1>1, RemoveType
    <3> QED BY <2>2, <3>1
  <2>5. CASE leaving = {}
    <3>1. pubs' = Empty \/ entries' = ent
      BY <2>1, <2>5 DEF agnocast_release_topic_wrapper
    <3> QED BY <1>3, <2>4, <3>1
  <2>6. CASE leaving # {}
    <3>1. /\ IsPubTable(pb)
          /\ \A k \in DOMAIN pubs :
               k \in DOMAIN pb <=> (k \in mine => Left(pubs, entries, unread, k) # 0)
          /\ \A k \in DOMAIN pb : pb[k].pid = pubs[k].pid
      BY <1>1, DischargeType
    <3>2. j \in DOMAIN pb /\ pb[j].pid = q
      <4>1. j \notin mine
        BY <1>2, <2>2 DEF mine
      <4> HIDE DEF pb, j
      <4> QED BY <1>2, <3>1, <4>1
    <3> HIDE DEF pb
    <3>3. DOMAIN rb = DOMAIN pb /\ \A k \in DOMAIN pb : rb[k].pid = pb[k].pid
      BY <2>3, <3>1, RebuildType
    <3>4. LeaveTopic(proc', Domains, rb, sb, ent, leaving)
      BY <2>1, <2>6
    <3> HIDE DEF rb, ent
    <3>5. pubs' = Empty \/ proc'[rb[ent[e].pub].pid] # "alive"
      BY <2>4, <3>4, LeaveTopicErases
    <3> QED BY <1>3, <2>2, <2>4, <3>2, <3>3, <3>5
  <2> QED BY <2>5, <2>6
<1>5. CASE RemovePublisher(p, i)
  <2> DEFINE unread == {f \in OwnedBy(entries, i) :
                          ~agnocast_is_referenced(entries, f)}
             ent == agnocast_remove_entry_node(entries, unread)
  <2>1. /\ <<p, i>> \in pubObj /\ pubObj' = pubObj \ {<<p, i>>}
        /\ UNCHANGED topicVars
           \/ \E D, pb : agnocast_release_topic_wrapper(D, pb, subs, ent)
    BY <1>5 DEF RemovePublisher
  <2>2. j # i
    <3>1. pubs[i].pid = p
      <4> DEFINE o == <<p, i>>
      <4>1. o \in pubObj /\ o[1] = p /\ o[2] = i
        BY <2>1
      <4> HIDE DEF o
      <4> QED BY <4>1 DEF KernelInv, EndpointsReachable
    <3> QED BY <1>2, <2>1, <3>1
  <2>3. e \notin unread
    BY <2>2 DEF OwnedBy
  <2> HIDE DEF unread
  <2>4. /\ DOMAIN ent = DOMAIN entries \ unread
    BY <1>1, RemoveType
  <2>5. pubs' = Empty \/ UNCHANGED entries \/ entries' = ent
    BY <2>1 DEF agnocast_release_topic_wrapper, topicVars
  <2> HIDE DEF ent
  <2> QED BY <1>3, <2>3, <2>4, <2>5
<1>6. CASE RemoveSubscriber(p, i)
  <2> DEFINE sb == [t \in DOMAIN subs \ {i} |-> subs[t]]
             pb == IF subs[i].qos.take THEN pubs
                   ELSE rebuild_all_notify_lists(pubs, sb)
  <2>1. UNCHANGED topicVars \/ LeaveTopic(proc, {DomainOf[p]}, pb, sb, entries, {i})
    BY <1>6 DEF RemoveSubscriber
  <2>2. IsSubTable(sb)
    BY <1>1 DEF IsSubTable
  <2> HIDE DEF sb
  <2>3. \A k \in DOMAIN pubs : pb[k].pid = pubs[k].pid
    <3>1. \A k \in DOMAIN pubs :
            rebuild_all_notify_lists(pubs, sb)[k].pid = pubs[k].pid
      BY <1>1, <2>2, RebuildType
    <3> QED BY <3>1
  <2> HIDE DEF pb
  <2>4. CASE LeaveTopic(proc, {DomainOf[p]}, pb, sb, entries, {i})
    <3>1. pubs' = Empty \/ proc[pb[entries[e].pub].pid] # "alive"
      BY <1>1, <2>4, LeaveTopicErases
    <3> QED BY <1>2, <1>3, <2>3, <3>1
  <2>5. CASE UNCHANGED topicVars
    BY <2>5 DEF topicVars
  <2> QED BY <2>1, <2>4, <2>5
<1> QED BY <1>4, <1>5, <1>6

\* Every step keeps the history.
LEMMA HistoryStep ==
  ASSUME KernelInv, KernelInv', [Next]_vars
  PROVE  HistoryKept
<1>1. ASSUME DOMAIN entries' = DOMAIN entries PROVE HistoryKept
  BY <1>1 DEF HistoryKept
<1>2. ASSUME NEW p \in Pids,
             \/ AddProcess(p) \/ ProcessDies(p) \/ agnocast_commit_exit_process(p)
             \/ AddEndpointFails(p)
      PROVE  UNCHANGED entries
  BY <1>2 DEF AddProcess, ProcessDies, agnocast_commit_exit_process,
     AddEndpointFails, kernelVars, topicVars
<1>3. ASSUME NEW p \in Pids, NEW i, agnocast_process_exit_cleanup(p)
               \/ RemovePublisher(p, i) \/ RemoveSubscriber(p, i)
      PROVE  HistoryKept
  BY <1>3, StructuralHistory
<1>4. ASSUME NEW p \in Pids, NEW q \in PubQos, AddPublisher(p, q)
      PROVE  UNCHANGED entries
  BY <1>4 DEF AddPublisher
<1>5. ASSUME NEW p \in Pids, NEW q \in SubQos, AddSubscriber(p, q)
      PROVE  UNCHANGED entries
  BY <1>5 DEF AddSubscriber
<1>6. ASSUME NEW p \in Pids, NEW i \in Ids, Publish(p, i) PROVE HistoryKept
  BY <1>6, PublishHistory
<1>7. ASSUME NEW p \in Pids, NEW s \in Ids, NEW same \in BOOLEAN,
             Receive(p, s) \/ Take(p, s, same)
      PROVE  DOMAIN entries' = DOMAIN entries
  <2>1. UNCHANGED entries \/ \E E : entries' = add_subscriber_reference(entries, s, E)
    BY <1>7 DEF Receive, Take
  <2> QED BY <2>1 DEF add_subscriber_reference
<1>8. ASSUME NEW p \in Pids, NEW s \in Ids, NEW e \in EntryIds, Release(p, s, e)
      PROVE  DOMAIN entries' = DOMAIN entries
  BY <1>8 DEF Release
<1>9. ASSUME NEW p \in Pids, NEW s \in Ids, PrepareEpoll(p, s) \/ HandleEvent(p, s)
      PROVE  UNCHANGED entries
  BY <1>9 DEF PrepareEpoll, HandleEvent, kernelVars, topicVars
<1>10. ASSUME NEW i \in Ids, PublishSignal(i) PROVE UNCHANGED entries
  BY <1>10 DEF PublishSignal, topicVars
<1>11. UNCHANGED vars => UNCHANGED entries
  BY DEF vars
<1> QED BY <1>1, <1>2, <1>3, <1>4, <1>5, <1>6, <1>7, <1>8, <1>9, <1>10, <1>11
        DEF Next

\* History depth is respected: whatever is published, received, removed or dies,
\* an entry leaves a live publisher only when qos_depth newer ones stay.
THEOREM History == Spec => KeepsHistory
<1>1. KernelInv /\ KernelInv' /\ [Next]_vars => HistoryKept
  BY HistoryStep
<1>2. HistoryKept => [HistoryKept]_vars
  OBVIOUS
<1> QED BY <1>1, <1>2, KernelInvariant, PTL DEF Spec, KeepsHistory, HistoryKept

-----------------------------------------------------------------------------
(* Memory safety, notification and wake-ups.                               *)

\* What the library expects of a program: handles are destroyed before their
\* subscription, and a subscription is destroyed when no receive is queued.
Discipline == ~HandlesOutlive /\ ~DestroyWhileQueued

\* KernelInv with the relation between handles, objects and references.
SafeInv == KernelInv /\ HeldIsReferenced /\ UsesBacked

\* HeldIsReferenced speaks of the handles in existence.
LEMMA HeldIsHold == HeldIsReferenced <=> Hold(held, entries)
BY DEF HeldIsReferenced, Hold

\* A handle belongs to the running process that owns its subscription.
LEMMA HolderOwns ==
  ASSUME SafeInv, NEW h \in held
  PROVE  /\ h = <<h[1], h[2], h[3]>>
         /\ <<h[1], h[2]>> \in subObj
         /\ h[2] \in DOMAIN subs
         /\ subs[h[2]].pid = h[1]
         /\ h[1] \in running
<1>1. h = <<h[1], h[2], h[3]>>
  BY DEF SafeInv, KernelInv, TypeOK
<1>2. <<h[1], h[2]>> \in subObj
  BY DEF SafeInv, UsesBacked
<1>3. h[2] \in DOMAIN subs /\ subs[h[2]].pid = h[1] /\ h[1] \in running
  <2> DEFINE o == <<h[1], h[2]>>
  <2>1. o[1] = h[1] /\ o[2] = h[2] /\ o \in subObj
    BY <1>2
  <2> HIDE DEF o
  <2>2. o[2] \in DOMAIN subs /\ subs[o[2]].pid = o[1] /\ o[1] \in running
    BY <2>1 DEF SafeInv, KernelInv, EndpointsReachable, OwnersRun
  <2> QED BY <2>1, <2>2
<1> QED BY <1>1, <1>2, <1>3

\* The end of a process takes its uses away together with its objects.
LEMMA EndsUses ==
  ASSUME SafeInv, NEW p \in Pids, Ends(p)
  PROVE  UsesBacked'
<1>1. \A h \in held' : <<h[1], h[2]>> \in subObj'
  <2> SUFFICES ASSUME NEW h \in held' PROVE <<h[1], h[2]>> \in subObj'
    OBVIOUS
  <2>1. h \in held /\ h[1] # p
    BY DEF Ends
  <2>2. <<h[1], h[2]>> \in subObj
    BY <2>1 DEF SafeInv, UsesBacked
  <2> QED BY <2>1, <2>2 DEF Ends
<1>2. \A o \in DOMAIN ready' : ready'[o] > 0 => o \in subObj'
  <2> SUFFICES ASSUME NEW o \in Pids \X Ids, ready'[o] > 0 PROVE o \in subObj'
    BY DEF Ends
  <2>1. o[1] # p /\ ready'[o] = ready[o]
    BY DEF Ends
  <2>2. o \in subObj
    BY <2>1 DEF SafeInv, UsesBacked, KernelInv, TypeOK
  <2> QED BY <2>1, <2>2 DEF Ends
<1>3. unprepared' \subseteq subObj'
  BY DEF Ends, SafeInv, UsesBacked
<1> QED BY <1>1, <1>2, <1>3 DEF UsesBacked

\* Every step of a disciplined program keeps SafeInv, one case per operation.
LEMMA SafeInvStep ==
  ASSUME Discipline, SafeInv, [Next]_vars
  PROVE  HeldIsReferenced' /\ UsesBacked'
<1> DEFINE Kept == HeldIsReferenced' /\ UsesBacked'
<1>1. KernelInv /\ TypeOK /\ Hold(held, entries) /\ UsesBacked
  BY HeldIsHold DEF SafeInv, KernelInv
<1>2. ASSUME UNCHANGED <<entries, held, ready, unprepared>>, subObj \subseteq subObj'
      PROVE  Kept
  BY <1>1, <1>2 DEF UsesBacked, HeldIsReferenced, Hold
<1>3. ASSUME NEW p \in Pids, Ends(p), UNCHANGED entries PROVE Kept
  <2>1. held' \subseteq held
    BY <1>3 DEF Ends
  <2> QED BY <1>1, <1>3, <2>1, EndsUses DEF HeldIsReferenced, Hold
<1>4. ASSUME Hold(held, entries'), UNCHANGED userVars PROVE Kept
  BY <1>1, <1>4 DEF UsesBacked, HeldIsReferenced, Hold, userVars
<1>5. ASSUME NEW p \in Pids, AddProcess(p) PROVE Kept
  BY <1>2, <1>5 DEF AddProcess, topicVars
<1>6. ASSUME NEW p \in Pids, ProcessDies(p) PROVE Kept
  BY <1>3, <1>6 DEF ProcessDies, kernelVars
<1>7. ASSUME NEW p \in Pids, agnocast_process_exit_cleanup(p) PROVE Kept
  <2>1. p \notin running /\ UNCHANGED userVars
    BY <1>7 DEF agnocast_process_exit_cleanup, LastThreadExited
  <2>2. \A h \in held : subs[h[2]].pid # p
    BY <2>1, HolderOwns
  <2>3. Hold(held, entries')
    BY <1>1, <1>7, <2>1, <2>2, CleanupKeeps
  <2> QED BY <1>4, <2>1, <2>3
<1>8. ASSUME NEW p \in Pids, agnocast_commit_exit_process(p) PROVE Kept
  BY <1>2, <1>8 DEF agnocast_commit_exit_process, topicVars, userVars
<1>9. ASSUME NEW p \in Pids, AddEndpointFails(p) PROVE Kept
  BY <1>3, <1>9 DEF AddEndpointFails
<1>10. ASSUME NEW p \in Pids, NEW q \in PubQos, AddPublisher(p, q) PROVE Kept
  BY <1>2, <1>10 DEF AddPublisher
<1>11. ASSUME NEW p \in Pids, NEW q \in SubQos, AddSubscriber(p, q) PROVE Kept
  <2>1. /\ UNCHANGED <<entries, held, ready>>
        /\ subObj' = subObj \cup {<<p, nextId>>}
        /\ unprepared' \subseteq unprepared \cup {<<p, nextId>>}
    BY <1>11 DEF AddSubscriber
  <2> QED BY <1>1, <2>1 DEF UsesBacked, HeldIsReferenced, Hold
<1>12. ASSUME NEW p \in Pids, NEW i \in Ids, RemovePublisher(p, i) PROVE Kept
  <2>1. Hold(held, entries')
    BY <1>1, <1>12, RemovePublisherKeeps DEF TopicInv, Hold
  <2> QED BY <1>1, <1>12, <2>1 DEF RemovePublisher, HeldIsReferenced, Hold, UsesBacked
<1>13. ASSUME NEW p \in Pids, NEW s \in Ids, RemoveSubscriber(p, s) PROVE Kept
  <2>1. /\ <<p, s>> \in subObj
        /\ \A h \in held : <<h[1], h[2]>> # <<p, s>>
        /\ ready[<<p, s>>] = 0
        /\ subObj' = subObj \ {<<p, s>>}
        /\ unprepared' = unprepared \ {<<p, s>>}
        /\ UNCHANGED <<ready, held>>
    BY <1>13 DEF RemoveSubscriber, Discipline
  <2>2. subs[s].pid = p
    <3> DEFINE o == <<p, s>>
    <3>1. o[1] = p /\ o[2] = s /\ o \in subObj
      BY <2>1
    <3> HIDE DEF o
    <3> QED BY <1>1, <3>1 DEF KernelInv, EndpointsReachable
  <2>3. \A h \in held : h[2] # s
    BY <2>1, <2>2, HolderOwns
  <2>4. Hold(held, entries')
    BY <1>1, <1>13, <2>3, RemoveSubscriberKeeps DEF TopicInv, Hold
  <2>5. UsesBacked'
    BY <1>1, <2>1 DEF UsesBacked
  <2> QED BY <2>1, <2>4, <2>5 DEF HeldIsReferenced, Hold
<1>14. ASSUME NEW p \in Pids, NEW i \in Ids, Publish(p, i) PROVE Kept
  <2>1. Hold(held, entries') /\ (Aborts(p) \/ UNCHANGED userVars)
    <3>1. Hold(held, entries')
      BY <1>1, <1>14, PublishKeeps
    <3>2. Aborts(p) \/ UNCHANGED userVars
      BY <1>1, <1>14, PublishKeeps
    <3> QED BY <3>1, <3>2
  <2>2. CASE Aborts(p)
    <3>1. held' \subseteq held /\ Ends(p)
      BY <2>2 DEF Aborts, Ends
    <3> QED BY <2>1, <3>1, EndsUses DEF HeldIsReferenced, Hold
  <2>3. CASE UNCHANGED userVars
    BY <1>4, <2>1, <2>3
  <2> QED BY <2>1, <2>2, <2>3
<1>15. ASSUME NEW i \in Ids, PublishSignal(i) PROVE Kept
  BY <1>2, <1>15 DEF PublishSignal, topicVars, userVars
<1>16. ASSUME NEW p \in Pids, NEW s \in Ids, HandsOut(p, s), s \in DOMAIN subs,
              <<p, s>> \in subObj,
              UNCHANGED <<wrappers, pubs, nextId, nextEntry, pubObj, subObj,
                          unprepared>>,
              \A o \in DOMAIN ready' : ready'[o] > 0 => o \in subObj
       PROVE  Kept
  <2>1. Hold(held', entries')
    <3>1. PICK E \in SUBSET DOMAIN entries, v \in Int :
            /\ subs[s].latest <= v
            /\ \A e \in E : e <= v
            /\ entries' = add_subscriber_reference(entries, s, E)
            /\ subs' = [subs EXCEPT ![s].latest = v]
            /\ held' = held \cup {<<p, s, e>> : e \in E}
      BY <1>16 DEF HandsOut
    <3>2. /\ Hold(held, entries')
          /\ \A e \in E : e \in DOMAIN entries' /\ s \in entries'[e].refs
      BY <1>1, <1>16, <3>1, HandOutKeeps
    <3> SUFFICES ASSUME NEW h \in held'
                 PROVE  h[3] \in DOMAIN entries' /\ h[2] \in entries'[h[3]].refs
      BY DEF Hold
    <3>3. CASE h \in held
      BY <3>2, <3>3 DEF Hold
    <3>4. CASE h \notin held
      <4>1. PICK e \in E : h = <<p, s, e>>
        BY <3>1, <3>4
      <4>2. h[2] = s /\ h[3] = e
        BY <4>1
      <4> QED BY <3>2, <4>2
    <3> QED BY <3>3, <3>4
  <2>2. \A h \in held' : <<h[1], h[2]>> \in subObj'
    <3>1. PICK E : held' = held \cup {<<p, s, e>> : e \in E}
      BY <1>16 DEF HandsOut
    <3>2. \A h \in {<<p, s, e>> : e \in E} : h[1] = p /\ h[2] = s
      OBVIOUS
    <3> QED BY <1>1, <1>16, <3>1, <3>2 DEF UsesBacked
  <2> QED BY <1>1, <1>16, <2>1, <2>2 DEF HeldIsReferenced, Hold, UsesBacked
<1>17. ASSUME NEW p \in Pids, NEW s \in Ids, Receive(p, s) PROVE Kept
  <2>1. <<p, s>> \in subObj
    BY <1>1, <1>17 DEF Receive, UsesBacked, TypeOK
  <2>2. CASE NotFound(p, s)
    <3>1. Ends(p) /\ UNCHANGED entries
      BY <1>17, <2>2 DEF Receive, Aborts
    <3> QED BY <1>3, <3>1
  <2>3. CASE ~NotFound(p, s)
    <3>1. /\ s \in DOMAIN subs
          /\ HandsOut(p, s)
          /\ \E n : ready' = [ready EXCEPT ![<<p, s>>] = n]
          /\ UNCHANGED <<running, pubObj, subObj, unprepared, fatal>>
          /\ UNCHANGED <<proc, wrappers, pubs, nextId, nextEntry, signalling,
                         eventfd>>
      BY <1>1, <1>17, <2>3, ReceiveCases
    <3>2. \A o \in DOMAIN ready' : ready'[o] > 0 => o \in subObj
      BY <1>1, <2>1, <3>1 DEF UsesBacked, TypeOK
    <3> QED BY <1>16, <2>1, <3>1, <3>2
  <2> QED BY <2>2, <2>3
<1>18. ASSUME NEW p \in Pids, NEW s \in Ids, NEW same \in BOOLEAN, Take(p, s, same)
       PROVE  Kept
  <2>1. <<p, s>> \in subObj
    BY <1>18 DEF Take
  <2>2. /\ s \in DOMAIN subs
        /\ HandsOut(p, s)
        /\ UNCHANGED <<running, pubObj, subObj, unprepared, ready, fatal>>
        /\ UNCHANGED <<proc, wrappers, pubs, nextId, nextEntry, signalling,
                       eventfd>>
    BY <1>1, <1>18, TakeCases
  <2>3. \A o \in DOMAIN ready' : ready'[o] > 0 => o \in subObj
    BY <1>1, <2>2 DEF UsesBacked
  <2> QED BY <1>16, <2>1, <2>2, <2>3
<1>19. ASSUME NEW p \in Pids, NEW s \in Ids, NEW e \in EntryIds, Release(p, s, e)
       PROVE  Kept
  <2>1. CASE Ends(p) /\ UNCHANGED entries
    BY <1>3, <2>1
  <2>2. CASE ~(Ends(p) /\ UNCHANGED entries)
    <3>1. /\ <<p, s, e>> \in held
          /\ e \in DOMAIN entries
          /\ entries' = [entries EXCEPT ![e].refs = @ \ {s}]
          /\ held' = held \ {<<p, s, e>>}
          /\ UNCHANGED <<running, pubObj, subObj, unprepared, ready, fatal>>
      BY <1>19, <2>2 DEF Release, Aborts
    <3>2. /\ DOMAIN entries' = DOMAIN entries
          /\ \A f \in DOMAIN entries :
               entries'[f].refs = IF f = e THEN entries[f].refs \ {s}
                                  ELSE entries[f].refs
      BY <1>1, <3>1 DEF TypeOK, IsEntryTree, Entry
    <3>3. subs[s].pid = p
      <4> DEFINE h == <<p, s, e>>
      <4>1. h \in held /\ h[1] = p /\ h[2] = s
        BY <3>1
      <4> HIDE DEF h
      <4> QED BY <4>1, HolderOwns
    <3>4. ASSUME NEW h \in held'
          PROVE  h[3] \in DOMAIN entries' /\ h[2] \in entries'[h[3]].refs
      <4>1. h \in held /\ h # <<p, s, e>>
        BY <3>1
      <4>2. h = <<h[1], h[2], h[3]>> /\ subs[h[2]].pid = h[1]
        BY <4>1, HolderOwns
      <4>3. ~(h[2] = s /\ h[3] = e)
        BY <3>3, <4>1, <4>2
      <4>4. h[3] \in DOMAIN entries /\ h[2] \in entries[h[3]].refs
        BY <1>1, <4>1 DEF Hold
      <4> QED BY <3>2, <4>3, <4>4
    <3>5. UsesBacked'
      BY <1>1, <3>1 DEF UsesBacked
    <3> QED BY <3>4, <3>5 DEF HeldIsReferenced
  <2> QED BY <2>1, <2>2
<1>20. ASSUME NEW p \in Pids, NEW s \in Ids, PrepareEpoll(p, s) PROVE Kept
  <2>1. /\ <<p, s>> \in unprepared
        /\ unprepared' = unprepared \ {<<p, s>>}
        /\ ready' = ready \/ ready' = [ready EXCEPT ![<<p, s>>] = @ + 1]
        /\ UNCHANGED <<entries, held, subObj>>
    BY <1>20 DEF PrepareEpoll, kernelVars
  <2>2. \A o \in DOMAIN ready' : ready'[o] > 0 => o \in subObj
    BY <1>1, <2>1 DEF UsesBacked, TypeOK
  <2> QED BY <1>1, <2>1, <2>2 DEF UsesBacked, HeldIsReferenced, Hold
<1>21. ASSUME NEW p \in Pids, NEW s \in Ids, HandleEvent(p, s) PROVE Kept
  <2>1. /\ <<p, s>> \in subObj
        /\ ready' = [ready EXCEPT ![<<p, s>>] = @ + 1]
        /\ UNCHANGED <<entries, held, subObj, unprepared>>
    BY <1>21 DEF HandleEvent, topicVars
  <2>2. \A o \in DOMAIN ready' : ready'[o] > 0 => o \in subObj
    BY <1>1, <2>1 DEF UsesBacked, TypeOK
  <2> QED BY <1>1, <2>1, <2>2 DEF UsesBacked, HeldIsReferenced, Hold
<1>22. CASE UNCHANGED vars
  BY <1>2, <1>22 DEF vars
<1> HIDE DEF Kept
<1> QED BY <1>5, <1>6, <1>7, <1>8, <1>9, <1>10, <1>11, <1>12, <1>13, <1>14,
        <1>15, <1>17, <1>18, <1>19, <1>20, <1>21, <1>22 DEF Next, Kept

\* SafeInv holds throughout every disciplined execution.
LEMMA SafeInvariant ==
  ASSUME Discipline
  PROVE  Spec => []SafeInv
<1>1. Init => SafeInv
  BY KernelInvInit, ConstantsAssumption DEF Init, SafeInv, HeldIsReferenced,
     UsesBacked
<1>2. SafeInv /\ [Next]_vars => SafeInv'
  BY KernelInvStep, SafeInvStep DEF SafeInv
<1> QED BY <1>1, <1>2, PTL DEF Spec

\* Zero-copy memory safety: for any number of processes, publishers and
\* subscribers, however they interleave and die, an entry somebody has a handle
\* to stays in the tree with its reference, so no publish returns it for release.
THEOREM MemorySafety ==
  ASSUME Discipline
  PROVE  Spec => []HeldIsReferenced
<1>1. SafeInv => HeldIsReferenced
  BY DEF SafeInv
<1> QED BY <1>1, SafeInvariant, PTL

-----------------------------------------------------------------------------

\* No publisher is configured with depth 0.
KeepsOneMessage == \A q \in PubQos : q.depth > 0

\* A publish of a publisher that keeps a message returns no error.
LEMMA PublishSucceeds ==
  ASSUME KernelInv, KeepsOneMessage, NEW p \in Pids, NEW i \in Ids, Publish(p, i)
  PROVE  UNCHANGED userVars
<1>1. Hold({}, entries)
  BY DEF Hold
<1>2. i \in DOMAIN pubs /\ (pubs[i].qos.depth > 0 => UNCHANGED userVars)
  BY <1>1, PublishKeeps
<1>3. pubs[i].qos \in PubQos
  BY <1>2 DEF KernelInv, TypeOK, IsPubTable, PubInfo
<1> QED BY <1>2, <1>3 DEF KeepsOneMessage

\* A queued receive of a disciplined program finds its subscriber.
LEMMA ReceiveSucceeds ==
  ASSUME SafeInv, NEW p \in Pids, NEW s \in Ids, Receive(p, s)
  PROVE  ~NotFound(p, s)
<1> DEFINE o == <<p, s>>
<1>1. o \in subObj
  BY DEF Receive, SafeInv, UsesBacked, KernelInv, TypeOK
<1>2. o[1] = p /\ o[2] = s
  OBVIOUS
<1> HIDE DEF o
<1> QED BY <1>1, <1>2 DEF SafeInv, KernelInv, EndpointsReachable, Reachable, NotFound

\* The release of a handle finds the entry and the bit it clears.
LEMMA ReleaseSucceeds ==
  ASSUME SafeInv, NEW p \in Pids, NEW s \in Ids, NEW e \in EntryIds,
         Release(p, s, e)
  PROVE  /\ entries' = [entries EXCEPT ![e].refs = @ \ {s}]
         /\ held' = held \ {<<p, s, e>>}
         /\ UNCHANGED fatal
<1> DEFINE h == <<p, s, e>>
<1>1. h \in held /\ h[1] = p /\ h[2] = s /\ h[3] = e
  BY DEF Release
<1> HIDE DEF h
<1>2. e \in DOMAIN entries /\ s \in entries[e].refs
  BY <1>1 DEF SafeInv, HeldIsReferenced
<1>3. DomainOf[p] \in wrappers
  BY <1>1, HolderOwns DEF SafeInv, KernelInv, EndpointsReachable, Reachable
<1> QED BY <1>2, <1>3 DEF Release

\* In a disciplined program whose publishers keep at least one message no ioctl
\* of the message path fails, so the library never ends a process.
THEOREM NeverFatal ==
  ASSUME Discipline, KeepsOneMessage
  PROVE  Spec => []NoFatalExit
<1>1. Init => NoFatalExit
  BY DEF Init, NoFatalExit
<1>2. ASSUME SafeInv, [Next]_vars, fatal = {} PROVE fatal' = {}
  <2>1. KernelInv
    BY <1>2 DEF SafeInv
  <2>2. \A p \in Pids :
          AddProcess(p) \/ ProcessDies(p) \/ agnocast_process_exit_cleanup(p)
            \/ agnocast_commit_exit_process(p) \/ AddEndpointFails(p)
          => UNCHANGED fatal
    BY DEF AddProcess, ProcessDies, agnocast_process_exit_cleanup,
       agnocast_commit_exit_process, AddEndpointFails, userVars
  <2>3. \A p \in Pids, q \in PubQos : AddPublisher(p, q) => UNCHANGED fatal
    BY DEF AddPublisher
  <2>4. \A p \in Pids, q \in SubQos : AddSubscriber(p, q) => UNCHANGED fatal
    BY DEF AddSubscriber
  <2>5. \A p \in Pids, i \in Ids :
          RemovePublisher(p, i) \/ RemoveSubscriber(p, i) \/ PrepareEpoll(p, i)
            \/ HandleEvent(p, i) => UNCHANGED fatal
    BY DEF RemovePublisher, RemoveSubscriber, PrepareEpoll, HandleEvent
  <2>6. \A p \in Pids, i \in Ids : Publish(p, i) => UNCHANGED fatal
    BY <2>1, PublishSucceeds DEF userVars
  <2>7. \A p \in Pids, s \in Ids : Receive(p, s) => UNCHANGED fatal
    BY <1>2, <2>1, ReceiveSucceeds, ReceiveCases
  <2>8. \A p \in Pids, s \in Ids, same \in BOOLEAN :
          Take(p, s, same) => UNCHANGED fatal
    BY <2>1, TakeCases
  <2>9. \A p \in Pids, s \in Ids, e \in EntryIds :
          Release(p, s, e) => UNCHANGED fatal
    BY <1>2, ReleaseSucceeds
  <2>10. \A i \in Ids : PublishSignal(i) => UNCHANGED fatal
    BY DEF PublishSignal, userVars
  <2>11. UNCHANGED vars => UNCHANGED fatal
    BY DEF vars
  <2> QED BY <1>2, <2>2, <2>3, <2>4, <2>5, <2>6, <2>7, <2>8, <2>9, <2>10, <2>11
          DEF Next
<1>3. SafeInv /\ NoFatalExit /\ [Next]_vars => NoFatalExit'
  BY <1>2 DEF NoFatalExit
<1> QED BY <1>1, <1>3, SafeInvariant, PTL DEF Spec

-----------------------------------------------------------------------------
(* The topic implements MessageLifetime.                                   *)

\* The refinement mapping of the handles.
Claims == {<<<<h[1], h[2]>>, h[3]>> : h \in held}

\* Every step of the topic is a step of MessageLifetime or a stutter.
LEMMA LifetimeStep ==
  ASSUME Discipline, KeepsOneMessage, SafeInv, SafeInv', [Next]_vars
  PROVE  [Lifetime!Next]_(Lifetime!lifetimeVars)
<1> USE DEF Lifetime!Next, Lifetime!lifetimeVars
<1>0. KernelInv /\ TypeOK /\ HeldIsReferenced'
  BY DEF SafeInv, KernelInv
<1>1. ASSUME DOMAIN entries' \subseteq DOMAIN entries, UNCHANGED held
      PROVE  Lifetime!Reclaim
  <2> DEFINE gone == DOMAIN entries \ DOMAIN entries'
  <2>1. DOMAIN entries' = DOMAIN entries \ gone
    BY <1>1
  <2>2. \A c \in Claims : c[2] \in DOMAIN entries'
    BY <1>0, <1>1 DEF HeldIsReferenced, Claims
  <2>3. gone \in SUBSET (DOMAIN entries \ {c[2] : c \in Claims})
    BY <2>2
  <2> HIDE DEF gone
  <2> QED BY <1>1, <2>1, <2>3 DEF Lifetime!Reclaim, Lifetime!Claimed, Claims
<1>2. ASSUME DOMAIN entries' = DOMAIN entries, held' \subseteq held
      PROVE  Lifetime!LetGo
  <2>1. Claims' \subseteq Claims
    BY <1>2 DEF Claims
  <2>2. Claims' = Claims \ (Claims \ Claims')
    BY <2>1
  <2> QED BY <1>2, <2>2 DEF Lifetime!LetGo, Claims
<1>3. ASSUME UNCHANGED <<entries, held>>
      PROVE  [Lifetime!Next]_(Lifetime!lifetimeVars)
  BY <1>3
<1>4. ASSUME NEW p \in Pids, NEW s \in Ids, HandsOut(p, s), s \in DOMAIN subs
      PROVE  Lifetime!Claim
  <2>1. PICK E \in SUBSET DOMAIN entries :
          /\ entries' = add_subscriber_reference(entries, s, E)
          /\ held' = held \cup {<<p, s, e>> : e \in E}
    BY <1>4 DEF HandsOut
  <2>2. DOMAIN entries' = DOMAIN entries
    BY <2>1 DEF add_subscriber_reference
  <2>3. Claims' = Claims \cup {<<<<p, s>>, e>> : e \in E}
    <3> DEFINE claim(h) == <<<<h[1], h[2]>>, h[3]>>
               new == {<<p, s, e>> : e \in E}
    <3>1. \A e \in E : claim(<<p, s, e>>) = <<<<p, s>>, e>>
      OBVIOUS
    <3>2. {claim(h) : h \in new} = {<<<<p, s>>, e>> : e \in E}
      <4> HIDE DEF claim
      <4> QED BY <3>1
    <3>3. Claims' = {claim(h) : h \in held'} /\ Claims = {claim(h) : h \in held}
      BY DEF Claims
    <3> HIDE DEF claim, new
    <3>4. {claim(h) : h \in held \cup new}
            = {claim(h) : h \in held} \cup {claim(h) : h \in new}
      OBVIOUS
    <3> QED BY <2>1, <3>2, <3>3, <3>4 DEF new
  <2> QED BY <2>2, <2>3 DEF Lifetime!Claim, Claims
<1>5. ASSUME NEW p \in Pids, NEW i \in Ids, Publish(p, i) PROVE Lifetime!Appear
  <2>1. UNCHANGED held
    BY <1>0, <1>5, PublishSucceeds DEF userVars
  <2>2. nextEntry \in EntryIds \ DOMAIN entries
    BY <1>0, <1>5, ConstantsAssumption DEF Publish, TypeOK, EntryIds, KernelInv,
       EndpointsReachable
  <2>3. /\ DOMAIN entries' \subseteq DOMAIN entries \cup {nextEntry}
        /\ nextEntry \in DOMAIN entries'
    <3>1. Hold({}, entries)
      BY DEF Hold
    <3> QED BY <1>0, <1>5, <3>1, PublishKeeps
  <2> DEFINE gone == DOMAIN entries \ DOMAIN entries'
  <2>4. DOMAIN entries' = (DOMAIN entries \ gone) \cup {nextEntry}
    BY <2>3
  <2>5. \A c \in Claims : c[2] \in DOMAIN entries'
    BY <1>0, <2>1 DEF HeldIsReferenced, Claims
  <2>6. gone \in SUBSET (DOMAIN entries \ {c[2] : c \in Claims})
    BY <2>5
  <2> HIDE DEF gone
  <2> QED BY <2>1, <2>2, <2>4, <2>6 DEF Lifetime!Appear, Lifetime!Claimed, Claims
<1>6. ASSUME NEW p \in Pids, AddProcess(p) \/ agnocast_commit_exit_process(p)
      PROVE  UNCHANGED <<entries, held>>
  BY <1>6 DEF AddProcess, agnocast_commit_exit_process, topicVars, userVars
<1>7. ASSUME NEW p \in Pids, ProcessDies(p) \/ AddEndpointFails(p)
      PROVE  Lifetime!LetGo
  BY <1>2, <1>7 DEF ProcessDies, AddEndpointFails, Ends, kernelVars
<1>8. ASSUME NEW p \in Pids, agnocast_process_exit_cleanup(p)
      PROVE  Lifetime!Reclaim
  <2>1. UNCHANGED held
    BY <1>8 DEF agnocast_process_exit_cleanup, userVars
  <2>2. DOMAIN entries' \subseteq DOMAIN entries
    BY <1>0, <1>8, StructuralWithin DEF Within
  <2> QED BY <1>1, <2>1, <2>2
<1>9. ASSUME NEW p \in Pids, NEW q \in PubQos, AddPublisher(p, q)
      PROVE  UNCHANGED <<entries, held>>
  BY <1>9 DEF AddPublisher
<1>10. ASSUME NEW p \in Pids, NEW q \in SubQos, AddSubscriber(p, q)
       PROVE  UNCHANGED <<entries, held>>
  BY <1>10 DEF AddSubscriber
<1>11. ASSUME NEW p \in Pids, NEW i \in Ids,
              RemovePublisher(p, i) \/ RemoveSubscriber(p, i)
       PROVE  Lifetime!Reclaim
  <2>1. UNCHANGED held
    BY <1>11 DEF RemovePublisher, RemoveSubscriber
  <2>2. DOMAIN entries' \subseteq DOMAIN entries
    BY <1>0, <1>11, StructuralWithin DEF Within
  <2> QED BY <1>1, <2>1, <2>2
<1>12. ASSUME NEW p \in Pids, NEW s \in Ids, Receive(p, s) PROVE Lifetime!Claim
  BY <1>0, <1>4, <1>12, ReceiveSucceeds, ReceiveCases
<1>13. ASSUME NEW p \in Pids, NEW s \in Ids, NEW same \in BOOLEAN, Take(p, s, same)
       PROVE  Lifetime!Claim
  BY <1>0, <1>4, <1>13, TakeCases
<1>14. ASSUME NEW p \in Pids, NEW s \in Ids, NEW e \in EntryIds, Release(p, s, e)
       PROVE  Lifetime!LetGo
  <2>1. /\ entries' = [entries EXCEPT ![e].refs = @ \ {s}]
        /\ held' \subseteq held
    BY <1>14, ReleaseSucceeds
  <2>2. DOMAIN entries' = DOMAIN entries
    BY <2>1
  <2> QED BY <1>2, <2>1, <2>2
<1>15. ASSUME NEW p \in Pids, NEW s \in Ids, PrepareEpoll(p, s) \/ HandleEvent(p, s)
       PROVE  UNCHANGED <<entries, held>>
  BY <1>15 DEF PrepareEpoll, HandleEvent, kernelVars, topicVars
<1>16. ASSUME NEW i \in Ids, PublishSignal(i) PROVE UNCHANGED <<entries, held>>
  BY <1>16 DEF PublishSignal, topicVars, userVars
<1>17. UNCHANGED vars => UNCHANGED <<entries, held>>
  BY DEF vars
<1> QED BY <1>3, <1>5, <1>6, <1>7, <1>8, <1>9, <1>10, <1>11, <1>12, <1>13, <1>14,
        <1>15, <1>16, <1>17 DEF Next

\* The topic implements MessageLifetime: a message is reclaimed only while no
\* reader has a claim to it.
THEOREM Refinement ==
  ASSUME Discipline, KeepsOneMessage
  PROVE  Spec => ImplementsLifetime
<1>1. Init => Lifetime!Init
  BY EmptyType DEF Init, Lifetime!Init
<1>2. SafeInv /\ SafeInv' /\ [Next]_vars
        => [Lifetime!Next]_(Lifetime!lifetimeVars)
  BY LifetimeStep
<1> QED BY <1>1, <1>2, SafeInvariant, PTL DEF Spec, ImplementsLifetime,
        Lifetime!Spec

-----------------------------------------------------------------------------
(***************************************************************************)
(* Proofs about who is told of a message and who may read it: the notify   *)
(* lists publishers cache are exact, references respect domains and        *)
(* ignore_local_publications, and no wake-up is lost.  Like TopicProofs,   *)
(* for every value of the constants and any use of the library.            *)
(***************************************************************************)

\* The cached notify lists of pb are the ones sb asks for.
Exact(pb, sb) == \A i \in DOMAIN pb : pb[i].notify = rebuild_notify_list(pb[i], sb)

\* The tables pb, sb and ent hold nothing that the topic's tables do not hold:
\* endpoints keep their process and QoS, entries their publisher, and no
\* reference is added.
Part(pb, sb, ent) ==
  /\ \A i \in DOMAIN pb : /\ i \in DOMAIN pubs
                          /\ pb[i].pid = pubs[i].pid
                          /\ pb[i].qos = pubs[i].qos
  /\ \A s \in DOMAIN sb : s \in DOMAIN subs /\ sb[s] = subs[s]
  /\ \A e \in DOMAIN ent : /\ e \in DOMAIN entries
                           /\ ent[e].pub = entries[e].pub
                           /\ ent[e].refs \subseteq entries[e].refs

\* A notify list depends on the publisher's process and QoS only.
LEMMA SameList ==
  ASSUME NEW pub, NEW pub2, NEW sb, pub2.pid = pub.pid, pub2.qos = pub.qos
  PROVE  rebuild_notify_list(pub2, sb) = rebuild_notify_list(pub, sb)
BY DEF rebuild_notify_list, domain_delivery_allowed

\* A take subscription is on no list, so its coming and going changes none.
LEMMA TakeIsSilent ==
  ASSUME NEW pub, NEW sb, NEW sb2,
         \A s \in DOMAIN sb : s \in DOMAIN sb2 \/ sb[s].qos.take,
         \A s \in DOMAIN sb2 : s \in DOMAIN sb \/ sb2[s].qos.take,
         \A s \in DOMAIN sb \cap DOMAIN sb2 :
           sb2[s].pid = sb[s].pid /\ sb2[s].qos = sb[s].qos
  PROVE  rebuild_notify_list(pub, sb2) = rebuild_notify_list(pub, sb)
<1>1. \A s \in DOMAIN sb \cap DOMAIN sb2 :
        domain_delivery_allowed(pub, sb2[s]) <=> domain_delivery_allowed(pub, sb[s])
  BY DEF domain_delivery_allowed
<1> QED BY <1>1 DEF rebuild_notify_list

\* Publishers that leave, and entry counts that change, leave the lists exact.
LEMMA ExactPart ==
  ASSUME NEW pb, NEW pb2, NEW sb, Exact(pb, sb),
         \A i \in DOMAIN pb2 : /\ i \in DOMAIN pb
                               /\ pb2[i].pid = pb[i].pid
                               /\ pb2[i].qos = pb[i].qos
                               /\ pb2[i].notify = pb[i].notify
  PROVE  Exact(pb2, sb)
<1> SUFFICES ASSUME NEW i \in DOMAIN pb2
             PROVE  pb2[i].notify = rebuild_notify_list(pb2[i], sb)
  BY DEF Exact
<1>1. rebuild_notify_list(pb2[i], sb) = rebuild_notify_list(pb[i], sb)
  BY SameList
<1> QED BY <1>1 DEF Exact

\* rebuild_all_notify_lists makes every list exact.
LEMMA RebuildExact ==
  ASSUME NEW pb, NEW sb, IsPubTable(pb), IsSubTable(sb)
  PROVE  Exact(rebuild_all_notify_lists(pb, sb), sb)
<1> DEFINE rb == rebuild_all_notify_lists(pb, sb)
<1>1. \A i \in DOMAIN pb : pb[i] \in PubInfo
  BY DEF IsPubTable
<1>2. \A i \in DOMAIN pb : rb[i].notify = rebuild_notify_list(pb[i], sb)
  BY <1>1 DEF rebuild_all_notify_lists, PubInfo
<1>3. /\ DOMAIN rb = DOMAIN pb
      /\ \A i \in DOMAIN pb : rb[i].pid = pb[i].pid /\ rb[i].qos = pb[i].qos
  BY RebuildType
<1> HIDE DEF rb
<1>4. \A i \in DOMAIN pb : rebuild_notify_list(rb[i], sb) = rebuild_notify_list(pb[i], sb)
  BY <1>3, SameList
<1>5. Exact(rb, sb)
  BY <1>2, <1>3, <1>4 DEF Exact
<1> QED BY <1>5 DEF rb

\* Erasing entries changes no list.
LEMMA DischargeNotify ==
  ASSUME NEW pb, NEW ent, NEW D, NEW F, IsPubTable(pb), IsEntryTree(ent)
  PROVE  \A i \in DOMAIN Discharge(pb, ent, D, F) :
           Discharge(pb, ent, D, F)[i].notify = pb[i].notify
<1>1. \A i \in DOMAIN pb : pb[i] \in PubInfo
  BY DEF IsPubTable
<1> QED BY <1>1 DEF Discharge, PubInfo

\* So the lists stay exact.
LEMMA DischargeExact ==
  ASSUME NEW pb, NEW sb, NEW ent, NEW D, NEW F, IsPubTable(pb), IsEntryTree(ent),
         Exact(pb, sb)
  PROVE  Exact(Discharge(pb, ent, D, F), sb)
<1> DEFINE new == Discharge(pb, ent, D, F)
<1>1. \A i \in DOMAIN new : /\ i \in DOMAIN pb
                            /\ new[i].pid = pb[i].pid
                            /\ new[i].qos = pb[i].qos
                            /\ new[i].notify = pb[i].notify
  BY DischargeType, DischargeNotify
<1> HIDE DEF new
<1>2. Exact(new, sb)
  BY <1>1, ExactPart
<1> QED BY <1>2 DEF new

-----------------------------------------------------------------------------
(* Structural operations.                                                  *)

\* Releasing wrappers installs the tables it is given or empty ones.
LEMMA ReleaseWrapperPart ==
  ASSUME NEW D, NEW pb, NEW sb, NEW ent,
         agnocast_release_topic_wrapper(D, pb, sb, ent),
         Part(pb, sb, ent), Exact(pb, sb)
  PROVE  Part(pubs', subs', entries') /\ Exact(pubs', subs')
<1>1. \/ pubs' = Empty /\ subs' = Empty /\ entries' = Empty
      \/ pubs' = pb /\ subs' = sb /\ entries' = ent
  BY DEF agnocast_release_topic_wrapper
<1>2. CASE pubs' = Empty /\ subs' = Empty /\ entries' = Empty
  BY <1>2, EmptyType DEF Part, Exact
<1>3. CASE pubs' = pb /\ subs' = sb /\ entries' = ent
  BY <1>3
<1> QED BY <1>1, <1>2, <1>3

\* Leaving subscribers only take away.
LEMMA LeaveTopicPart ==
  ASSUME NEW pr, NEW D, NEW pb, NEW sb, NEW ent, NEW S,
         LeaveTopic(pr, D, pb, sb, ent, S),
         IsPubTable(pb), IsEntryTree(ent), Part(pb, sb, ent), Exact(pb, sb)
  PROVE  Part(pubs', subs', entries') /\ Exact(pubs', subs')
<1> DEFINE cleared == clear_references(ent, S)
           dead == Abandoned(pr, pb, cleared)
           newPubs == Discharge(pb, cleared, dead, PublishersOf(cleared, dead))
           newEntries == agnocast_remove_entry_node(cleared, dead)
<1>1. /\ IsEntryTree(cleared)
      /\ DOMAIN cleared = DOMAIN ent
      /\ \A e \in DOMAIN ent : /\ cleared[e].pub = ent[e].pub
                               /\ cleared[e].refs = ent[e].refs \ S
  BY ClearType
<1>2. agnocast_release_topic_wrapper(D, newPubs, sb, newEntries)
  BY DEF LeaveTopic
<1> HIDE DEF cleared, dead
<1>3. /\ DOMAIN newPubs \subseteq DOMAIN pb
      /\ \A i \in DOMAIN newPubs : /\ newPubs[i].pid = pb[i].pid
                                   /\ newPubs[i].qos = pb[i].qos
  BY <1>1, DischargeType
<1>4. Exact(newPubs, sb)
  BY <1>1, DischargeExact
<1>5. /\ DOMAIN newEntries = DOMAIN cleared \ dead
      /\ \A e \in DOMAIN cleared \ dead : newEntries[e] = cleared[e]
  BY <1>1, RemoveType
<1> HIDE DEF newPubs, newEntries
<1>6. Part(newPubs, sb, newEntries)
  BY <1>1, <1>3, <1>5 DEF Part
<1> QED BY <1>2, <1>4, <1>6, ReleaseWrapperPart

\* The cleanup of a process and the removal of an endpoint only take away, and
\* leave every list exact.
LEMMA StructuralPart ==
  ASSUME KernelInv, Exact(pubs, subs), NEW p, NEW i,
         agnocast_process_exit_cleanup(p) \/ RemovePublisher(p, i)
           \/ RemoveSubscriber(p, i)
  PROVE  Part(pubs', subs', entries') /\ Exact(pubs', subs')
<1>1. IsPubTable(pubs) /\ IsSubTable(subs) /\ IsEntryTree(entries)
  BY DEF KernelInv, TypeOK
<1>2. ASSUME UNCHANGED topicVars
      PROVE  Part(pubs', subs', entries') /\ Exact(pubs', subs')
  BY <1>2 DEF topicVars, Part
<1>3. ASSUME NEW D PROVE /\ IsEntryTree(agnocast_remove_entry_node(entries, D))
                         /\ \A e \in DOMAIN agnocast_remove_entry_node(entries, D) :
                              /\ e \in DOMAIN entries
                              /\ agnocast_remove_entry_node(entries, D)[e] = entries[e]
  BY <1>1 DEF agnocast_remove_entry_node, IsEntryTree
<1>4. ASSUME NEW D, NEW F
      PROVE  LET pb == Discharge(pubs, entries, D, F)
             IN  /\ IsPubTable(pb)
                 /\ Exact(pb, subs)
                 /\ \A j \in DOMAIN pb : /\ j \in DOMAIN pubs
                                         /\ pb[j].pid = pubs[j].pid
                                         /\ pb[j].qos = pubs[j].qos
  BY <1>1, DischargeType, DischargeExact
<1>5. CASE agnocast_process_exit_cleanup(p)
  <2> DEFINE mine    == {j \in DOMAIN pubs : pubs[j].pid = p}
             unread  == {e \in DOMAIN entries :
                           /\ entries[e].pub \in mine
                           /\ ~agnocast_is_referenced(entries, e)}
             pb      == Discharge(pubs, entries, unread, mine)
             ent     == agnocast_remove_entry_node(entries, unread)
             leaving == {s \in DOMAIN subs : subs[s].pid = p}
             sb      == [s \in DOMAIN subs \ leaving |-> subs[s]]
             rb      == rebuild_all_notify_lists(pb, sb)
  <2>1. IF leaving = {}
        THEN agnocast_release_topic_wrapper(Domains, pb, sb, ent)
        ELSE LeaveTopic(proc', Domains, rb, sb, ent, leaving)
    BY <1>5 DEF agnocast_process_exit_cleanup
  <2> HIDE DEF mine, unread
  <2>2. /\ IsPubTable(pb) /\ Exact(pb, subs)
        /\ \A j \in DOMAIN pb : /\ j \in DOMAIN pubs
                                /\ pb[j].pid = pubs[j].pid
                                /\ pb[j].qos = pubs[j].qos
    BY <1>4
  <2>3. /\ IsEntryTree(ent)
        /\ \A e \in DOMAIN ent : e \in DOMAIN entries /\ ent[e] = entries[e]
    BY <1>3
  <2> HIDE DEF pb, ent
  <2>4. /\ IsSubTable(sb)
        /\ \A s \in DOMAIN sb : s \in DOMAIN subs /\ sb[s] = subs[s]
    BY <1>1 DEF IsSubTable
  <2>5. CASE leaving = {}
    <3>1. sb = subs
      BY <1>1, <2>5 DEF IsSubTable
    <3>2. Part(pb, sb, ent) /\ Exact(pb, sb)
      BY <2>2, <2>3, <2>4, <3>1 DEF Part
    <3> HIDE DEF sb, leaving
    <3> QED BY <2>1, <2>5, <3>2, ReleaseWrapperPart
  <2>6. CASE leaving # {}
    <3> HIDE DEF sb, leaving
    <3>1. /\ IsPubTable(rb) /\ Exact(rb, sb)
          /\ DOMAIN rb = DOMAIN pb
          /\ \A j \in DOMAIN pb : rb[j].pid = pb[j].pid /\ rb[j].qos = pb[j].qos
      BY <2>2, <2>4, RebuildType, RebuildExact
    <3> HIDE DEF rb
    <3>2. Part(rb, sb, ent)
      BY <2>2, <2>3, <2>4, <3>1 DEF Part
    <3> QED BY <2>1, <2>3, <2>6, <3>1, <3>2, LeaveTopicPart
  <2> QED BY <2>5, <2>6
<1>6. CASE RemovePublisher(p, i)
  <2>1. \/ UNCHANGED topicVars
        \/ \E D, E, F : agnocast_release_topic_wrapper(
                          D, Discharge(pubs, entries, E, F), subs,
                          agnocast_remove_entry_node(entries, E))
    BY <1>6 DEF RemovePublisher
  <2>2. ASSUME NEW D, NEW E, NEW F,
               agnocast_release_topic_wrapper(
                 D, Discharge(pubs, entries, E, F), subs,
                 agnocast_remove_entry_node(entries, E))
        PROVE  Part(pubs', subs', entries') /\ Exact(pubs', subs')
    <3> DEFINE pb == Discharge(pubs, entries, E, F)
               ent == agnocast_remove_entry_node(entries, E)
    <3>1. /\ Exact(pb, subs)
          /\ \A j \in DOMAIN pb : /\ j \in DOMAIN pubs
                                  /\ pb[j].pid = pubs[j].pid
                                  /\ pb[j].qos = pubs[j].qos
      BY <1>4
    <3>2. \A e \in DOMAIN ent : e \in DOMAIN entries /\ ent[e] = entries[e]
      BY <1>3
    <3>3. agnocast_release_topic_wrapper(D, pb, subs, ent)
      BY <2>2
    <3> HIDE DEF pb, ent
    <3>4. Part(pb, subs, ent)
      BY <3>1, <3>2 DEF Part
    <3> QED BY <3>1, <3>3, <3>4, ReleaseWrapperPart
  <2> QED BY <1>2, <2>1, <2>2
<1>7. CASE RemoveSubscriber(p, i)
  <2> DEFINE sb == [t \in DOMAIN subs \ {i} |-> subs[t]]
             pb == IF subs[i].qos.take THEN pubs
                   ELSE rebuild_all_notify_lists(pubs, sb)
  <2>1. \/ UNCHANGED topicVars
        \/ i \in DOMAIN subs /\ LeaveTopic(proc, {DomainOf[p]}, pb, sb, entries, {i})
    BY <1>7 DEF RemoveSubscriber
  <2>2. /\ IsSubTable(sb) /\ DOMAIN sb = DOMAIN subs \ {i}
        /\ \A s \in DOMAIN sb : sb[s] = subs[s]
    BY <1>1 DEF IsSubTable
  <2> HIDE DEF sb
  <2>3. ASSUME i \in DOMAIN subs
        PROVE  /\ IsPubTable(pb) /\ Exact(pb, sb) /\ DOMAIN pb = DOMAIN pubs
               /\ \A j \in DOMAIN pubs : /\ pb[j].pid = pubs[j].pid
                                         /\ pb[j].qos = pubs[j].qos
    <3>1. CASE subs[i].qos.take
      <4>1. \A pub : rebuild_notify_list(pub, sb) = rebuild_notify_list(pub, subs)
        BY <2>2, <2>3, <3>1, TakeIsSilent
      <4> QED BY <1>1, <3>1, <4>1 DEF Exact
    <3>2. CASE ~subs[i].qos.take
      <4>1. pb = rebuild_all_notify_lists(pubs, sb)
        BY <3>2
      <4> HIDE DEF pb
      <4> QED BY <1>1, <2>2, <4>1, RebuildType, RebuildExact
    <3> QED BY <3>1, <3>2
  <2> HIDE DEF pb
  <2>4. i \in DOMAIN subs => Part(pb, sb, entries)
    BY <2>2, <2>3 DEF Part
  <2> QED BY <1>1, <1>2, <2>1, <2>3, <2>4, LeaveTopicPart
<1> QED BY <1>5, <1>6, <1>7

-----------------------------------------------------------------------------
(* The cached notify lists.                                                *)

\* Every step keeps the lists exact.
LEMMA NotifyStep ==
  ASSUME KernelInv, KernelInv', Exact(pubs, subs), [Next]_vars
  PROVE  Exact(pubs', subs')
<1>1. IsPubTable(pubs) /\ IsSubTable(subs) /\ IsEntryTree(entries)
  BY DEF KernelInv, TypeOK
<1>2. ASSUME NEW p \in Pids,
             \/ AddProcess(p) \/ ProcessDies(p) \/ agnocast_commit_exit_process(p)
             \/ AddEndpointFails(p)
      PROVE  UNCHANGED <<pubs, subs>>
  BY <1>2 DEF AddProcess, ProcessDies, agnocast_commit_exit_process,
     AddEndpointFails, kernelVars, topicVars
<1>3. ASSUME NEW p \in Pids, NEW i, agnocast_process_exit_cleanup(p)
               \/ RemovePublisher(p, i) \/ RemoveSubscriber(p, i)
      PROVE  Exact(pubs', subs')
  BY <1>3, StructuralPart
<1>4. ASSUME NEW p \in Pids, NEW q \in PubQos, AddPublisher(p, q)
      PROVE  Exact(pubs', subs')
  <2> DEFINE new == [pid |-> p, qos |-> q, num |-> 0, notify |-> {}]
             pub == [new EXCEPT !.notify = rebuild_notify_list(new, subs)]
  <2>1. /\ pubs' = [i \in DOMAIN pubs \cup {nextId} |->
                      IF i = nextId THEN pub ELSE pubs[i]]
        /\ subs' = subs
    BY <1>4 DEF AddPublisher
  <2>2. pub.notify = rebuild_notify_list(new, subs) /\ pub.pid = new.pid
        /\ pub.qos = new.qos
    OBVIOUS
  <2> HIDE DEF new, pub
  <2>3. pub.notify = rebuild_notify_list(pub, subs)
    BY <2>2, SameList
  <2> QED BY <2>1, <2>3 DEF Exact
<1>5. ASSUME NEW p \in Pids, NEW q \in SubQos, AddSubscriber(p, q)
      PROVE  Exact(pubs', subs')
  <2> DEFINE sub == [pid |-> p, qos |-> q,
                     latest |-> IF q.tl THEN -1 ELSE nextEntry]
             sb  == [s \in DOMAIN subs \cup {nextId} |->
                       IF s = nextId THEN sub ELSE subs[s]]
  <2>1. /\ subs' = sb
        /\ pubs' = IF q.take THEN pubs ELSE rebuild_all_notify_lists(pubs, sb)
    BY <1>5 DEF AddSubscriber
  <2>2. sub.qos = q
    OBVIOUS
  <2>3. nextId \notin DOMAIN subs
    BY DEF KernelInv, EndpointsReachable, TypeOK, IsSubTable, Ids
  <2> HIDE DEF sub
  <2>4. /\ DOMAIN sb = DOMAIN subs \cup {nextId} /\ sb[nextId] = sub
        /\ \A s \in DOMAIN subs : sb[s] = subs[s]
    BY <2>3
  <2>5. IsSubTable(sb)
    BY <2>1 DEF KernelInv, TypeOK, IsSubTable
  <2> HIDE DEF sb
  <2>6. CASE q.take
    <3>1. \A pub : rebuild_notify_list(pub, sb) = rebuild_notify_list(pub, subs)
      BY <2>2, <2>4, <2>6, TakeIsSilent
    <3> QED BY <2>1, <2>6, <3>1 DEF Exact
  <2>7. CASE ~q.take
    BY <1>1, <2>1, <2>5, <2>7, RebuildExact
  <2> QED BY <2>6, <2>7
<1>6. ASSUME NEW p \in Pids, NEW i \in Ids, Publish(p, i) PROVE Exact(pubs', subs')
  <2>1. /\ UNCHANGED subs
        /\ UNCHANGED pubs \/ \E n : pubs' = [pubs EXCEPT ![i].num = n]
    BY <1>6 DEF Publish, kernelVars
  <2>2. \A j \in DOMAIN pubs' : /\ j \in DOMAIN pubs
                                /\ pubs'[j].pid = pubs[j].pid
                                /\ pubs'[j].qos = pubs[j].qos
                                /\ pubs'[j].notify = pubs[j].notify
    BY <1>1, <2>1 DEF IsPubTable, PubInfo
  <2>3. Exact(pubs', subs)
    BY <2>2, ExactPart
  <2> QED BY <2>1, <2>3
<1>7. ASSUME NEW p \in Pids, NEW s \in DOMAIN subs, HandsOut(p, s), UNCHANGED pubs
      PROVE  Exact(pubs', subs')
  <2>1. PICK v \in Int : subs' = [subs EXCEPT ![s].latest = v]
    BY <1>7 DEF HandsOut
  <2>2. /\ DOMAIN subs' = DOMAIN subs
        /\ \A t \in DOMAIN subs : subs'[t].pid = subs[t].pid /\ subs'[t].qos = subs[t].qos
    BY <1>1, <2>1, LatestType
  <2>3. \A pub : rebuild_notify_list(pub, subs') = rebuild_notify_list(pub, subs)
    BY <2>2, TakeIsSilent
  <2> QED BY <1>7, <2>3 DEF Exact
<1>8. ASSUME NEW p \in Pids, NEW s \in Ids, Receive(p, s) PROVE Exact(pubs', subs')
  <2>1. CASE NotFound(p, s)
    BY <1>8, <2>1 DEF Receive
  <2>2. CASE ~NotFound(p, s)
    BY <1>7, <1>8, <2>2, ReceiveCases
  <2> QED BY <2>1, <2>2
<1>9. ASSUME NEW p \in Pids, NEW s \in Ids, NEW same \in BOOLEAN, Take(p, s, same)
      PROVE  Exact(pubs', subs')
  BY <1>7, <1>9, TakeCases
<1>10. ASSUME NEW p \in Pids, NEW s \in Ids, NEW e \in EntryIds,
              Release(p, s, e) \/ PrepareEpoll(p, s) \/ HandleEvent(p, s)
       PROVE  UNCHANGED <<pubs, subs>>
  BY <1>10 DEF Release, PrepareEpoll, HandleEvent, kernelVars, topicVars
<1>11. ASSUME NEW i \in Ids, PublishSignal(i) PROVE UNCHANGED <<pubs, subs>>
  BY <1>11 DEF PublishSignal, topicVars
<1>12. UNCHANGED vars => UNCHANGED <<pubs, subs>>
  BY DEF vars
<1>13. ASSUME NEW p \in Pids, NEW s \in Ids, PrepareEpoll(p, s) \/ HandleEvent(p, s)
       PROVE UNCHANGED <<pubs, subs>>
  BY <1>13 DEF PrepareEpoll, HandleEvent, kernelVars, topicVars
<1> QED BY <1>2, <1>3, <1>4, <1>5, <1>6, <1>8, <1>9, <1>10, <1>11, <1>12, <1>13
        DEF Next

\* Every publisher signals exactly the callback subscriptions that may receive
\* from it, whatever joined, left or died since its list was cached.
THEOREM NotifyExact == Spec => []NotifyListsExact
<1>1. Init => Exact(pubs, subs)
  BY EmptyType DEF Init, Exact
<1>2. KernelInv /\ KernelInv' /\ Exact(pubs, subs) /\ [Next]_vars => Exact(pubs, subs)'
  <2>1. ASSUME KernelInv, KernelInv', Exact(pubs, subs), [Next]_vars
        PROVE  Exact(pubs', subs')
    BY <2>1, NotifyStep
  <2> QED BY <2>1 DEF Exact, rebuild_notify_list, domain_delivery_allowed
<1>3. Exact(pubs, subs) <=> NotifyListsExact
  BY DEF Exact, NotifyListsExact
<1> QED BY <1>1, <1>2, <1>3, KernelInvariant, PTL DEF Spec

\* The tables of a topic agree with each other in every reachable state.
THEOREM Consistency == Spec => []KernelConsistent
<1>1. KernelInv /\ WatermarkExact /\ NotifyListsExact => KernelConsistent
  BY DEF KernelInv, KernelConsistent
<1> QED BY <1>1, KernelInvariant, WatermarkHistory, NotifyExact, PTL

-----------------------------------------------------------------------------
(* Isolation.                                                              *)

\* sub may hold messages of pub.
MayHold(pub, sub) ==
  /\ sub.qos.ignoreLocal => pub.pid # sub.pid
  /\ domain_delivery_allowed(pub, sub)

\* Every reference of ent is one its subscriber may hold.
Isolated(pb, sb, ent) ==
  \A e \in DOMAIN ent : \A s \in ent[e].refs : MayHold(pb[ent[e].pub], sb[s])

\* MayHold looks at processes and QoS only.
LEMMA SameHold ==
  ASSUME NEW pub, NEW pub2, NEW sub, NEW sub2, MayHold(pub, sub),
         pub2.pid = pub.pid, pub2.qos = pub.qos,
         sub2.pid = sub.pid, sub2.qos = sub.qos
  PROVE  MayHold(pub2, sub2)
BY DEF MayHold, domain_delivery_allowed

\* A step that adds no reference and leaves processes and QoS of the endpoints
\* alone keeps isolation.
LEMMA IsolatedKept ==
  ASSUME KernelInv, Isolated(pubs, subs, entries),
         \A e \in DOMAIN entries' : \A s \in entries'[e].refs :
           /\ e \in DOMAIN entries /\ entries'[e].pub = entries[e].pub
           /\ s \in entries[e].refs,
         \A e \in DOMAIN entries' : LET i == entries'[e].pub
           IN  i \in DOMAIN pubs =>
                 pubs'[i].pid = pubs[i].pid /\ pubs'[i].qos = pubs[i].qos,
         \A e \in DOMAIN entries' : \A s \in entries'[e].refs \cap DOMAIN subs :
           subs'[s].pid = subs[s].pid /\ subs'[s].qos = subs[s].qos
  PROVE  Isolated(pubs', subs', entries')
<1> SUFFICES ASSUME NEW e \in DOMAIN entries', NEW s \in entries'[e].refs
             PROVE  MayHold(pubs'[entries'[e].pub], subs'[s])
  BY DEF Isolated
<1>1. /\ e \in DOMAIN entries /\ entries'[e].pub = entries[e].pub
      /\ s \in entries[e].refs
  OBVIOUS
<1>2. MayHold(pubs[entries[e].pub], subs[s])
  BY <1>1 DEF Isolated
<1>3. entries[e].pub \in DOMAIN pubs /\ s \in DOMAIN subs
  BY <1>1 DEF KernelInv, EntriesAccounted, Accounted, RefsBelowWatermark,
     BelowWatermark
<1> QED BY <1>1, <1>2, <1>3, SameHold

\* Receiving and taking hand out deliverable entries only.
LEMMA HandedOutDeliverable ==
  ASSUME KernelInv, NEW p \in Pids, NEW s \in Ids, NEW same \in BOOLEAN,
         Receive(p, s) \/ Take(p, s, same)
  PROVE  /\ UNCHANGED pubs
         /\ \/ UNCHANGED <<entries, subs>>
            \/ /\ s \in DOMAIN subs
               /\ \E v : subs' = [subs EXCEPT ![s].latest = v]
               /\ \E E \in SUBSET DOMAIN entries :
                    /\ \A e \in E : is_entry_deliverable(s, e)
                    /\ entries' = add_subscriber_reference(entries, s, E)
<1>1. CASE Receive(p, s)
  <2>1. CASE NotFound(p, s)
    BY <1>1, <2>1 DEF Receive
  <2>2. CASE ~NotFound(p, s)
    <3> DEFINE batch == Oldest(ReceiveWindow(s), MaxReceiveNum)
               got == Claimable(s, batch)
    <3>1. /\ got \in SUBSET DOMAIN entries
          /\ \A e \in got : is_entry_deliverable(s, e)
      BY DEF Claimable, Oldest, ReceiveWindow, Newest, Unreceived
    <3>2. UNCHANGED pubs /\ entries' = add_subscriber_reference(entries, s, got)
      BY <1>1, <2>2 DEF Receive
    <3>3. s \in DOMAIN subs /\ \E v : subs' = [subs EXCEPT ![s].latest = v]
      BY <1>1, <2>2, ReceiveCases DEF HandsOut
    <3> HIDE DEF got
    <3> QED BY <3>1, <3>2, <3>3
  <2> QED BY <2>1, <2>2
<1>2. CASE Take(p, s, same)
  <2> DEFINE scanned == {e \in DOMAIN entries : \/ e > subs[s].latest
                                                \/ same /\ e = subs[s].latest}
             window  == Newest({e \in scanned : is_entry_deliverable(s, e)},
                               subs[s].qos.depth)
             chosen  == IF window = {} THEN {} ELSE {MinOf(window)}
  <2>1. /\ window \in SUBSET DOMAIN entries
        /\ \A e \in window : is_entry_deliverable(s, e)
    BY DEF Newest
  <2>2. UNCHANGED pubs
        /\ (\/ UNCHANGED <<entries, subs>>
            \/ entries' = add_subscriber_reference(entries, s, chosen))
    BY <1>2 DEF Take
  <2>3. s \in DOMAIN subs /\ \E v : subs' = [subs EXCEPT ![s].latest = v]
    BY <1>2, TakeCases DEF HandsOut
  <2> HIDE DEF window
  <2>4. window # {} => MinOf(window) \in window
    BY <2>1, MinOfProperty DEF KernelInv, TypeOK, IsEntryTree
  <2>5. chosen \in SUBSET DOMAIN entries /\ \A e \in chosen : is_entry_deliverable(s, e)
    BY <2>1, <2>4
  <2> HIDE DEF chosen
  <2> QED BY <2>2, <2>3, <2>5
<1> QED BY <1>1, <1>2

\* Every step keeps isolation.
LEMMA IsolatedStep ==
  ASSUME KernelInv, KernelInv', Exact(pubs, subs), Isolated(pubs, subs, entries),
         [Next]_vars
  PROVE  Isolated(pubs', subs', entries')
<1>1. IsPubTable(pubs) /\ IsSubTable(subs) /\ IsEntryTree(entries)
  BY DEF KernelInv, TypeOK
<1>2. ASSUME UNCHANGED <<pubs, subs, entries>> PROVE Isolated(pubs', subs', entries')
  BY <1>2
<1>3. ASSUME NEW p \in Pids,
             \/ AddProcess(p) \/ ProcessDies(p) \/ agnocast_commit_exit_process(p)
             \/ AddEndpointFails(p)
      PROVE  UNCHANGED <<pubs, subs, entries>>
  BY <1>3 DEF AddProcess, ProcessDies, agnocast_commit_exit_process,
     AddEndpointFails, kernelVars, topicVars
<1>4. ASSUME NEW p \in Pids, NEW i, agnocast_process_exit_cleanup(p)
               \/ RemovePublisher(p, i) \/ RemoveSubscriber(p, i)
      PROVE  Isolated(pubs', subs', entries')
  <2>1. Part(pubs', subs', entries')
    BY <1>4, StructuralPart
  <2>2. /\ \A e \in DOMAIN entries' : entries'[e].pub \in DOMAIN pubs'
        /\ \A e \in DOMAIN entries' : entries'[e].refs \subseteq DOMAIN subs'
    BY DEF KernelInv, EntriesAccounted, Accounted, RefsBelowWatermark, BelowWatermark
  <2> QED BY <2>1, <2>2, IsolatedKept DEF Part
<1>5. ASSUME NEW p \in Pids, NEW q \in PubQos, AddPublisher(p, q)
      PROVE  Isolated(pubs', subs', entries')
  <2>1. /\ \A i \in DOMAIN pubs : i # nextId => pubs'[i] = pubs[i]
        /\ UNCHANGED <<subs, entries>>
    BY <1>5 DEF AddPublisher
  <2>2. nextId \notin DOMAIN pubs
    BY DEF KernelInv, EndpointsReachable, TypeOK, IsPubTable, Ids
  <2> QED BY <2>1, <2>2, IsolatedKept
<1>6. ASSUME NEW p \in Pids, NEW q \in SubQos, AddSubscriber(p, q)
      PROVE  Isolated(pubs', subs', entries')
  <2>1. /\ \A s \in DOMAIN subs : s # nextId => subs'[s] = subs[s]
        /\ UNCHANGED entries
        /\ pubs' = pubs \/ pubs' = rebuild_all_notify_lists(pubs, subs')
    BY <1>6 DEF AddSubscriber
  <2>2. nextId \notin DOMAIN subs
    BY DEF KernelInv, EndpointsReachable, TypeOK, IsSubTable, Ids
  <2>3. IsSubTable(subs')
    BY DEF KernelInv, TypeOK, IsSubTable
  <2>4. \A i \in DOMAIN pubs : pubs'[i].pid = pubs[i].pid /\ pubs'[i].qos = pubs[i].qos
    BY <1>1, <2>1, <2>3, RebuildType
  <2> QED BY <2>1, <2>2, <2>4, IsolatedKept
<1>7. ASSUME NEW p \in Pids, NEW i \in Ids, Publish(p, i)
      PROVE  Isolated(pubs', subs', entries')
  <2> DEFINE ent == [e \in DOMAIN entries \cup {nextEntry} |->
                       IF e = nextEntry THEN [pub |-> i, refs |-> {}]
                       ELSE entries[e]]
  <2>1. /\ UNCHANGED subs
        /\ UNCHANGED pubs \/ \E n : pubs' = [pubs EXCEPT ![i].num = n]
        /\ UNCHANGED entries \/ \E D : entries' = agnocast_remove_entry_node(ent, D)
    BY <1>7 DEF Publish, kernelVars
  <2>2. \A j \in DOMAIN pubs : pubs'[j].pid = pubs[j].pid /\ pubs'[j].qos = pubs[j].qos
    BY <1>1, <2>1 DEF IsPubTable, PubInfo
  <2>3. \A e \in DOMAIN ent : \A s \in ent[e].refs :
          e \in DOMAIN entries /\ ent[e] = entries[e]
    OBVIOUS
  <2> HIDE DEF ent
  <2>4. \A e \in DOMAIN entries' : \A s \in entries'[e].refs :
          e \in DOMAIN entries /\ entries'[e] = entries[e]
    BY <2>1, <2>3 DEF agnocast_remove_entry_node
  <2> QED BY <2>1, <2>2, <2>4, IsolatedKept
<1>8. ASSUME NEW p \in Pids, NEW s \in Ids, NEW same \in BOOLEAN,
             Receive(p, s) \/ Take(p, s, same)
      PROVE  Isolated(pubs', subs', entries')
  <2>1. CASE UNCHANGED <<entries, subs>>
    BY <1>8, <2>1, HandedOutDeliverable
  <2>2. CASE ~UNCHANGED <<entries, subs>>
    <3>1. /\ s \in DOMAIN subs /\ UNCHANGED pubs
          /\ \E v : subs' = [subs EXCEPT ![s].latest = v]
          /\ \E E \in SUBSET DOMAIN entries :
               /\ \A e \in E : is_entry_deliverable(s, e)
               /\ entries' = add_subscriber_reference(entries, s, E)
      BY <1>8, <2>2, HandedOutDeliverable
    <3>2. PICK E \in SUBSET DOMAIN entries :
            /\ \A e \in E : is_entry_deliverable(s, e)
            /\ entries' = add_subscriber_reference(entries, s, E)
      BY <3>1
    <3>3. /\ DOMAIN entries' = DOMAIN entries
          /\ \A e \in DOMAIN entries :
               /\ entries'[e].pub = entries[e].pub
               /\ entries'[e].refs = IF e \in E THEN entries[e].refs \cup {s}
                                     ELSE entries[e].refs
      <4>1. s \in Ids /\ IsEntryTree(entries)
        BY <1>1, <1>8
      <4>2. entries' = add_subscriber_reference(entries, s, E)
        BY <3>2
      <4> DEFINE new == add_subscriber_reference(entries, s, E)
      <4>3. /\ DOMAIN new = DOMAIN entries
            /\ \A e \in DOMAIN entries :
                 /\ new[e].pub = entries[e].pub
                 /\ new[e].refs = IF e \in E THEN entries[e].refs \cup {s} ELSE entries[e].refs
        BY <4>1, AddReferenceType
      <4> HIDE DEF new
      <4> QED BY <4>2, <4>3 DEF new
    <3>4. \A t \in DOMAIN subs : subs'[t].pid = subs[t].pid /\ subs'[t].qos = subs[t].qos
      BY <1>1, <3>1 DEF IsSubTable, SubInfo
    <3> SUFFICES ASSUME NEW e \in DOMAIN entries', NEW t \in entries'[e].refs
                 PROVE  MayHold(pubs'[entries'[e].pub], subs'[t])
      BY DEF Isolated
    <3>5. t \in entries[e].refs \/ (t = s /\ e \in E)
      BY <3>3
    <3>6. t \in DOMAIN subs
      BY <3>1, <3>3, <3>5 DEF KernelInv, RefsBelowWatermark, BelowWatermark
    <3>7. MayHold(pubs[entries[e].pub], subs[t])
      <4>1. CASE t \in entries[e].refs
        BY <3>3, <4>1 DEF Isolated
      <4>2. CASE t = s /\ e \in E
        BY <3>2, <4>2 DEF is_entry_deliverable, MayHold
      <4> QED BY <3>5, <4>1, <4>2
    <3> QED BY <3>1, <3>3, <3>4, <3>6, <3>7, SameHold
  <2> QED BY <2>1, <2>2
<1>9. ASSUME NEW p \in Pids, NEW s \in Ids, NEW e \in EntryIds, Release(p, s, e)
      PROVE  Isolated(pubs', subs', entries')
  <2>1. /\ UNCHANGED <<pubs, subs>>
        /\ UNCHANGED entries \/ entries' = [entries EXCEPT ![e].refs = @ \ {s}]
    BY <1>9 DEF Release
  <2>2. \A f \in DOMAIN entries' : \A t \in entries'[f].refs :
          /\ f \in DOMAIN entries /\ entries'[f].pub = entries[f].pub
          /\ t \in entries[f].refs
    BY <1>1, <2>1 DEF IsEntryTree, Entry
  <2> QED BY <2>1, <2>2, IsolatedKept
<1>10. ASSUME NEW p \in Pids, NEW s \in Ids, PrepareEpoll(p, s) \/ HandleEvent(p, s)
       PROVE  UNCHANGED <<pubs, subs, entries>>
  BY <1>10 DEF PrepareEpoll, HandleEvent, kernelVars, topicVars
<1>11. ASSUME NEW i \in Ids, PublishSignal(i) PROVE UNCHANGED <<pubs, subs, entries>>
  BY <1>11 DEF PublishSignal, topicVars
<1>12. UNCHANGED vars => UNCHANGED <<pubs, subs, entries>>
  BY DEF vars
<1> QED BY <1>2, <1>3, <1>4, <1>5, <1>6, <1>7, <1>8, <1>9, <1>10, <1>11, <1>12
        DEF Next

\* A subscriber only ever holds messages it was allowed to receive: no entry
\* crosses domains against a rule or through a bridge, and none comes back to a
\* process that ignores its own.
THEOREM Isolation == Spec => []OnlyFromAllowedPublishers
<1> DEFINE I == Isolated(pubs, subs, entries)
           E == Exact(pubs, subs)
<1>1. Init => I
  BY EmptyType DEF Init, Isolated
<1>2. KernelInv /\ KernelInv' /\ E /\ I /\ [Next]_vars => I'
  <2>1. ASSUME KernelInv, KernelInv', E, I, [Next]_vars
        PROVE  Isolated(pubs', subs', entries')
    BY <2>1, IsolatedStep
  <2> QED BY <2>1 DEF Isolated, MayHold, domain_delivery_allowed
<1>3. E <=> NotifyListsExact
  BY DEF Exact, NotifyListsExact
<1>4. I => OnlyFromAllowedPublishers
  BY DEF Isolated, MayHold, domain_delivery_allowed, OnlyFromAllowedPublishers
<1> HIDE DEF I, E
<1> QED BY <1>1, <1>2, <1>3, <1>4, KernelInvariant, NotifyExact, PTL DEF Spec

-----------------------------------------------------------------------------
(***************************************************************************)
(* Proof that no wake-up is lost: a callback subscription that has         *)
(* something to receive is always about to be told.  The argument needs    *)
(* that notify lists are exact (NotifyExact), that a receive which says it *)
(* is done has taken everything, and that a publish always gets to signal, *)
(* which depth 0 would break.                                              *)
(***************************************************************************)

\* The newest entries of a set are none only if the set or the count is empty.
LEMMA NewestNonempty ==
  ASSUME NEW E \in SUBSET EntryIds, NEW n \in Nat
  PROVE  Newest(E, n) # {} <=> n > 0 /\ E # {}
<1>1. ASSUME n > 0, E # {} PROVE Newest(E, n) # {}
  <2>1. MaxOf(E) \in E /\ \A f \in E : f <= MaxOf(E)
    BY <1>1, MaxOfProperty
  <2>2. \A f \in E : f \in Int
    BY EntryIdsInt
  <2>3. {f \in E : f > MaxOf(E)} = {}
    BY <2>1, <2>2
  <2>4. Cardinality({f \in E : f > MaxOf(E)}) = 0
    BY <2>3, FS_EmptySet
  <2> QED BY <1>1, <2>1, <2>4 DEF Newest
<1>2. ASSUME Newest(E, n) # {} PROVE n > 0 /\ E # {}
  <2>1. PICK e \in E : Cardinality({f \in E : f > e}) < n
    BY <1>2 DEF Newest
  <2>2. Cardinality({f \in E : f > e}) \in Nat
    BY EntryIdsFinite
  <2> QED BY <2>1, <2>2
<1> QED BY <1>1, <1>2

\* Callback subscription s of a running process has something to receive.
Waits(s) ==
  /\ ~subs[s].qos.take
  /\ <<subs[s].pid, s>> \in subObj
  /\ subs[s].qos.depth > 0
  /\ \E e \in DOMAIN entries : e > subs[s].latest /\ is_entry_deliverable(s, e)

\* Something is on its way that makes s receive.
Woken(s) ==
  \/ s \in eventfd
  \/ ready[<<subs[s].pid, s>>] > 0
  \/ subs[s].qos.tl /\ <<subs[s].pid, s>> \in unprepared
  \/ \E i \in signalling : s \in pubs[i].notify

\* The kernel knows the process of every publisher.
PublishersKnown == \A i \in DOMAIN pubs : proc[pubs[i].pid] # "none"

\* The inductive form of NoLostWakeup.
WakeInv ==
  /\ PublishersKnown
  /\ \A s \in DOMAIN subs : Waits(s) => Woken(s)

\* Waits is Wants without the window.
LEMMA WaitsIsWants ==
  ASSUME KernelInv, NEW s \in DOMAIN subs
  PROVE  Waits(s) <=> Wants(s)
<1> DEFINE E == {e \in Unreceived(s) : is_entry_deliverable(s, e)}
<1>1. E \in SUBSET EntryIds
  BY DEF Unreceived, KernelInv, TypeOK, IsEntryTree
<1>2. subs[s].qos.depth \in Nat
  BY ConstantsAssumption DEF KernelInv, TypeOK, IsSubTable, SubInfo, SubQosType
<1>3. ReceiveWindow(s) = Newest(E, subs[s].qos.depth)
  BY DEF ReceiveWindow
<1>4. E # {} <=> \E e \in DOMAIN entries :
                   e > subs[s].latest /\ is_entry_deliverable(s, e)
  BY DEF Unreceived
<1> HIDE DEF E
<1>5. ReceiveWindow(s) # {} <=> subs[s].qos.depth > 0 /\ E # {}
  BY <1>1, <1>2, <1>3, NewestNonempty
<1> QED BY <1>4, <1>5 DEF Waits, Wants

\* What an inductive step may assume.
Before ==
  /\ KernelInv
  /\ KernelInv'
  /\ Exact(pubs, subs)
  /\ WakeInv

\* No publisher comes back to life, so what it left does not become deliverable.
NoRevival ==
  \A i \in DOMAIN pubs :
    proc'[pubs[i].pid] = "alive" => proc[pubs[i].pid] = "alive"

\* A step that only takes away gives nobody something to receive.
LEMMA WaitsBefore ==
  ASSUME Part(pubs', subs', entries'), subObj' \subseteq subObj, NoRevival,
         NEW s \in DOMAIN subs', Waits(s)'
  PROVE  s \in DOMAIN subs /\ subs'[s] = subs[s] /\ Waits(s)
<1>1. s \in DOMAIN subs /\ subs'[s] = subs[s]
  BY DEF Part
<1>2. PICK e \in DOMAIN entries' : e > subs'[s].latest /\ is_entry_deliverable(s, e)'
  BY DEF Waits
<1>3. /\ e \in DOMAIN entries /\ entries'[e].pub = entries[e].pub
      /\ entries[e].pub \in DOMAIN pubs
      /\ pubs'[entries[e].pub].pid = pubs[entries[e].pub].pid
      /\ pubs'[entries[e].pub].qos = pubs[entries[e].pub].qos
  BY <1>2 DEF Part, is_entry_deliverable
<1>4. is_entry_deliverable(s, e)
  BY <1>1, <1>2, <1>3 DEF is_entry_deliverable, domain_delivery_allowed, NoRevival
<1> QED BY <1>1, <1>2, <1>3, <1>4 DEF Waits

\* Such a step keeps WakeInv if it also leaves wake-ups alone.
LEMMA FewerKeeps ==
  ASSUME Before, Part(pubs', subs', entries'), subObj' \subseteq subObj, NoRevival,
         \A s \in DOMAIN subs' : Waits(s)' /\ Waits(s) /\ Woken(s) => Woken(s)'
  PROVE  \A s \in DOMAIN subs' : Waits(s)' => Woken(s)'
BY WaitsBefore DEF Before, WakeInv

\* A step that leaves the topic alone takes away nothing.
LEMMA UnchangedPart ==
  ASSUME UNCHANGED <<pubs, subs, entries>>
  PROVE  Part(pubs', subs', entries')
BY DEF Part

-----------------------------------------------------------------------------
(* Processes and endpoints.                                                *)

\* A step of the processes themselves wakes nobody and needs to.
LEMMA ProcessWake ==
  ASSUME Before, NEW p \in Pids,
         \/ AddProcess(p) \/ ProcessDies(p) \/ agnocast_commit_exit_process(p)
         \/ AddEndpointFails(p)
  PROVE  PublishersKnown' /\ \A s \in DOMAIN subs' : Waits(s)' => Woken(s)'
<1>1. UNCHANGED <<pubs, subs, entries, signalling, eventfd>>
  BY DEF AddProcess, ProcessDies, agnocast_commit_exit_process, AddEndpointFails,
     kernelVars, topicVars
<1>2. /\ proc \in [Pids -> {"none", "alive", "exited", "gone"}]
      /\ \A i \in DOMAIN pubs : pubs[i].pid \in Pids /\ proc[pubs[i].pid] # "none"
  BY DEF Before, WakeInv, PublishersKnown, KernelInv, TypeOK, IsPubTable, PubInfo
<1>3. /\ UNCHANGED proc
         \/ /\ proc[p] = "none"
            /\ proc' = [proc EXCEPT ![p] = "alive"]
         \/ proc' = [proc EXCEPT ![p] = "gone"]
  BY DEF AddProcess, ProcessDies, agnocast_commit_exit_process, AddEndpointFails,
     kernelVars
<1>4. NoRevival /\ PublishersKnown'
  BY <1>1, <1>2, <1>3 DEF NoRevival, PublishersKnown
<1>5. \/ UNCHANGED <<subObj, unprepared, ready>>
      \/ Ends(p)
  BY DEF AddProcess, ProcessDies, agnocast_commit_exit_process, AddEndpointFails,
     userVars
<1>6. subObj' \subseteq subObj
  BY <1>5 DEF Ends
<1>7. ASSUME NEW s \in DOMAIN subs', Waits(s)', Woken(s) PROVE Woken(s)'
  <2>1. CASE UNCHANGED <<subObj, unprepared, ready>>
    BY <1>1, <1>7, <2>1 DEF Woken
  <2>2. CASE Ends(p)
    <3> DEFINE o == <<subs[s].pid, s>>
    <3>1. o \in subObj'
      BY <1>1, <1>7 DEF Waits
    <3>2. o[1] # p /\ o \in Pids \X Ids
      BY <1>6, <2>2, <3>1 DEF Ends, Before, KernelInv, TypeOK
    <3>3. ready'[o] = ready[o] /\ (o \in unprepared => o \in unprepared')
      BY <2>2, <3>2 DEF Ends
    <3> QED BY <1>1, <1>7, <3>3 DEF Woken
  <2> QED BY <1>5, <2>1, <2>2
<1> QED BY <1>1, <1>4, <1>6, <1>7, UnchangedPart, FewerKeeps

\* Neither does the cleanup of a process nor the removal of an endpoint.
LEMMA StructuralWake ==
  ASSUME Before, NEW p \in Pids, NEW i \in Ids,
         agnocast_process_exit_cleanup(p) \/ RemovePublisher(p, i)
           \/ RemoveSubscriber(p, i)
  PROVE  PublishersKnown' /\ \A s \in DOMAIN subs' : Waits(s)' => Woken(s)'
<1>1. Part(pubs', subs', entries')
  BY StructuralPart DEF Before
<1>2. /\ signalling = {} /\ UNCHANGED <<signalling, ready>>
      /\ subObj' \subseteq subObj
      /\ \/ UNCHANGED unprepared
         \/ RemoveSubscriber(p, i)
  BY DEF agnocast_process_exit_cleanup, RemovePublisher, RemoveSubscriber,
     GlobalWrite, userVars
<1>3. UNCHANGED proc \/ proc' = [proc EXCEPT ![p] = "exited"]
  BY DEF agnocast_process_exit_cleanup, RemovePublisher, RemoveSubscriber
<1>4. /\ proc \in [Pids -> {"none", "alive", "exited", "gone"}]
      /\ \A j \in DOMAIN pubs : pubs[j].pid \in Pids /\ proc[pubs[j].pid] # "none"
  BY DEF Before, WakeInv, PublishersKnown, KernelInv, TypeOK, IsPubTable, PubInfo
<1>5. NoRevival
  BY <1>3, <1>4 DEF NoRevival
<1>6. PublishersKnown'
  BY <1>1, <1>3, <1>4 DEF Part, PublishersKnown
<1>7. ASSUME NEW s \in DOMAIN subs', Waits(s)', Woken(s) PROVE Woken(s)'
  <2> DEFINE o == <<subs[s].pid, s>>
  <2>1. s \in DOMAIN subs /\ subs'[s] = subs[s]
    BY <1>1 DEF Part
  <2>2. o \in subObj'
    BY <1>7, <2>1 DEF Waits
  <2>3. s \in eventfd => s \in eventfd'
    <3>1. CASE agnocast_process_exit_cleanup(p)
      <4>1. subs[s].pid # p
        <5>1. \A q \in subObj : q[1] \in running
          BY DEF Before, KernelInv, OwnersRun
        <5>2. p \notin running /\ UNCHANGED subObj
          BY <3>1 DEF agnocast_process_exit_cleanup, LastThreadExited, userVars
        <5>3. o[1] \in running /\ o[1] = subs[s].pid
          BY <2>2, <5>1, <5>2
        <5> QED BY <5>2, <5>3
      <4> QED BY <2>1, <3>1, <4>1 DEF agnocast_process_exit_cleanup
    <3>2. CASE RemovePublisher(p, i)
      BY <3>2 DEF RemovePublisher
    <3>3. CASE RemoveSubscriber(p, i)
      <4>1. s # i
        <5>1. <<p, i>> \in subObj /\ subObj' = subObj \ {<<p, i>>}
          BY <3>3 DEF RemoveSubscriber
        <5>2. \A q \in subObj : subs[q[2]].pid = q[1]
          BY DEF Before, KernelInv, EndpointsReachable
        <5>3. subs[i].pid = p
          <6> DEFINE r == <<p, i>>
          <6>1. r \in subObj /\ r[1] = p /\ r[2] = i
            BY <5>1
          <6> HIDE DEF r
          <6> QED BY <5>2, <6>1
        <5> QED BY <2>2, <5>1, <5>3
      <4> QED BY <3>3, <4>1 DEF RemoveSubscriber
    <3> QED BY <3>1, <3>2, <3>3
  <2>4. o \in unprepared => o \in unprepared'
    BY <1>2, <2>2 DEF RemoveSubscriber
  <2> QED BY <1>2, <1>7, <2>1, <2>3, <2>4 DEF Woken
<1> QED BY <1>1, <1>2, <1>5, <1>6, <1>7, FewerKeeps

\* A new publisher has published nothing yet.
LEMMA AddPublisherWake ==
  ASSUME Before, NEW p \in Pids, NEW q \in PubQos, AddPublisher(p, q)
  PROVE  PublishersKnown' /\ \A s \in DOMAIN subs' : Waits(s)' => Woken(s)'
<1> DEFINE new == [pid |-> p, qos |-> q, num |-> 0, notify |-> {}]
           pub == [new EXCEPT !.notify = rebuild_notify_list(new, subs)]
<1>1. /\ pubs' = [i \in DOMAIN pubs \cup {nextId} |->
                    IF i = nextId THEN pub ELSE pubs[i]]
      /\ signalling = {} /\ p \in running
      /\ UNCHANGED <<proc, subs, entries, signalling, eventfd, subObj, unprepared,
                     ready>>
  BY DEF AddPublisher, GlobalWrite
<1>2. pub.pid = p
  OBVIOUS
<1> HIDE DEF pub
<1>3. nextId \notin DOMAIN pubs
  BY DEF Before, KernelInv, EndpointsReachable, TypeOK, IsPubTable, Ids
<1>4. PublishersKnown'
  BY <1>1, <1>2 DEF PublishersKnown, Before, WakeInv, KernelInv, OwnersRun
<1>5. ASSUME NEW s \in DOMAIN subs', Waits(s)' PROVE Waits(s)
  <2>1. \A e \in DOMAIN entries : is_entry_deliverable(s, e)'
                                    => is_entry_deliverable(s, e)
    <3>1. \A e \in DOMAIN entries : /\ entries[e].pub \in DOMAIN pubs
                                    /\ pubs'[entries[e].pub] = pubs[entries[e].pub]
      BY <1>1, <1>3 DEF Before, KernelInv, EntriesAccounted, Accounted
    <3> QED BY <1>1, <3>1 DEF is_entry_deliverable, domain_delivery_allowed
  <2> QED BY <1>1, <1>5, <2>1 DEF Waits
<1>6. ASSUME NEW s \in DOMAIN subs', Woken(s) PROVE Woken(s)'
  BY <1>1, <1>6 DEF Woken
<1> QED BY <1>1, <1>4, <1>5, <1>6 DEF Before, WakeInv

\* A new subscription starts past every entry or is due a first receive.
LEMMA AddSubscriberWake ==
  ASSUME Before, NEW p \in Pids, NEW q \in SubQos, AddSubscriber(p, q)
  PROVE  PublishersKnown' /\ \A s \in DOMAIN subs' : Waits(s)' => Woken(s)'
<1> DEFINE sub == [pid |-> p, qos |-> q, latest |-> IF q.tl THEN -1 ELSE nextEntry]
           sb  == [s \in DOMAIN subs \cup {nextId} |->
                     IF s = nextId THEN sub ELSE subs[s]]
<1>1. /\ subs' = sb
      /\ pubs' = IF q.take THEN pubs ELSE rebuild_all_notify_lists(pubs, sb)
      /\ signalling = {} /\ p \in running
      /\ subObj' = subObj \cup {<<p, nextId>>}
      /\ unprepared' = IF q.take THEN unprepared
                       ELSE unprepared \cup {<<p, nextId>>}
      /\ UNCHANGED <<proc, entries, signalling, eventfd, ready>>
  BY DEF AddSubscriber, GlobalWrite
<1>2. /\ sub.pid = p /\ sub.qos = q
      /\ ~q.tl => sub.latest = nextEntry
  OBVIOUS
<1> HIDE DEF sub
<1>3. nextId \notin DOMAIN subs
  BY DEF Before, KernelInv, EndpointsReachable, TypeOK, IsSubTable, Ids
<1>4. /\ DOMAIN subs' = DOMAIN subs \cup {nextId} /\ subs'[nextId] = sub
      /\ \A s \in DOMAIN subs : subs'[s] = subs[s]
  BY <1>1, <1>3
<1>5. IsSubTable(sb)
  BY <1>1 DEF Before, KernelInv, TypeOK, IsSubTable
<1> HIDE DEF sb
<1>6. /\ DOMAIN pubs' = DOMAIN pubs
      /\ \A i \in DOMAIN pubs : /\ pubs'[i].pid = pubs[i].pid
                                /\ pubs'[i].qos = pubs[i].qos
  <2>1. CASE q.take
    BY <1>1, <2>1
  <2>2. CASE ~q.take
    BY <1>1, <1>5, <2>2, RebuildType DEF Before, KernelInv, TypeOK
  <2> QED BY <2>1, <2>2
<1>7. PublishersKnown'
  BY <1>1, <1>6 DEF PublishersKnown, Before, WakeInv
<1>8. ASSUME NEW s \in DOMAIN subs, Waits(s)' PROVE Waits(s)
  <2>1. \A e \in DOMAIN entries : is_entry_deliverable(s, e)'
                                    => is_entry_deliverable(s, e)
    BY <1>1, <1>4, <1>6 DEF is_entry_deliverable, domain_delivery_allowed
  <2>2. <<subs[s].pid, s>> \in subObj
    BY <1>1, <1>3, <1>4, <1>8 DEF Waits
  <2> QED BY <1>1, <1>4, <1>8, <2>1, <2>2 DEF Waits
<1>9. ASSUME NEW s \in DOMAIN subs, Woken(s) PROVE Woken(s)'
  BY <1>1, <1>4, <1>9 DEF Woken
<1>10. ASSUME NEW s, s = nextId, Waits(s)' PROVE Woken(s)'
  <2>1. ~q.take
    BY <1>2, <1>4, <1>10 DEF Waits
  <2>2. \A e \in DOMAIN entries : e \in Int /\ nextEntry \in Int /\ e < nextEntry
    BY EntryIdsInt DEF Before, KernelInv, TypeOK, EndpointsReachable, IsEntryTree
  <2>3. q.tl
    BY <1>1, <1>2, <1>4, <1>10, <2>2 DEF Waits
  <2> QED BY <1>1, <1>2, <1>4, <1>10, <2>1, <2>3 DEF Woken
<1> QED BY <1>4, <1>7, <1>8, <1>9, <1>10 DEF Before, WakeInv

-----------------------------------------------------------------------------
(* Messages.                                                               *)

\* Whoever may receive the new entry is on its publisher's list.
LEMMA PublishWake ==
  ASSUME Before, KeepsOneMessage, NEW p \in Pids, NEW i \in Ids, Publish(p, i)
  PROVE  PublishersKnown' /\ \A s \in DOMAIN subs' : Waits(s)' => Woken(s)'
<1> DEFINE ent == [e \in DOMAIN entries \cup {nextEntry} |->
                     IF e = nextEntry THEN [pub |-> i, refs |-> {}]
                     ELSE entries[e]]
<1>1. UNCHANGED userVars
  BY PublishSucceeds DEF Before
<1>2. ~Aborts(p)
  <2> DEFINE o == <<p, i>>
  <2>1. o \in pubObj /\ o[1] = p
    BY DEF Publish
  <2> HIDE DEF o
  <2>2. p \in running
    BY <2>1 DEF Before, KernelInv, OwnersRun
  <2> QED BY <1>1, <2>2 DEF Aborts, Ends, userVars
<1>3. /\ i \in DOMAIN pubs
      /\ \E D : entries' = agnocast_remove_entry_node(ent, D)
      /\ \E n : pubs' = [pubs EXCEPT ![i].num = n]
      /\ signalling' = signalling \cup {i}
      /\ UNCHANGED <<proc, subs, eventfd>>
  BY <1>2 DEF Publish, publish_error
<1>4. \A e \in DOMAIN ent : /\ e # nextEntry => e \in DOMAIN entries /\ ent[e] = entries[e]
                            /\ e = nextEntry => ent[e].pub = i
  OBVIOUS
<1> HIDE DEF ent
<1>5. \A e \in DOMAIN entries' :
        /\ e # nextEntry => e \in DOMAIN entries /\ entries'[e] = entries[e]
        /\ e = nextEntry => entries'[e].pub = i
  BY <1>3, <1>4 DEF agnocast_remove_entry_node
<1>6. /\ DOMAIN pubs' = DOMAIN pubs
      /\ \A j \in DOMAIN pubs : /\ pubs'[j].pid = pubs[j].pid
                                /\ pubs'[j].qos = pubs[j].qos
                                /\ pubs'[j].notify = pubs[j].notify
  BY <1>3 DEF Before, KernelInv, TypeOK, IsPubTable, PubInfo
<1>7. PublishersKnown'
  BY <1>3, <1>6 DEF PublishersKnown, Before, WakeInv
<1> SUFFICES ASSUME NEW s \in DOMAIN subs', Waits(s)' PROVE Woken(s)'
  BY <1>7
<1>8. PICK e \in DOMAIN entries' : e > subs'[s].latest /\ is_entry_deliverable(s, e)'
  BY DEF Waits
<1>9. CASE e = nextEntry
  <2>1. entries'[e].pub = i
    BY <1>5, <1>9
  <2>2. /\ domain_delivery_allowed(pubs[i], subs[s])
        /\ ~(subs[s].qos.ignoreLocal /\ subs[s].pid = pubs[i].pid)
    BY <1>3, <1>6, <1>8, <2>1 DEF is_entry_deliverable, domain_delivery_allowed
  <2>3. ~subs[s].qos.take
    BY <1>3 DEF Waits
  <2>4. s \in pubs[i].notify
    BY <1>3, <2>2, <2>3 DEF Before, Exact, rebuild_notify_list
  <2> QED BY <1>3, <1>6, <2>4 DEF Woken
<1>10. CASE e # nextEntry
  <2>1. e \in DOMAIN entries /\ entries'[e] = entries[e]
    BY <1>5, <1>10
  <2>2. is_entry_deliverable(s, e)
    BY <1>3, <1>6, <1>8, <2>1 DEF is_entry_deliverable, domain_delivery_allowed
  <2>3. Waits(s)
    BY <1>1, <1>3, <1>8, <2>1, <2>2 DEF Waits, userVars
  <2>4. Woken(s)
    BY <1>3, <2>3 DEF Before, WakeInv
  <2>5. signalling \subseteq DOMAIN pubs
    BY DEF Before, KernelInv, EndpointsReachable
  <2> QED BY <1>1, <1>3, <1>6, <2>4, <2>5 DEF Woken, userVars
<1> QED BY <1>9, <1>10

\* The signal reaches every subscription on the list.
LEMMA SignalWake ==
  ASSUME Before, NEW i \in Ids, PublishSignal(i)
  PROVE  PublishersKnown' /\ \A s \in DOMAIN subs' : Waits(s)' => Woken(s)'
<1>1. /\ signalling' = signalling \ {i} /\ eventfd' = eventfd \cup pubs[i].notify
      /\ UNCHANGED <<proc, pubs, subs, entries, subObj, unprepared, ready>>
  BY DEF PublishSignal, topicVars, userVars
<1>2. PublishersKnown'
  BY <1>1 DEF PublishersKnown, Before, WakeInv
<1>3. Part(pubs', subs', entries') /\ NoRevival /\ subObj' \subseteq subObj
  BY <1>1, UnchangedPart DEF NoRevival
<1>4. ASSUME NEW s \in DOMAIN subs', Woken(s) PROVE Woken(s)'
  BY <1>1, <1>4 DEF Woken
<1> QED BY <1>2, <1>3, <1>4, FewerKeeps

\* A handle that goes away leaves everything due that was due.
LEMMA ReleaseWake ==
  ASSUME Before, NEW p \in Pids, NEW s \in Ids, NEW e \in EntryIds, Release(p, s, e)
  PROVE  PublishersKnown' /\ \A t \in DOMAIN subs' : Waits(t)' => Woken(t)'
<1>1. /\ UNCHANGED <<proc, pubs, subs, signalling, eventfd>>
      /\ UNCHANGED entries \/ entries' = [entries EXCEPT ![e].refs = @ \ {s}]
      /\ UNCHANGED <<subObj, unprepared, ready>> \/ Ends(p)
  BY DEF Release, Aborts
<1>2. PublishersKnown'
  BY <1>1 DEF PublishersKnown, Before, WakeInv
<1>3. IsEntryTree(entries)
  BY DEF Before, KernelInv, TypeOK
<1>4. \A f \in DOMAIN entries' : /\ f \in DOMAIN entries
                                 /\ entries'[f].pub = entries[f].pub
                                 /\ entries'[f].refs \subseteq entries[f].refs
  BY <1>1, <1>3 DEF IsEntryTree, Entry
<1>5. Part(pubs', subs', entries') /\ NoRevival /\ subObj' \subseteq subObj
  BY <1>1, <1>4 DEF Part, NoRevival, Ends
<1>6. ASSUME NEW t \in DOMAIN subs', Waits(t)', Woken(t) PROVE Woken(t)'
  <2>1. CASE UNCHANGED <<subObj, unprepared, ready>>
    BY <1>1, <1>6, <2>1 DEF Woken
  <2>2. CASE Ends(p)
    <3> DEFINE o == <<subs[t].pid, t>>
    <3>1. o \in subObj'
      BY <1>1, <1>6 DEF Waits
    <3>2. o[1] # p /\ o \in Pids \X Ids
      BY <1>5, <2>2, <3>1 DEF Ends, Before, KernelInv, TypeOK
    <3>3. ready'[o] = ready[o] /\ (o \in unprepared => o \in unprepared')
      BY <2>2, <3>2 DEF Ends
    <3> QED BY <1>1, <1>6, <3>3 DEF Woken
  <2> QED BY <1>1, <2>1, <2>2
<1> QED BY <1>2, <1>5, <1>6, FewerKeeps

\* Draining an eventfd, or adding it to epoll, queues the receive it stands for.
LEMMA EpollWake ==
  ASSUME Before, NEW p \in Pids, NEW s \in Ids, PrepareEpoll(p, s) \/ HandleEvent(p, s)
  PROVE  PublishersKnown' /\ \A t \in DOMAIN subs' : Waits(t)' => Woken(t)'
<1>1. UNCHANGED <<proc, pubs, subs, entries, signalling, subObj>>
  BY DEF PrepareEpoll, HandleEvent, kernelVars, topicVars
<1>2. PublishersKnown'
  BY <1>1 DEF PublishersKnown, Before, WakeInv
<1>3. Part(pubs', subs', entries') /\ NoRevival /\ subObj' \subseteq subObj
  BY <1>1, UnchangedPart DEF NoRevival
<1>4. ready \in [Pids \X Ids -> Nat] /\ <<p, s>> \in Pids \X Ids
  BY DEF Before, KernelInv, TypeOK
<1>5. ASSUME NEW t \in DOMAIN subs', Waits(t)', Woken(t) PROVE Woken(t)'
  <2> DEFINE o == <<subs[t].pid, t>>
  <2>1. o \in subObj /\ o \in Pids \X Ids
    BY <1>1, <1>5 DEF Waits, Before, KernelInv, TypeOK
  <2>2. CASE PrepareEpoll(p, s)
    <3>1. CASE o = <<p, s>> /\ subs[t].qos.tl
      <4>1. ready' = [ready EXCEPT ![<<p, s>>] = @ + 1]
        BY <1>1, <1>5, <2>2, <3>1 DEF PrepareEpoll
      <4>2. ready'[<<p, s>>] > 0
        BY <1>4, <4>1
      <4> QED BY <1>1, <3>1, <4>2 DEF Woken
    <3>2. CASE ~(o = <<p, s>> /\ subs[t].qos.tl)
      <4>1. ready'[o] >= ready[o] /\ eventfd' = eventfd
        BY <1>4, <2>1, <2>2 DEF PrepareEpoll, kernelVars
      <4>2. subs[t].qos.tl /\ o \in unprepared => o \in unprepared'
        BY <2>2, <3>2 DEF PrepareEpoll
      <4>3. ready[o] > 0 => ready'[o] > 0
        <5>1. ready[o] \in Int /\ ready'[o] \in Int
          BY <1>4, <2>1, <2>2 DEF PrepareEpoll
        <5> QED BY <4>1, <5>1
      <4> QED BY <1>1, <1>5, <4>1, <4>2, <4>3 DEF Woken
    <3> QED BY <3>1, <3>2
  <2>3. CASE HandleEvent(p, s)
    <3>1. <<p, s>> \in subObj /\ UNCHANGED unprepared /\ eventfd' = eventfd \ {s}
          /\ ready' = [ready EXCEPT ![<<p, s>>] = @ + 1]
      BY <2>3 DEF HandleEvent
    <3>2. CASE t = s
      <4>1. subs[s].pid = p
        <5> DEFINE r == <<p, s>>
        <5>1. r \in subObj /\ r[1] = p /\ r[2] = s
          BY <3>1
        <5> HIDE DEF r
        <5> QED BY <5>1 DEF Before, KernelInv, EndpointsReachable
      <4>2. ready'[<<p, s>>] > 0
        BY <1>4, <3>1
      <4> QED BY <1>1, <3>2, <4>1, <4>2 DEF Woken
    <3>3. CASE t # s
      <4>1. ready'[o] = ready[o]
        BY <1>4, <2>1, <3>1, <3>3
      <4> QED BY <1>1, <1>5, <3>1, <3>3, <4>1 DEF Woken
    <3> QED BY <3>2, <3>3
  <2> QED BY <2>2, <2>3
<1> QED BY <1>2, <1>3, <1>5, FewerKeeps

\* A new reference leaves entries and their publishers alone.
LEMMA SamePublishers ==
  ASSUME NEW s \in Ids, NEW E, IsEntryTree(entries),
         entries' = add_subscriber_reference(entries, s, E)
  PROVE  /\ DOMAIN entries' = DOMAIN entries
         /\ \A e \in DOMAIN entries : entries'[e].pub = entries[e].pub
<1>1. \A e \in DOMAIN entries : entries[e] \in Entry
  BY DEF IsEntryTree
<1>2. /\ DOMAIN entries' = DOMAIN entries
      /\ \A e \in DOMAIN entries :
           entries'[e] = [entries[e] EXCEPT !.refs = IF e \in E THEN @ \cup {s} ELSE @]
  BY DEF add_subscriber_reference
<1> QED BY <1>1, <1>2 DEF Entry

\* The watermark of s moves up and nothing else about it changes: whatever waits
\* afterwards waited before.
LEMMA HandOutWaits ==
  ASSUME Before, NEW p \in Pids, NEW s \in DOMAIN subs, HandsOut(p, s),
         UNCHANGED <<proc, pubs, subObj>>, NEW t \in DOMAIN subs', Waits(t)'
  PROVE  /\ t \in DOMAIN subs /\ Waits(t)
         /\ subs'[t].pid = subs[t].pid /\ subs'[t].qos = subs[t].qos
<1>1. IsSubTable(subs) /\ IsEntryTree(entries) /\ s \in Ids
  BY DEF Before, KernelInv, TypeOK, IsSubTable
<1>2. PICK E \in SUBSET DOMAIN entries, v \in Int :
        /\ subs[s].latest <= v
        /\ entries' = add_subscriber_reference(entries, s, E)
        /\ subs' = [subs EXCEPT ![s].latest = v]
  BY DEF HandsOut
<1>3. /\ DOMAIN subs' = DOMAIN subs
      /\ \A r \in DOMAIN subs :
           /\ subs'[r].pid = subs[r].pid
           /\ subs'[r].qos = subs[r].qos
           /\ subs'[r].latest = IF r = s THEN v ELSE subs[r].latest
  BY <1>1, <1>2, LatestType
<1>4. /\ DOMAIN entries' = DOMAIN entries
      /\ \A e \in DOMAIN entries : entries'[e].pub = entries[e].pub
  BY <1>1, <1>2, SamePublishers
<1>5. PICK e \in DOMAIN entries : e > subs'[t].latest /\ is_entry_deliverable(t, e)'
  BY <1>4 DEF Waits
<1>6. is_entry_deliverable(t, e)
  BY <1>3, <1>4, <1>5 DEF is_entry_deliverable, domain_delivery_allowed
<1>7. e > subs[t].latest
  <2>1. e \in Int /\ subs[t].latest \in Int
    BY <1>1, <1>3, EntryIdsInt DEF IsEntryTree, IsSubTable, SubInfo
  <2> QED BY <1>2, <1>3, <1>5, <2>1
<1> QED BY <1>3, <1>5, <1>6, <1>7 DEF Waits

\* A receive that does not ask to be called again leaves nothing behind.
LEMMA ReceiveWake ==
  ASSUME Before, NEW p \in Pids, NEW s \in Ids, Receive(p, s)
  PROVE  PublishersKnown' /\ \A t \in DOMAIN subs' : Waits(t)' => Woken(t)'
<1>1. CASE NotFound(p, s)
  <2>1. /\ UNCHANGED <<proc, pubs, subs, entries, signalling, eventfd>> /\ Ends(p)
    BY <1>1 DEF Receive, Aborts
  <2>2. PublishersKnown'
    BY <2>1 DEF PublishersKnown, Before, WakeInv
  <2>3. Part(pubs', subs', entries') /\ NoRevival /\ subObj' \subseteq subObj
    BY <2>1, UnchangedPart DEF NoRevival, Ends
  <2>4. ASSUME NEW t \in DOMAIN subs', Waits(t)', Woken(t) PROVE Woken(t)'
    <3> DEFINE o == <<subs[t].pid, t>>
    <3>1. o \in subObj'
      BY <2>1, <2>4 DEF Waits
    <3>2. o[1] # p /\ o \in Pids \X Ids
      BY <2>1, <2>3, <3>1 DEF Ends, Before, KernelInv, TypeOK
    <3>3. ready'[o] = ready[o] /\ (o \in unprepared => o \in unprepared')
      BY <2>1, <3>2 DEF Ends
    <3> QED BY <2>1, <2>4, <3>3 DEF Woken
  <2> QED BY <2>2, <2>3, <2>4, FewerKeeps
<1>2. CASE ~NotFound(p, s)
  <2> DEFINE window == ReceiveWindow(s)
             batch  == Oldest(window, MaxReceiveNum)
  <2>1. /\ s \in DOMAIN subs
        /\ entries' = add_subscriber_reference(entries, s, batch)
        /\ subs' = [subs EXCEPT ![s].latest =
                      IF batch = {} THEN @ ELSE MaxOf(batch)]
        /\ ready' = [ready EXCEPT ![<<p, s>>] = IF batch # window THEN @ ELSE @ - 1]
        /\ UNCHANGED <<subObj, unprepared, proc, pubs, signalling, eventfd>>
    BY <1>2, ReceiveSteps DEF ret_call_again, Before
  <2>2. HandsOut(p, s)
    BY <1>2, ReceiveCases DEF Before
  <2>3. PublishersKnown'
    BY <2>1 DEF PublishersKnown, Before, WakeInv
  <2>4. /\ IsSubTable(subs) /\ IsEntryTree(entries)
        /\ ready \in [Pids \X Ids -> Nat] /\ ready[<<p, s>>] > 0
    BY DEF Receive, Before, KernelInv, TypeOK
  <2> HIDE DEF batch
  <2> SUFFICES ASSUME NEW t \in DOMAIN subs', Waits(t)' PROVE Woken(t)'
    BY <2>3
  <2>5. /\ t \in DOMAIN subs /\ Waits(t) /\ Woken(t)
        /\ subs'[t].pid = subs[t].pid /\ subs'[t].qos = subs[t].qos
    BY <2>1, <2>2, HandOutWaits DEF Before, WakeInv
  <2>6. <<subs[t].pid, t>> \in Pids \X Ids
    BY <2>5 DEF Waits, Before, KernelInv, TypeOK
  <2>7. CASE <<subs[t].pid, t>> # <<p, s>>
    <3>1. ready'[<<subs[t].pid, t>>] = ready[<<subs[t].pid, t>>]
      BY <2>1, <2>4, <2>6, <2>7
    <3> QED BY <2>1, <2>5, <3>1 DEF Woken
  <2>8. CASE <<subs[t].pid, t>> = <<p, s>>
    <3>1. CASE batch # window
      <4>1. ready'[<<p, s>>] > 0
        BY <2>1, <2>4, <2>6, <2>8, <3>1
      <4> QED BY <2>5, <2>8, <4>1 DEF Woken
    <3>2. CASE batch = window
      <4> DEFINE E == {e \in Unreceived(s) : is_entry_deliverable(s, e)}
      <4>1. /\ E \in SUBSET EntryIds /\ subs[s].qos.depth \in Nat
            /\ window = Newest(E, subs[s].qos.depth)
        BY <2>1, <2>4, ConstantsAssumption DEF ReceiveWindow, Unreceived, IsEntryTree,
           IsSubTable, SubInfo, SubQosType
      <4>2. /\ DOMAIN entries' = DOMAIN entries
            /\ \A e \in DOMAIN entries : entries'[e].pub = entries[e].pub
        BY <2>1, <2>4, SamePublishers
      <4>3. PICK e \in DOMAIN entries :
              e > subs'[s].latest /\ is_entry_deliverable(s, e)'
        BY <2>8, <4>2 DEF Waits
      <4>4. is_entry_deliverable(s, e)
        BY <2>1, <2>5, <2>8, <4>2, <4>3 DEF is_entry_deliverable,
           domain_delivery_allowed
      <4>5. e \in Int /\ subs[s].latest \in Int
        BY <2>1, <2>4, EntryIdsInt DEF IsEntryTree, IsSubTable, SubInfo
      <4>6. E # {}
        BY <2>5, <2>8, <4>1 DEF Waits, Unreceived
      <4>7. subs[s].qos.depth > 0
        BY <2>5, <2>8 DEF Waits
      <4> HIDE DEF E, window
      <4>8. /\ window # {} /\ window \in SUBSET EntryIds
            /\ MaxOf(E) \in E /\ \A f \in E : f <= MaxOf(E)
        <5>1. window # {}
          BY <4>1, <4>6, <4>7, NewestNonempty
        <5>2. window \in SUBSET EntryIds
          BY <4>1 DEF Newest
        <5> QED BY <4>1, <4>6, <5>1, <5>2, MaxOfProperty
      <4>9. MaxOf(E) \in window
        <5>1. \A f \in E : f \in Int
          BY <4>1, EntryIdsInt
        <5>2. {f \in E : f > MaxOf(E)} = {}
          BY <4>8, <5>1
        <5>3. Cardinality({f \in E : f > MaxOf(E)}) = 0
          BY <5>2, FS_EmptySet
        <5> QED BY <4>1, <4>7, <4>8, <5>3 DEF Newest
      <4>10. MaxOf(window) \in window /\ \A f \in window : f <= MaxOf(window)
        BY <4>8, MaxOfProperty
      <4>11. subs'[s].latest = MaxOf(window)
        BY <2>1, <2>4, <3>2, <4>8 DEF IsSubTable, SubInfo
      <4>12. MaxOf(window) \in Int /\ MaxOf(window) > subs[s].latest
        BY <4>1, <4>8, <4>10, EntryIdsInt DEF Newest, E, Unreceived
      <4>13. e \in E
        BY <4>3, <4>4, <4>5, <4>11, <4>12 DEF E, Unreceived
      <4>14. MaxOf(E) \in Int
        BY <4>1, <4>8, EntryIdsInt
      <4> QED BY <4>3, <4>5, <4>8, <4>9, <4>10, <4>11, <4>12, <4>13, <4>14
    <3> QED BY <3>1, <3>2
  <2> QED BY <2>7, <2>8
<1> QED BY <1>1, <1>2

\* A take concerns no callback subscription.
LEMMA TakeWake ==
  ASSUME Before, NEW p \in Pids, NEW s \in Ids, NEW same \in BOOLEAN, Take(p, s, same)
  PROVE  PublishersKnown' /\ \A t \in DOMAIN subs' : Waits(t)' => Woken(t)'
<1>1. /\ s \in DOMAIN subs /\ HandsOut(p, s)
      /\ UNCHANGED <<subObj, unprepared, ready, proc, pubs, signalling, eventfd>>
  BY TakeCases DEF Before
<1>2. PublishersKnown'
  BY <1>1 DEF PublishersKnown, Before, WakeInv
<1>3. ASSUME NEW t \in DOMAIN subs', Waits(t)' PROVE Woken(t)'
  <2>1. /\ t \in DOMAIN subs /\ Waits(t) /\ Woken(t)
        /\ subs'[t].pid = subs[t].pid /\ subs'[t].qos = subs[t].qos
    BY <1>1, <1>3, HandOutWaits DEF Before, WakeInv
  <2> QED BY <1>1, <2>1 DEF Woken
<1> QED BY <1>2, <1>3

-----------------------------------------------------------------------------
\* Every step keeps WakeInv.
LEMMA WakeStep ==
  ASSUME Before, KeepsOneMessage, [Next]_vars
  PROVE  WakeInv'
<1> DEFINE Kept == PublishersKnown' /\ \A s \in DOMAIN subs' : Waits(s)' => Woken(s)'
<1>1. ASSUME NEW p \in Pids,
             \/ AddProcess(p) \/ ProcessDies(p) \/ agnocast_commit_exit_process(p)
             \/ AddEndpointFails(p)
      PROVE  Kept
  BY <1>1, ProcessWake
<1>2. ASSUME NEW p \in Pids, NEW i \in Ids,
             agnocast_process_exit_cleanup(p) \/ RemovePublisher(p, i)
               \/ RemoveSubscriber(p, i)
      PROVE  Kept
  BY <1>2, StructuralWake
<1>3. ASSUME NEW p \in Pids, NEW q \in PubQos, AddPublisher(p, q) PROVE Kept
  BY <1>3, AddPublisherWake
<1>4. ASSUME NEW p \in Pids, NEW q \in SubQos, AddSubscriber(p, q) PROVE Kept
  BY <1>4, AddSubscriberWake
<1>5. ASSUME NEW p \in Pids, NEW i \in Ids, Publish(p, i) PROVE Kept
  BY <1>5, PublishWake
<1>6. ASSUME NEW i \in Ids, PublishSignal(i) PROVE Kept
  BY <1>6, SignalWake
<1>7. ASSUME NEW p \in Pids, NEW s \in Ids, Receive(p, s) PROVE Kept
  BY <1>7, ReceiveWake
<1>8. ASSUME NEW p \in Pids, NEW s \in Ids, NEW same \in BOOLEAN, Take(p, s, same)
      PROVE  Kept
  BY <1>8, TakeWake
<1>9. ASSUME NEW p \in Pids, NEW s \in Ids, NEW e \in EntryIds, Release(p, s, e)
      PROVE  Kept
  BY <1>9, ReleaseWake
<1>10. ASSUME NEW p \in Pids, NEW s \in Ids, PrepareEpoll(p, s) \/ HandleEvent(p, s)
       PROVE  Kept
  BY <1>10, EpollWake
<1>11. ASSUME UNCHANGED vars PROVE Kept
  <2>1. /\ Part(pubs', subs', entries') /\ NoRevival /\ subObj' \subseteq subObj
        /\ PublishersKnown'
    BY <1>11, UnchangedPart DEF vars, NoRevival, PublishersKnown, Before, WakeInv
  <2>2. ASSUME NEW s \in DOMAIN subs', Woken(s) PROVE Woken(s)'
    BY <1>11, <2>2 DEF vars, Woken
  <2> QED BY <2>1, <2>2, FewerKeeps
<1>12. ASSUME NEW p \in Pids, agnocast_process_exit_cleanup(p), Ids # {} PROVE Kept
  BY <1>2, <1>12
<1>13. ASSUME NEW p \in Pids, agnocast_process_exit_cleanup(p), Ids = {} PROVE Kept
  <2>1. KernelInv'
    BY DEF Before
  <2>2. DOMAIN pubs' = {} /\ DOMAIN subs' = {}
    BY <1>13, <2>1 DEF KernelInv, TypeOK, IsPubTable, IsSubTable
  <2> QED BY <2>2 DEF PublishersKnown
<1> HIDE DEF Kept
<1>14. Kept
  BY <1>1, <1>2, <1>3, <1>4, <1>5, <1>6, <1>7, <1>8, <1>9, <1>10, <1>11, <1>12, <1>13
     DEF Next
<1> QED BY <1>14 DEF Kept, WakeInv, PublishersKnown

\* No wake-up is lost, for any number of processes, publishers and subscribers:
\* whenever a callback subscription has something to receive, its eventfd is
\* signalled, a receive is queued or due, or a publish is about to signal it.
THEOREM WakeUps ==
  ASSUME KeepsOneMessage
  PROVE  Spec => []NoLostWakeup
<1>1. Init => WakeInv
  BY EmptyType DEF Init, WakeInv, PublishersKnown
<1>2. KernelInv /\ KernelInv' /\ NotifyListsExact /\ WakeInv /\ [Next]_vars => WakeInv'
  BY WakeStep DEF Before, Exact, NotifyListsExact
<1>3. KernelInv /\ WakeInv => NoLostWakeup
  BY WaitsIsWants DEF WakeInv, NoLostWakeup, Woken
<1> QED BY <1>1, <1>2, <1>3, KernelInvariant, NotifyExact, PTL DEF Spec

=============================================================================
