------------------------------- MODULE Topic -------------------------------
(***************************************************************************)
(* One topic_struct of the agnocast kernel module and the user-space       *)
(* objects that refer to it: publishers and subscribers of several         *)
(* processes share a tree of message entries, each entry carrying the set  *)
(* of subscribers that hold a reference to it.  Two ROS domains paired by  *)
(* a domain bridge rule have one topic_wrapper each and share the struct.  *)
(*                                                                         *)
(* Every ioctl runs under global_htables_rwsem.  Structural operations     *)
(* take it for write; publish holds it for read until it has signalled the *)
(* eventfds of its subscribers, after it has already let go of the topic's *)
(* own lock.  Publishing is therefore two steps (Publish, PublishSignal)   *)
(* and a structural step waits until no publish is in flight.              *)
(***************************************************************************)
EXTENDS Integers, FiniteSets

CONSTANTS
  Pids,               \* processes; a pid is used by one process only
  Domains,            \* the ROS domains that share this topic_struct
  DomainOf,           \* the ROS_DOMAIN_ID a process registered with
  Crosses,            \* <<from, to>>: directions the domain bridge rule opens
  PubQos,             \* configurations a publisher may be created with
  SubQos,             \* configurations a subscription may be created with
  MaxTopicLocalId,    \* MAX_TOPIC_LOCAL_ID
  MaxPublisherNum,    \* MAX_PUBLISHER_NUM
  MaxSubscriberNum,   \* MAX_SUBSCRIBER_NUM
  MaxReceiveNum,      \* MAX_RECEIVE_NUM
  MaxReleaseNum,      \* MAX_RELEASE_NUM
  MaxEntryId,         \* bound: entry ids handed out during one struct's life
  MaxQueued,          \* bound: receives queued at once for one subscription
  HandlesOutlive,     \* a message handle may outlive its subscription
  DestroyWhileQueued  \* a subscription may be destroyed while an executor has
                      \* a receive queued for it

PubQosType == [depth : Nat, bridge : BOOLEAN]
SubQosType == [depth : Nat, tl : BOOLEAN, take : BOOLEAN,
               ignoreLocal : BOOLEAN, bridge : BOOLEAN]

ASSUME ConstantsAssumption ==
  /\ IsFiniteSet(Pids)
  /\ DomainOf \in [Pids -> Domains]
  /\ Crosses \subseteq Domains \X Domains
  /\ PubQos \subseteq PubQosType
  /\ SubQos \subseteq SubQosType
  /\ MaxTopicLocalId \in Nat
  /\ MaxPublisherNum \in Nat
  /\ MaxSubscriberNum \in Nat
  /\ MaxReceiveNum \in Nat \ {0}
  /\ MaxReleaseNum \in Nat \ {0}
  /\ MaxEntryId \in Nat
  /\ MaxQueued \in Nat \ {0}
  /\ HandlesOutlive \in BOOLEAN
  /\ DestroyWhileQueued \in BOOLEAN

\* topic_local_id_t: publishers and subscribers draw from one counter.
Ids == 0 .. (MaxTopicLocalId - 1)
EntryIds == 0 .. (MaxEntryId - 1)

VARIABLES
  \* Kernel state.
  proc,        \* proc_info_htable: "none", "alive", "exited" or, once the
               \* unlink daemon has drained it, "gone"
  wrappers,    \* domains that have a topic_wrapper
  pubs,        \* pub_info_htable: id -> publisher_info
  subs,        \* sub_info_htable: id -> subscriber_info
  entries,     \* the rbtree: entry_id -> entry_node
  nextId,      \* current_pubsub_id
  nextEntry,   \* current_entry_id
  signalling,  \* publishers whose publish has inserted but not yet signalled
  eventfd,     \* subscribers whose eventfd counter is non-zero
  \* User-space state.
  running,     \* processes that run
  pubObj,      \* live Publisher objects, <<pid, id>>
  subObj,      \* live Subscription and TakeSubscription objects, <<pid, id>>
  unprepared,  \* subscriptions whose eventfd is not in an epoll set yet
  ready,       \* receives queued for an executor, counted per <<pid, id>>
  held,        \* message handles not destroyed yet, <<pid, id, entry_id>>
  fatal,       \* processes the library ended after an ioctl failed
  \* History, for the properties only.
  delivered,   \* subscriber -> the entries of the tree it has been handed
  skipped      \* subscriber -> the entries of the tree it passed over, published
               \* before it joined or older than one it has been handed

historyVars == <<delivered, skipped>>
kernelVars == <<proc, wrappers, pubs, subs, entries, nextId, nextEntry,
                signalling, eventfd, historyVars>>
userVars == <<running, pubObj, subObj, unprepared, ready, held, fatal>>
vars == <<proc, wrappers, pubs, subs, entries, nextId, nextEntry, signalling,
          eventfd, running, pubObj, subObj, unprepared, ready, held, fatal,
          delivered, skipped>>
topicVars == <<wrappers, pubs, subs, entries, nextId, nextEntry, historyVars>>

PubInfo == [pid : Pids, qos : PubQos, num : Int, notify : SUBSET Ids]
SubInfo == [pid : Pids, qos : SubQos, latest : Int]
Entry == [pub : Ids, refs : SUBSET Ids]

IsPubTable(pb) == DOMAIN pb \subseteq Ids /\ pb \in [DOMAIN pb -> PubInfo]
IsSubTable(sb) == DOMAIN sb \subseteq Ids /\ sb \in [DOMAIN sb -> SubInfo]
IsEntryTree(ent) ==
  DOMAIN ent \subseteq EntryIds /\ ent \in [DOMAIN ent -> Entry]

Empty == [x \in {} |-> x]

Init ==
  /\ proc = [p \in Pids |-> "none"]
  /\ wrappers = {}
  /\ pubs = Empty
  /\ subs = Empty
  /\ entries = Empty
  /\ nextId = 0
  /\ nextEntry = 0
  /\ signalling = {}
  /\ eventfd = {}
  /\ running = {}
  /\ pubObj = {}
  /\ subObj = {}
  /\ unprepared = {}
  /\ ready = [o \in Pids \X Ids |-> 0]
  /\ held = {}
  /\ fatal = {}
  /\ delivered = Empty
  /\ skipped = Empty

-----------------------------------------------------------------------------
(* Helpers of the kernel module.                                           *)

domain_delivery_allowed(pub, sub) ==
  \/ DomainOf[pub.pid] = DomainOf[sub.pid]
  \/ /\ ~pub.qos.bridge
     /\ ~sub.qos.bridge
     /\ <<DomainOf[pub.pid], DomainOf[sub.pid]>> \in Crosses

\* A take subscription has no notify_ctx, so no publisher ever signals it.
rebuild_notify_list(pub, sb) ==
  {s \in DOMAIN sb :
     /\ ~sb[s].qos.take
     /\ domain_delivery_allowed(pub, sb[s])
     /\ ~(sb[s].qos.ignoreLocal /\ sb[s].pid = pub.pid)}

\* Mutant: a join or a leave does not rebuild the lists.
rebuild_all_notify_lists_skipped(pb, sb) == pb

rebuild_all_notify_lists(pb, sb) ==
  [i \in DOMAIN pb |-> [pb[i] EXCEPT !.notify = rebuild_notify_list(pb[i], sb)]]

\* Mutant: the direction of a domain bridge rule is not looked at.
is_entry_deliverable_any_domain(s, e) ==
  /\ entries[e].pub \in DOMAIN pubs
  /\ LET pub == pubs[entries[e].pub]
     IN  /\ proc[pub.pid] = "alive"
         /\ ~(subs[s].qos.ignoreLocal /\ subs[s].pid = pub.pid)

is_entry_deliverable(s, e) ==
  /\ entries[e].pub \in DOMAIN pubs
  /\ LET pub == pubs[entries[e].pub]
     IN  /\ proc[pub.pid] = "alive"
         /\ ~(subs[s].qos.ignoreLocal /\ subs[s].pid = pub.pid)
         /\ domain_delivery_allowed(pub, subs[s])

\* Mutant: references do not protect an entry.
agnocast_is_referenced_never(ent, e) == FALSE

agnocast_is_referenced(ent, e) == ent[e].refs # {}

OwnedBy(ent, i) == {e \in DOMAIN ent : ent[e].pub = i}

agnocast_remove_entry_node(ent, D) == [e \in DOMAIN ent \ D |-> ent[e]]

\* Mutant: a leaving subscriber's bits stay set.
clear_references_skipped(ent, S) == ent

clear_references(ent, S) ==
  [e \in DOMAIN ent |-> [ent[e] EXCEPT !.refs = @ \ S]]

add_subscriber_reference(ent, s, E) ==
  [e \in DOMAIN ent |->
     [ent[e] EXCEPT !.refs = IF e \in E THEN @ \cup {s} ELSE @]]

\* Mutant: entries are erased without touching entries_num.
Discharge_uncounted(pb, ent, D, F) ==
  [i \in {j \in DOMAIN pb : j \in F => pb[j].num # 0} |-> pb[i]]

\* Take the entries of D off their publishers' entries_num.  A publisher of F
\* that is left with none is freed.
Discharge(pb, ent, D, F) ==
  LET left(i) == pb[i].num - Cardinality(OwnedBy(ent, i) \cap D)
  IN  [i \in {j \in DOMAIN pb : j \in F => left(j) # 0} |->
         [pb[i] EXCEPT !.num = left(i)]]

\* Mutant: only subscribers keep a wrapper.
agnocast_wrapper_has_domain_endpoints_subs_only(d, pb, sb) ==
  \E s \in DOMAIN sb : DomainOf[sb[s].pid] = d

agnocast_wrapper_has_domain_endpoints(d, pb, sb) ==
  \/ \E i \in DOMAIN pb : DomainOf[pb[i].pid] = d
  \/ \E s \in DOMAIN sb : DomainOf[sb[s].pid] = d

\* Mutant: a live publisher's entries are collected too.
Abandoned_of_anyone(pr, pb, ent) ==
  {e \in DOMAIN ent : /\ ~agnocast_is_referenced(ent, e)
                      /\ ent[e].pub \in DOMAIN pb}

\* Entries nobody references any more and whose publisher's process is gone.
Abandoned(pr, pb, ent) ==
  {e \in DOMAIN ent : /\ ~agnocast_is_referenced(ent, e)
                      /\ ent[e].pub \in DOMAIN pb
                      /\ pr[pb[ent[e].pub].pid] # "alive"}

PublishersOf(ent, D) == {ent[e].pub : e \in D}

\* History: only the subscribers S and the entries E are left.  An id is not
\* used again while the struct lives, so what is erased cannot come back.
Remembers(S, E) ==
  /\ delivered' = [s \in S |-> delivered[s] \cap E]
  /\ skipped' = [s \in S |-> skipped[s] \cap E]

\* Install the tables pb, sb and ent and release the wrappers among D whose
\* domain is left without endpoints; the last wrapper takes the struct with it.
agnocast_release_topic_wrapper(D, pb, sb, ent) ==
  LET left == {d \in wrappers :
                 d \in D => agnocast_wrapper_has_domain_endpoints(d, pb, sb)}
  IN  /\ wrappers' = left
      /\ pubs' = IF left = {} THEN Empty ELSE pb
      /\ subs' = IF left = {} THEN Empty ELSE sb
      /\ entries' = IF left = {} THEN Empty ELSE ent
      /\ nextId' = IF left = {} THEN 0 ELSE nextId
      /\ nextEntry' = IF left = {} THEN 0 ELSE nextEntry
      /\ Remembers(DOMAIN subs', DOMAIN entries')

\* The subscribers S leave: clear their bits on every entry and collect what
\* only they kept alive of publishers whose process is gone.
LeaveTopic(pr, D, pb, sb, ent, S) ==
  LET cleared == clear_references(ent, S)
      dead == Abandoned(pr, pb, cleared)
  IN  agnocast_release_topic_wrapper(
        D, Discharge(pb, cleared, dead, PublishersOf(cleared, dead)), sb,
        agnocast_remove_entry_node(cleared, dead))

-----------------------------------------------------------------------------
(* Processes.                                                              *)

\* Structural ioctls hold global_htables_rwsem for write.
GlobalWrite == signalling = {}

AddProcess(p) ==
  /\ GlobalWrite
  /\ proc[p] = "none"
  /\ proc' = [proc EXCEPT ![p] = "alive"]
  /\ running' = running \cup {p}
  /\ UNCHANGED <<topicVars, signalling, eventfd, pubObj, subObj, unprepared,
                 ready, held, fatal>>

\* A process ends, and every object it owned with it.
Ends(p) ==
  /\ running' = running \ {p}
  /\ pubObj' = {o \in pubObj : o[1] # p}
  /\ subObj' = {o \in subObj : o[1] # p}
  /\ unprepared' = {o \in unprepared : o[1] # p}
  /\ ready' = [o \in Pids \X Ids |-> IF o[1] = p THEN 0 ELSE ready[o]]
  /\ held' = {h \in held : h[1] # p}

ProcessDies(p) ==
  /\ p \in running
  /\ Ends(p)
  /\ UNCHANGED <<kernelVars, fatal>>

\* The library's reaction to an ioctl error it does not expect:
\* close(agnocast_fd); exit(EXIT_FAILURE).
Aborts(p) ==
  /\ Ends(p)
  /\ fatal' = fatal \cup {p}

\* Mutant: the exit of any thread counts as the exit of the process.
LastThreadExited_any_thread(p) == TRUE

LastThreadExited(p) == p \notin running

agnocast_process_exit_cleanup(p) ==
  /\ GlobalWrite
  /\ LastThreadExited(p)
  /\ proc[p] = "alive"
  /\ proc' = [proc EXCEPT ![p] = "exited"]
  /\ LET mine    == {i \in DOMAIN pubs : pubs[i].pid = p}
         unread  == {e \in DOMAIN entries : /\ entries[e].pub \in mine
                                            /\ ~agnocast_is_referenced(entries, e)}
         pb      == Discharge(pubs, entries, unread, mine)
         ent     == agnocast_remove_entry_node(entries, unread)
         leaving == {s \in DOMAIN subs : subs[s].pid = p}
         sb      == [s \in DOMAIN subs \ leaving |-> subs[s]]
     IN  /\ IF leaving = {}
            THEN agnocast_release_topic_wrapper(Domains, pb, sb, ent)
            ELSE LeaveTopic(proc', Domains, rebuild_all_notify_lists(pb, sb),
                            sb, ent, leaving)
         /\ eventfd' = eventfd \ leaving
  /\ UNCHANGED <<signalling, userVars>>

\* The unlink daemon has unlinked the shared memory of p.
agnocast_commit_exit_process(p) ==
  /\ GlobalWrite
  /\ proc[p] = "exited"
  /\ proc' = [proc EXCEPT ![p] = "gone"]
  /\ UNCHANGED <<topicVars, signalling, eventfd, userVars>>

-----------------------------------------------------------------------------
(* Endpoints come and go.                                                  *)

\* Mutant: the last id plus one is handed out.
HasFreeId_off_by_one == nextId <= MaxTopicLocalId

HasFreeId == nextId < MaxTopicLocalId

add_topic(p) == wrappers' = wrappers \cup {DomainOf[p]}

AddPublisher(p, q) ==
  /\ GlobalWrite
  /\ p \in running
  /\ Cardinality(DOMAIN pubs) # MaxPublisherNum
  /\ HasFreeId
  /\ add_topic(p)
  /\ LET new == [pid |-> p, qos |-> q, num |-> 0, notify |-> {}]
         pub == [new EXCEPT !.notify = rebuild_notify_list(new, subs)]
     IN  pubs' = [i \in DOMAIN pubs \cup {nextId} |->
                    IF i = nextId THEN pub ELSE pubs[i]]
  /\ nextId' = nextId + 1
  /\ pubObj' = pubObj \cup {<<p, nextId>>}
  /\ UNCHANGED <<proc, subs, entries, nextEntry, signalling, eventfd, running,
                 subObj, unprepared, ready, held, fatal, historyVars>>

\* History: a new subscriber s, that shall not be handed the entries of E.
Joins(s, E) ==
  /\ delivered' = [t \in DOMAIN subs \cup {s} |-> IF t = s THEN {} ELSE delivered[t]]
  /\ skipped' = [t \in DOMAIN subs \cup {s} |-> IF t = s THEN E ELSE skipped[t]]

AddSubscriber(p, q) ==
  /\ GlobalWrite
  /\ p \in running
  /\ Cardinality(DOMAIN subs) # MaxSubscriberNum
  /\ HasFreeId
  /\ ~q.tl => nextEntry < MaxEntryId
  /\ add_topic(p)
  /\ LET sub == [pid |-> p, qos |-> q, latest |-> IF q.tl THEN -1 ELSE nextEntry]
         sb  == [s \in DOMAIN subs \cup {nextId} |->
                   IF s = nextId THEN sub ELSE subs[s]]
     IN  /\ subs' = sb
         /\ pubs' = IF q.take THEN pubs ELSE rebuild_all_notify_lists(pubs, sb)
  /\ Joins(nextId, IF q.tl THEN {} ELSE DOMAIN entries)
  /\ nextId' = nextId + 1
  /\ nextEntry' = IF q.tl THEN nextEntry ELSE nextEntry + 1
  /\ subObj' = subObj \cup {<<p, nextId>>}
  /\ unprepared' = IF q.take THEN unprepared
                   ELSE unprepared \cup {<<p, nextId>>}
  /\ UNCHANGED <<proc, entries, signalling, eventfd, running, pubObj, ready,
                 held, fatal>>

\* The insertion fails (a table is full, the ids are used up, no memory) when
\* add_topic has already made the wrapper; the process then exits.
AddEndpointFails(p) ==
  /\ GlobalWrite
  /\ p \in running
  /\ add_topic(p)
  /\ Ends(p)
  /\ UNCHANGED <<proc, pubs, subs, entries, nextId, nextEntry, signalling,
                 eventfd, fatal, historyVars>>

RemovePublisher(p, i) ==
  /\ GlobalWrite
  /\ <<p, i>> \in pubObj
  /\ pubObj' = pubObj \ {<<p, i>>}
  /\ IF DomainOf[p] \in wrappers /\ i \in DOMAIN pubs
     THEN LET unread == {e \in OwnedBy(entries, i) :
                           ~agnocast_is_referenced(entries, e)}
          IN  agnocast_release_topic_wrapper(
                {DomainOf[p]}, Discharge(pubs, entries, unread, {i}), subs,
                agnocast_remove_entry_node(entries, unread))
     ELSE UNCHANGED topicVars
  /\ UNCHANGED <<proc, signalling, eventfd, running, subObj, unprepared, ready,
                 held, fatal>>

RemoveSubscriber(p, s) ==
  /\ GlobalWrite
  /\ <<p, s>> \in subObj
  /\ HandlesOutlive \/ \A h \in held : <<h[1], h[2]>> # <<p, s>>
  /\ DestroyWhileQueued \/ ready[<<p, s>>] = 0
  /\ subObj' = subObj \ {<<p, s>>}
  /\ unprepared' = unprepared \ {<<p, s>>}
  /\ IF DomainOf[p] \in wrappers /\ s \in DOMAIN subs
     THEN LET sb == [t \in DOMAIN subs \ {s} |-> subs[t]]
              pb == IF subs[s].qos.take THEN pubs
                    ELSE rebuild_all_notify_lists(pubs, sb)
          IN  /\ LeaveTopic(proc, {DomainOf[p]}, pb, sb, entries, {s})
              /\ eventfd' = eventfd \ {s}
     ELSE UNCHANGED <<topicVars, eventfd>>
  /\ UNCHANGED <<proc, signalling, running, pubObj, ready, held, fatal>>

-----------------------------------------------------------------------------
(* Publishing.                                                             *)

Rank(e, E) == Cardinality({f \in E : f < e})

\* The entries release_msgs_to_meet_depth looks at when own are the entries of
\* the publisher, num its entries_num: it walks from the oldest, over as many
\* as exceed the depth, and stops early once it has released MaxReleaseNum.
Searched(ent, own, num, depth) ==
  {e \in own : /\ Rank(e, own) < num - depth
               /\ Rank(e, {f \in own : ~agnocast_is_referenced(ent, f)})
                    < MaxReleaseNum}

publish_error(p, i) ==
  \/ DomainOf[p] \notin wrappers
  \/ i \notin DOMAIN pubs
  \/ proc[pubs[i].pid] \notin {"alive", "exited"}

\* insert_message_entry and release_msgs_to_meet_depth.  The walk may not
\* arrive at the newest entry of the tree, which is the one just inserted:
\* the kernel calls that unreachable and fails the ioctl with -ENODATA.
Publish(p, i) ==
  /\ <<p, i>> \in pubObj
  /\ nextEntry < MaxEntryId
  /\ IF publish_error(p, i)
     THEN Aborts(p) /\ UNCHANGED kernelVars
     ELSE LET ent == [e \in DOMAIN entries \cup {nextEntry} |->
                        IF e = nextEntry THEN [pub |-> i, refs |-> {}]
                        ELSE entries[e]]
              seen == Searched(ent, OwnedBy(ent, i), pubs[i].num + 1,
                               pubs[i].qos.depth)
              released == {e \in seen \ {nextEntry} :
                             ~agnocast_is_referenced(ent, e)}
          IN  /\ entries' = agnocast_remove_entry_node(ent, released)
              /\ pubs' = [pubs EXCEPT ![i].num =
                                        @ + 1 - Cardinality(released)]
              /\ nextEntry' = nextEntry + 1
              /\ IF nextEntry \in seen
                 THEN Aborts(p) /\ UNCHANGED signalling
                 ELSE /\ signalling' = signalling \cup {i}
                      /\ UNCHANGED userVars
              /\ Remembers(DOMAIN subs, DOMAIN entries')
              /\ UNCHANGED <<proc, wrappers, subs, nextId, eventfd>>

\* The second half of the ioctl, after the topic lock is released.
PublishSignal(i) ==
  /\ i \in signalling
  /\ signalling' = signalling \ {i}
  /\ eventfd' = eventfd \cup pubs[i].notify
  /\ UNCHANGED <<proc, topicVars, userVars>>

-----------------------------------------------------------------------------
(* Receiving.                                                              *)

\* The n newest and the n oldest members of a set of entry ids.
Newest(E, n) == {e \in E : Cardinality({f \in E : f > e}) < n}
Oldest(E, n) == {e \in E : Cardinality({f \in E : f < e}) < n}

\* The walk back from the newest entry meets an entry without a publisher.
MeetsOrphan(s, E) ==
  \E e \in E : /\ entries[e].pub \notin DOMAIN pubs
               /\ Cardinality({f \in E : f > e /\ is_entry_deliverable(s, f)})
                    < subs[s].qos.depth

NotFound(p, s) == DomainOf[p] \notin wrappers \/ s \notin DOMAIN subs

\* Mutant: the search starts at the entry received last.
Unreceived_inclusive(s) == {e \in DOMAIN entries : e >= subs[s].latest}

Unreceived(s) == {e \in DOMAIN entries : e > subs[s].latest}

\* Up to qos_depth of the newest deliverable entries that were not received.
ReceiveWindow(s) ==
  Newest({e \in Unreceived(s) : is_entry_deliverable(s, e)}, subs[s].qos.depth)

\* Entries that get this subscriber's bit before one is found to carry it.
Claimable(s, E) ==
  {e \in E : \A f \in E : f <= e => s \notin entries[f].refs}

MaxOf(E) == CHOOSE e \in E : \A f \in E : f <= e
MinOf(E) == CHOOSE e \in E : \A f \in E : e <= f

\* Mutant: the caller is never told that more is waiting.
ret_call_again_never(batch, window) == FALSE

ret_call_again(batch, window) == batch # window

\* Mutant: a batch that is cut off moves the watermark past the rest as well.
latest_received_past_cut(s, batch) ==
  IF batch = {} THEN subs[s].latest ELSE MaxOf(ReceiveWindow(s))

\* The watermark after a receive: the last entry that was handed out.
latest_received(s, batch) ==
  IF batch = {} THEN subs[s].latest ELSE MaxOf(batch)

\* History: subscriber s is handed the entries of E.  What is older and still
\* in the tree it will not be handed any more.
Delivers(s, E) ==
  /\ delivered' = [delivered EXCEPT ![s] = @ \cup E]
  /\ skipped' = [skipped EXCEPT ![s] = @ \cup
                   {e \in DOMAIN entries \ (delivered[s] \cup E) :
                      \E f \in E : e < f}]

\* receive_and_execute_message, run by an executor.
Receive(p, s) ==
  /\ ready[<<p, s>>] > 0
  /\ IF NotFound(p, s)
     THEN Aborts(p) /\ UNCHANGED <<entries, subs, historyVars>>
     ELSE LET window == ReceiveWindow(s)
              batch  == Oldest(window, MaxReceiveNum)
              got    == Claimable(s, batch)
          IN  /\ entries' = add_subscriber_reference(entries, s, got)
              /\ IF got # batch \/ MeetsOrphan(s, Unreceived(s))
                 THEN Aborts(p) /\ UNCHANGED <<subs, historyVars>>
                 ELSE /\ subs' = [subs EXCEPT ![s].latest =
                                    latest_received(s, batch)]
                      /\ Delivers(s, batch)
                      /\ held' = held \cup {<<p, s, e>> : e \in batch}
                      /\ ready' = [ready EXCEPT ![<<p, s>>] =
                                     IF ret_call_again(batch, window)
                                     THEN @ ELSE @ - 1]
                      /\ UNCHANGED <<running, pubObj, subObj, unprepared, fatal>>
  /\ UNCHANGED <<proc, wrappers, pubs, nextId, nextEntry, signalling, eventfd>>

\* take(same).  The subscriber's bit may already be set on the entry it takes
\* only when it asked for the same message again.
Take(p, s, same) ==
  /\ <<p, s>> \in subObj
  /\ s \in DOMAIN subs => subs[s].qos.take
  /\ IF NotFound(p, s)
     THEN Aborts(p) /\ UNCHANGED <<entries, subs, historyVars>>
     ELSE LET scanned == {e \in DOMAIN entries : \/ e > subs[s].latest
                                                 \/ same /\ e = subs[s].latest}
              window  == Newest({e \in scanned : is_entry_deliverable(s, e)},
                                subs[s].qos.depth)
              chosen  == IF window = {} THEN {} ELSE {MinOf(window)}
          IN  IF \/ MeetsOrphan(s, scanned)
                 \/ ~same /\ Claimable(s, chosen) # chosen
              THEN Aborts(p) /\ UNCHANGED <<entries, subs, historyVars>>
              ELSE /\ entries' = add_subscriber_reference(entries, s, chosen)
                   /\ subs' = [subs EXCEPT ![s].latest =
                                 IF chosen = {} THEN @ ELSE MinOf(window)]
                   /\ Delivers(s, chosen)
                   /\ held' = held \cup {<<p, s, e>> : e \in chosen}
                   /\ UNCHANGED <<running, pubObj, subObj, unprepared, ready,
                                  fatal>>
  /\ UNCHANGED <<proc, wrappers, pubs, nextId, nextEntry, signalling, eventfd>>

\* The last copy of a message handle is destroyed.
Release(p, s, e) ==
  /\ <<p, s, e>> \in held
  /\ IF \/ DomainOf[p] \notin wrappers
        \/ e \notin DOMAIN entries
        \/ s \notin entries[e].refs
     THEN Aborts(p) /\ UNCHANGED entries
     ELSE /\ entries' = [entries EXCEPT ![e].refs = @ \ {s}]
          /\ held' = held \ {<<p, s, e>>}
          /\ UNCHANGED <<running, pubObj, subObj, unprepared, ready, fatal>>
  /\ UNCHANGED <<proc, wrappers, pubs, subs, nextId, nextEntry, signalling,
                 eventfd, historyVars>>

\* An executor adds the eventfd to its epoll set.  A transient-local
\* subscription is due a first receive, nobody will signal it for the past.
PrepareEpoll(p, s) ==
  /\ <<p, s>> \in unprepared
  /\ ready[<<p, s>>] < MaxQueued
  /\ unprepared' = unprepared \ {<<p, s>>}
  /\ ready' = IF s \in DOMAIN subs /\ subs[s].qos.tl
              THEN [ready EXCEPT ![<<p, s>>] = @ + 1] ELSE ready
  /\ UNCHANGED <<kernelVars, running, pubObj, subObj, held, fatal>>

\* epoll reports the eventfd: drain it, queue a receive.
HandleEvent(p, s) ==
  /\ <<p, s>> \in subObj \ unprepared
  /\ s \in eventfd
  /\ ready[<<p, s>>] < MaxQueued
  /\ eventfd' = eventfd \ {s}
  /\ ready' = [ready EXCEPT ![<<p, s>>] = @ + 1]
  /\ UNCHANGED <<proc, topicVars, signalling, running, pubObj, subObj,
                 unprepared, held, fatal>>

-----------------------------------------------------------------------------
Next ==
  \/ \E p \in Pids :
       \/ AddProcess(p)
       \/ ProcessDies(p)
       \/ agnocast_process_exit_cleanup(p)
       \/ agnocast_commit_exit_process(p)
       \/ AddEndpointFails(p)
       \/ \E q \in PubQos : AddPublisher(p, q)
       \/ \E q \in SubQos : AddSubscriber(p, q)
       \/ \E i \in Ids :
            \/ RemovePublisher(p, i)
            \/ RemoveSubscriber(p, i)
            \/ Publish(p, i)
            \/ Receive(p, i)
            \/ \E same \in BOOLEAN : Take(p, i, same)
            \/ \E e \in EntryIds : Release(p, i, e)
            \/ PrepareEpoll(p, i)
            \/ HandleEvent(p, i)
  \/ \E i \in Ids : PublishSignal(i)

Spec == Init /\ [][Next]_vars

\* An executor keeps preparing, waiting and running what is queued, and a
\* publish that has inserted its entry goes on to signal.
Fairness ==
  /\ \A i \in Ids : WF_vars(PublishSignal(i))
  /\ \A p \in Pids : \A s \in Ids :
       /\ WF_vars(PrepareEpoll(p, s))
       /\ WF_vars(HandleEvent(p, s))
       /\ WF_vars(Receive(p, s))

FairSpec == Spec /\ Fairness

-----------------------------------------------------------------------------
(* Correctness.                                                            *)

\* Every table holds what its kernel structure declares and every user-space
\* object belongs to a process of the system; WatermarkExact types the history.
TypeOK ==
  /\ proc \in [Pids -> {"none", "alive", "exited", "gone"}]
  /\ wrappers \subseteq Domains
  /\ IsPubTable(pubs)
  /\ IsSubTable(subs)
  /\ IsEntryTree(entries)
  /\ nextId \in 0 .. MaxTopicLocalId
  /\ nextEntry \in 0 .. MaxEntryId
  /\ signalling \subseteq Ids
  /\ eventfd \subseteq Ids
  /\ running \subseteq Pids
  /\ pubObj \subseteq Pids \X Ids
  /\ subObj \subseteq Pids \X Ids
  /\ unprepared \subseteq Pids \X Ids
  /\ ready \in [Pids \X Ids -> Nat]
  /\ held \subseteq Pids \X Ids \X EntryIds
  /\ fatal \subseteq Pids

\* entries_num of a publisher_info is the number of its entries in the tree,
\* and the publisher of every entry is still in the table: the two
\* "Unreachable" warnings of release_msgs_to_meet_depth and
\* is_entry_deliverable rest on this.
Accounted(pb, ent) ==
  /\ \A i \in DOMAIN pb : pb[i].num = Cardinality(OwnedBy(ent, i))
  /\ \A e \in DOMAIN ent : ent[e].pub \in DOMAIN pb

EntriesAccounted == Accounted(pubs, entries)

\* A reference bit belongs to a registered subscriber that has already been
\* handed the entry, so receive_msg_core never fails with -EALREADY and no bit
\* of a subscriber that left keeps an entry alive.
BelowWatermark(sb, ent) ==
  \A e \in DOMAIN ent : \A s \in ent[e].refs :
    s \in DOMAIN sb /\ e <= sb[s].latest

RefsBelowWatermark == BelowWatermark(subs, entries)

\* latest_received_entry_id of a subscriber tells exactly which entries of the
\* tree are behind it: those it was handed and those it passed over; every
\* entry still to be published lies beyond it.
WatermarkExact ==
  /\ DOMAIN delivered = DOMAIN subs
  /\ DOMAIN skipped = DOMAIN subs
  /\ \A s \in DOMAIN subs :
       /\ delivered[s] \cup skipped[s] = {e \in DOMAIN entries : e <= subs[s].latest}
       /\ \A e \in skipped[s] : e < subs[s].latest
       /\ subs[s].latest < nextEntry

\* Memory safety of zero-copy delivery: as long as a process has a handle to a
\* message, the kernel keeps the entry and the subscriber's reference to it, so
\* no publish hands the address back for deletion.
HeldIsReferenced ==
  \A h \in held : h[3] \in DOMAIN entries /\ h[2] \in entries[h[3]].refs

\* The cached notify lists name exactly the subscribers that a publish of
\* this publisher has to wake.
NotifyListsExact ==
  \A i \in DOMAIN pubs : pubs[i].notify = rebuild_notify_list(pubs[i], subs)

\* Wants(s): callback subscription s of a running process has something to
\* receive.
Wants(s) ==
  /\ ~subs[s].qos.take
  /\ <<subs[s].pid, s>> \in subObj
  /\ ReceiveWindow(s) # {}

\* No lost wake-up: a callback subscription with something to receive has a
\* signal on its eventfd, a receive queued, a first receive due, or a publish
\* in flight that is about to signal it.
NoLostWakeup ==
  \A s \in DOMAIN subs : Wants(s) =>
    \/ s \in eventfd
    \/ ready[<<subs[s].pid, s>>] > 0
    \/ subs[s].qos.tl /\ <<subs[s].pid, s>> \in unprepared
    \/ \E i \in signalling : s \in pubs[i].notify

\* No ioctl fails on a process that uses the library as documented: the
\* library never ends a process with exit(EXIT_FAILURE).
NoFatalExit == fatal = {}

\* The domain of every endpoint has a wrapper and its id was handed out by this
\* struct, and the kernel has a record for every object of the library:
\* releasing the last wrapper tears down no live endpoint, no lookup by an
\* object's id finds somebody else, and no new entry lands on an old one.
Reachable(w, pb, sb) ==
  /\ \A i \in DOMAIN pb : DomainOf[pb[i].pid] \in w
  /\ \A s \in DOMAIN sb : DomainOf[sb[s].pid] \in w

EndpointsReachable ==
  /\ Reachable(wrappers, pubs, subs)
  /\ \A i \in DOMAIN pubs \cup DOMAIN subs : i < nextId
  /\ \A e \in DOMAIN entries : e < nextEntry
  /\ \A o \in pubObj : o[2] \in DOMAIN pubs /\ pubs[o[2]].pid = o[1]
  /\ \A o \in subObj : o[2] \in DOMAIN subs /\ subs[o[2]].pid = o[1]
  /\ signalling \subseteq DOMAIN pubs

\* The kernel gives up a process only after its last thread has exited, and
\* objects belong to processes that run.
OwnersRun ==
  /\ \A p \in running : proc[p] = "alive"
  /\ \A o \in pubObj \cup subObj : o[1] \in running

\* The tables of the topic agree with each other and with the objects of the library:
\* entry counts with entries, references and history with watermarks, endpoints with
\* wrappers, ids and processes, cached notify lists with the subscribers a publish
\* has to wake.
KernelConsistent ==
  /\ TypeOK
  /\ EntriesAccounted
  /\ RefsBelowWatermark
  /\ WatermarkExact
  /\ EndpointsReachable
  /\ OwnersRun
  /\ NotifyListsExact

\* In a program that destroys a subscription last, every message handle and
\* every queued receive belongs to a subscription that still exists.
UsesBacked ==
  /\ \A h \in held : <<h[1], h[2]>> \in subObj
  /\ \A o \in DOMAIN ready : ready[o] > 0 => o \in subObj
  /\ unprepared \subseteq subObj

\* Isolation: a subscriber holds a reference only to messages of publishers in
\* its own domain or in one the rule lets through (never across domains from or
\* to a bridge endpoint), and not to its own process's if it ignores those.
OnlyFromAllowedPublishers ==
  \A e \in DOMAIN entries : \A s \in entries[e].refs :
    LET pub == pubs[entries[e].pub]
        sub == subs[s]
    IN  /\ sub.qos.ignoreLocal => pub.pid # sub.pid
        /\ DomainOf[pub.pid] # DomainOf[sub.pid] =>
             /\ <<DomainOf[pub.pid], DomainOf[sub.pid]>> \in Crosses
             /\ ~pub.qos.bridge /\ ~sub.qos.bridge

\* History depth: a step takes an entry away from a live publisher object only
\* if at least qos_depth newer entries of that publisher remain.
KeepsHistory ==
  [][\A e \in DOMAIN entries \ DOMAIN entries' :
       LET i == entries[e].pub
       IN  (\E p \in Pids : <<p, i>> \in pubObj /\ <<p, i>> \in pubObj')
           => Cardinality({f \in OwnedBy(entries', i) : f > e})
                >= pubs[i].qos.depth]_vars

\* What subscriber s still has to be handed: the entries it could be handed
\* that are neither delivered nor skipped.
Pending(s) ==
  {e \in DOMAIN entries \ (delivered[s] \cup skipped[s]) :
     is_entry_deliverable(s, e)}

\* The step hands s no entry twice, none that it skipped and none out of order;
\* take(true) may repeat the one it took last.
OnceAndInOrder(s) ==
  \A e \in DOMAIN entries \cap DOMAIN entries' :
    s \in entries'[e].refs \ entries[e].refs =>
      /\ e \notin skipped[s]
      /\ \A f \in delivered[s] : f < e \/ (f = e /\ subs[s].qos.take)

\* The step skips an entry only if qos_depth newer ones are pending.
SkipsOnlyOverDepth(s) ==
  \A e \in skipped'[s] \ skipped[s] :
    is_entry_deliverable(s, e) =>
      Cardinality({f \in Pending(s) : f > e}) >= subs[s].qos.depth

\* The step is a receive of s that is not to be called again.
ReceiveEnds(s) ==
  /\ ready'[<<subs[s].pid, s>>] < ready[<<subs[s].pid, s>>]
  /\ subs[s].pid \in running'

\* Exact delivery, by the history of what each subscriber was handed and passed
\* over: once, in publication order, passing over an entry only if qos_depth
\* newer ones are pending; and when no further receive is to follow, nothing is
\* pending, so that a batch cut off at MAX_RECEIVE_NUM loses nothing.
DeliveredOnceWithoutLoss ==
  [][\A s \in DOMAIN subs \cap DOMAIN subs' :
       /\ OnceAndInOrder(s)
       /\ SkipsOnlyOverDepth(s)
       /\ ReceiveEnds(s) /\ subs[s].qos.depth # 0 => Pending(s)' = {}]_vars

\* Delivery: an entry that a callback subscription is due does not stay due
\* for ever.  It is received, or pushed out by newer ones, or one of the two
\* ends goes away.
Due(s, e) == s \in DOMAIN subs /\ Wants(s) /\ e \in ReceiveWindow(s)

EventuallyReceived ==
  \A s \in Ids : \A e \in EntryIds : Due(s, e) ~> ~Due(s, e)

\* The kernel module and the library together implement the lifetime of
\* shared messages: a live entry of the tree is a live message, a handle is a
\* reader's claim to it.
Lifetime == INSTANCE MessageLifetime WITH
  Messages <- EntryIds,
  Readers <- Pids \X Ids,
  live <- DOMAIN entries,
  claims <- {<<<<h[1], h[2]>>, h[3]>> : h \in held}

\* The topic implements MessageLifetime: no message disappears under a reader,
\* and a reader only ever obtains a message that is still there.
ImplementsLifetime == Lifetime!Spec
=============================================================================
