--------------------------- MODULE ExecutorProofs ---------------------------
(***************************************************************************)
(* What Executor promises for any number of threads, callback groups,      *)
(* subscriptions and timers.                                               *)
(***************************************************************************)
EXTENDS Executor, TLAPS, FiniteSetTheorems, FunctionTheorems, WellFoundedInduction

Stages == {"none", "created", "inserted", "registered", "erased", "gone"}

\* Where a thread works on a source, and where it runs its callback.
Holding == {"handle", "drain", "run", "called"}
Running == {"run", "called"}

PCs == {"out", "top", "prepare", "pick", "wait", "retry"} \cup Holding

-----------------------------------------------------------------------------
(* Types.                                                                  *)

SourceTypes ==
    /\ stage \in [Sources -> Stages]
    /\ need \in [Sources -> BOOLEAN]
    /\ fd \in [Subs -> Fds \cup {0}]
    /\ event \in [Fds \cup Timers -> BOOLEAN]
    /\ unread \in [Sources -> Nat]
    /\ sends \in Nat

OwnTypes == node \subseteq Execs /\ created \subseteq Groups /\ assoc \in [Execs -> SUBSET Groups]

ExecTypes ==
    /\ epoll \in [Execs -> SUBSET Sources]
    /\ update \in [Execs -> BOOLEAN]
    /\ ready \in [Execs -> Seq(Sources)]
    /\ takeable \in [Groups -> BOOLEAN]

ThreadTypes ==
    /\ pc \in [Threads -> PCs]
    /\ hand \in [Threads -> Sources \cup {NoSource}]
    /\ \A t \in Threads : pc[t] \in Holding => hand[t] \in Sources

KindTypes == kind \in [Execs -> {"only", "mixed", "dedicated"}]

Types == SourceTypes /\ OwnTypes /\ ExecTypes /\ ThreadTypes /\ KindTypes

\* The types hold at first.
LEMMA TypesInit == Init => Types
<1> USE ExecutorAssumption
<1>1. Init => SourceTypes
  BY DEF Init, SourceTypes, Stages
<1>2. Init => OwnTypes /\ KindTypes
  BY DEF Init, OwnTypes, KindTypes
<1>3. Init => ExecTypes
  BY DEF Init, ExecTypes
<1>4. Init => ThreadTypes
  BY DEF Init, ThreadTypes, PCs, Holding
<1> QED  BY <1>1, <1>2, <1>3, <1>4 DEF Types

-----------------------------------------------------------------------------
(* The operators on the vector of ready executables.                       *)

\* The entries of a sequence.
Entries(q) == {q[i] : i \in DOMAIN q}

\* Appending loses nothing.
LEMMA EntriesAppend ==
    ASSUME NEW q \in Seq(Sources), NEW s \in Sources
    PROVE  Append(q, s) \in Seq(Sources) /\ Entries(Append(q, s)) = Entries(q) \cup {s}
<1>1. /\ Len(q) \in Nat /\ DOMAIN q = 1 .. Len(q)
      /\ Append(q, s) \in Seq(Sources) /\ DOMAIN Append(q, s) = 1 .. (Len(q) + 1)
      /\ \A i \in 1 .. Len(q) : Append(q, s)[i] = q[i]
      /\ Append(q, s)[Len(q) + 1] = s
  OBVIOUS
<1> QED  BY <1>1 DEF Entries

\* Nor does concatenation.
LEMMA EntriesConcat ==
    ASSUME NEW q \in Seq(Sources), NEW r \in Seq(Sources)
    PROVE  q \o r \in Seq(Sources) /\ Entries(q \o r) = Entries(q) \cup Entries(r)
<1>1. /\ Len(q) \in Nat /\ DOMAIN q = 1 .. Len(q)
      /\ Len(r) \in Nat /\ DOMAIN r = 1 .. Len(r)
      /\ q \o r \in Seq(Sources) /\ DOMAIN (q \o r) = 1 .. (Len(q) + Len(r))
      /\ \A i \in 1 .. Len(q) : (q \o r)[i] = q[i]
      /\ \A i \in 1 .. Len(r) : (q \o r)[Len(q) + i] = r[i]
  OBVIOUS
<1>2. \A i \in DOMAIN (q \o r) : (q \o r)[i] \in Entries(q) \cup Entries(r)
  <2> TAKE i \in DOMAIN (q \o r)
  <2>1. CASE i <= Len(q)
    BY <1>1, <2>1 DEF Entries
  <2>2. CASE i > Len(q)
    <3>1. i - Len(q) \in 1 .. Len(r) /\ i = Len(q) + (i - Len(q))
      BY <1>1, <2>2
    <3> QED  BY <1>1, <3>1 DEF Entries
  <2> QED  BY <1>1, <2>1, <2>2
<1>3. Entries(q) \cup Entries(r) \subseteq Entries(q \o r)
  <2>1. Entries(q) \subseteq Entries(q \o r)
    BY <1>1 DEF Entries
  <2>2. ASSUME NEW j \in 1 .. Len(r) PROVE r[j] \in Entries(q \o r)
    <3>1. Len(q) + j \in DOMAIN (q \o r)
      BY <1>1
    <3> QED  BY <1>1, <3>1 DEF Entries
  <2> QED  BY <1>1, <2>1, <2>2 DEF Entries
<1> QED  BY <1>1, <1>2, <1>3 DEF Entries

\* Taking an executable out of the vector loses only that one.
LEMMA EntriesDropAt ==
    ASSUME NEW q \in Seq(Sources), NEW i \in DOMAIN q
    PROVE  /\ DropAt(q, i) \in Seq(Sources)
           /\ Entries(q) \subseteq Entries(DropAt(q, i)) \cup {q[i]}
<1> DEFINE a == SubSeq(q, 1, i - 1)
           b == SubSeq(q, i + 1, Len(q))
<1>1. Len(q) \in Nat /\ DOMAIN q = 1 .. Len(q) /\ i \in 1 .. Len(q)
  OBVIOUS
<1>2. /\ a \in Seq(Sources) /\ Len(a) = i - 1
      /\ \A j \in 1 .. (i - 1) : a[j] = q[j]
  BY <1>1
<1>3. /\ b \in Seq(Sources) /\ Len(b) = Len(q) - i
      /\ \A j \in 1 .. (Len(q) - i) : b[j] = q[i + j]
  BY <1>1
<1>4. DropAt(q, i) = a \o b
  BY DEF DropAt
<1> HIDE DEF a, b
<1>5. DropAt(q, i) \in Seq(Sources) /\ Entries(DropAt(q, i)) = Entries(a) \cup Entries(b)
  BY <1>2, <1>3, <1>4, EntriesConcat
<1>6. ASSUME NEW j \in 1 .. Len(q), j # i PROVE q[j] \in Entries(a) \cup Entries(b)
  <2>1. CASE j < i
    <3>1. j \in DOMAIN a /\ a[j] = q[j]
      BY <1>1, <1>2, <2>1
    <3> QED  BY <3>1 DEF Entries
  <2>2. CASE j > i
    <3>1. j - i \in DOMAIN b /\ b[j - i] = q[j]
      BY <1>1, <1>3, <2>2
    <3> QED  BY <3>1 DEF Entries
  <2> QED  BY <1>1, <1>6, <2>1, <2>2
<1> QED  BY <1>1, <1>5, <1>6 DEF Entries

\* The iteration over a table meets every source that is in it.
LEMMA OrdersComplete ==
    ASSUME NEW S \in SUBSET Sources, NEW f \in Orders(S)
    PROVE  f \in Seq(Sources) /\ Entries(f) = S
<1> DEFINE n == Cardinality(S)
<1>1. IsFiniteSet(S) /\ n \in Nat
  BY ExecutorAssumption, FS_Subset, FS_CardinalityType
<1>2. f \in [1 .. n -> S] /\ \A i, j \in 1 .. n : f[i] = f[j] => i = j
  BY DEF Orders
<1> HIDE DEF n
<1>3. f \in Injection(1 .. n, S)
  BY <1>2, Fun_IsInj
<1>4. Cardinality(1 .. n) = n
  BY <1>1, FS_Interval
<1>5. f \in Surjection(1 .. n, S)
  BY <1>1, <1>3, <1>4, FS_Injection DEF n
<1>6. \A s \in S : \E i \in 1 .. n : f[i] = s
  BY <1>5 DEF Surjection
<1>7. f \in Seq(Sources)
  BY <1>1, <1>2
<1> QED  BY <1>2, <1>6, <1>7 DEF Entries

\* The first runnable executable is one of the vector's.
LEMMA FirstRunnable ==
    ASSUME NEW q \in Seq(Sources), NEW R \in SUBSET DOMAIN q, R # {}
    PROVE  (CHOOSE i \in R : \A j \in R : i <= j) \in R
<1>1. R \subseteq Nat
  OBVIOUS
<1>2. IsWellFoundedOn(OpToRel(<, Nat), Nat)
  BY NatLessThanWellFounded
<1>3. \E k \in R : \A j \in R : <<j, k>> \notin OpToRel(<, Nat)
  BY <1>1, <1>2, WFMin
<1>4. PICK k \in R : \A j \in R : <<j, k>> \notin OpToRel(<, Nat)
  BY <1>3
<1>5. \A j \in R : ~(j < k)
  BY <1>1, <1>4 DEF OpToRel
<1>6. \A j \in R : k <= j
  BY <1>1, <1>5
<1> QED  BY <1>6

-----------------------------------------------------------------------------
(* The types are preserved.                                                *)

\* The application's steps keep the types.
LEMMA TypesApplication ==
    ASSUME Types, Application
    PROVE  Types'
<1> USE ExecutorAssumption
        DEF sourceVars, ownVars, execVars, threadVars, runVars
<1>1. ASSUME NEW g \in Groups, CreateGroup(g) PROVE Types'
  BY <1>1 DEF CreateGroup, Types, SourceTypes, OwnTypes, ExecTypes, ThreadTypes, KindTypes
<1>2. ASSUME NEW x \in Execs, AddNode(x) \/ RemoveNode(x)
             \/ \E g \in Groups : AddCallbackGroup(x, g) \/ RemoveCallbackGroup(x, g)
      PROVE  Types'
  <2>1. /\ UNCHANGED <<sourceVars, created, epoll, ready, takeable, threadVars, runVars>>
        /\ update' \in {update, [update EXCEPT ![x] = TRUE]}
    BY <1>2 DEF AddNode, RemoveNode, AddCallbackGroup, RemoveCallbackGroup
  <2>2. node' \subseteq Execs /\ assoc' \in [Execs -> SUBSET Groups]
    BY <1>2 DEF AddNode, RemoveNode, AddCallbackGroup, RemoveCallbackGroup, Types, OwnTypes
  <2> QED
    BY <2>1, <2>2 DEF Types, SourceTypes, OwnTypes, ExecTypes, ThreadTypes, KindTypes
<1>3. ASSUME NEW x \in Execs, Spin(x) \/ Cancel(x) PROVE Types'
  <2>1. UNCHANGED <<hand, kind, sourceVars, ownVars, execVars>>
    BY <1>3 DEF Spin, Cancel
  <2>2. ThreadTypes'
    BY <1>3 DEF Spin, Cancel, Types, ThreadTypes, PCs, Holding
  <2> QED
    BY <2>1, <2>2 DEF Types, SourceTypes, OwnTypes, ExecTypes, KindTypes
<1>4. ASSUME NEW s \in Subs, CreateSubscription(s) PROVE Types'
  <2>1. UNCHANGED <<need, ownVars, execVars, threadVars, kind>>
    BY <1>4 DEF CreateSubscription
  <2>2. s \in Sources /\ stage' \in [Sources -> Stages]
    BY <1>4 DEF CreateSubscription, Types, SourceTypes, Sources, Stages
  <2>3. fd' \in [Subs -> Fds \cup {0}] /\ event' \in [Fds \cup Timers -> BOOLEAN]
    BY <1>4 DEF CreateSubscription, Types, SourceTypes
  <2>4. unread' \in [Sources -> Nat] /\ sends' \in Nat
    <3> DEFINE top == IF s \in Transient /\ sends < MaxSends THEN 1 ELSE 0
    <3>1. PICK n \in 0 .. top : unread' = [unread EXCEPT ![s] = n] /\ sends' = sends + n
      BY <1>4 DEF CreateSubscription
    <3>2. n \in Nat
      OBVIOUS
    <3> HIDE DEF top
    <3> QED  BY <2>2, <3>1, <3>2 DEF Types, SourceTypes
  <2> QED
    BY <2>1, <2>2, <2>3, <2>4
    DEF Types, SourceTypes, OwnTypes, ExecTypes, ThreadTypes, KindTypes
<1>5. ASSUME NEW s \in Subs, CloseSubscription(s) \/ Publish(s) PROVE Types'
  <2>1. s \in Sources
    BY DEF Sources
  <2>2. SourceTypes'
    <3>1. stage' \in [Sources -> Stages] /\ need' = need /\ fd' \in [Subs -> Fds \cup {0}]
      BY <1>5, <2>1 DEF CloseSubscription, Publish, Types, SourceTypes, Stages
    <3>2. unread' \in [Sources -> Nat] /\ sends' \in Nat
      BY <1>5, <2>1 DEF CloseSubscription, Publish, Types, SourceTypes
    <3>3. event' \in [Fds \cup Timers -> BOOLEAN]
      BY <1>5 DEF CloseSubscription, Publish, Types, SourceTypes
    <3> QED  BY <3>1, <3>2, <3>3 DEF Types, SourceTypes
  <2>3. OwnTypes' /\ ThreadTypes' /\ KindTypes'
    BY <1>5 DEF CloseSubscription, Publish, Types, OwnTypes, ThreadTypes, KindTypes
  <2>4. ExecTypes'
    BY <1>5 DEF CloseSubscription, Publish, Types, ExecTypes
  <2> QED  BY <2>2, <2>3, <2>4 DEF Types
<1>6. ASSUME NEW s \in Timers, Expire(s) PROVE Types'
  <2>1. s \in Sources
    BY DEF Sources
  <2>2. SourceTypes'
    BY <1>6, <2>1 DEF Expire, Types, SourceTypes
  <2>3. OwnTypes' /\ ThreadTypes' /\ KindTypes' /\ ExecTypes'
    BY <1>6 DEF Expire, Types, OwnTypes, ThreadTypes, KindTypes, ExecTypes
  <2> QED  BY <2>2, <2>3 DEF Types
<1>7. ASSUME NEW s \in Sources, Insert(s) \/ RequestUpdateAll(s) \/ Erase(s) PROVE Types'
  <2>1. OwnTypes' /\ ThreadTypes' /\ KindTypes'
    BY <1>7 DEF Insert, RequestUpdateAll, Erase, Types, OwnTypes, ThreadTypes, KindTypes
  <2>2. CASE Insert(s)
    BY <2>1, <2>2 DEF Insert, Types, SourceTypes, ExecTypes, Stages
  <2>3. CASE RequestUpdateAll(s)
    BY <2>1, <2>3 DEF RequestUpdateAll, Types, SourceTypes, ExecTypes, Stages
  <2>4. CASE Erase(s)
    <3>1. /\ stage' \in [Sources -> Stages] /\ need' \in [Sources -> BOOLEAN]
          /\ fd' = fd /\ sends' = sends
      BY <2>4 DEF Erase, Types, SourceTypes, Stages
    <3>2. unread' \in [Sources -> Nat] /\ event' \in [Fds \cup Timers -> BOOLEAN]
      <4>1. \/ unread' = unread /\ event' = event
            \/ unread' = [unread EXCEPT ![s] = 0] /\ event' = [event EXCEPT ![s] = FALSE]
        BY <2>4 DEF Erase
      <4>2. unread \in [Sources -> Nat] /\ event \in [Fds \cup Timers -> BOOLEAN]
        BY DEF Types, SourceTypes
      <4>3. unread' \in [Sources -> Nat]
        BY <4>1, <4>2
      <4>4. event' = [event EXCEPT ![s] = FALSE] => event' \in [Fds \cup Timers -> BOOLEAN]
        BY <4>2
      <4>5. event' = event => event' \in [Fds \cup Timers -> BOOLEAN]
        BY <4>2
      <4>6. event' \in [Fds \cup Timers -> BOOLEAN]
        BY <4>1, <4>4, <4>5
      <4> QED  BY <4>3, <4>6
    <3>3. epoll' \in [Execs -> SUBSET Sources]
      BY <2>4 DEF Erase, Types, ExecTypes
    <3>4. ExecTypes'
      BY <2>4, <3>3 DEF Erase, Types, ExecTypes
    <3>5. SourceTypes'
      BY <3>1, <3>2 DEF Types, SourceTypes
    <3> QED  BY <2>1, <3>4, <3>5 DEF Types
  <2> QED  BY <1>7, <2>2, <2>3, <2>4
<1> QED  BY <1>1, <1>2, <1>3, <1>4, <1>5, <1>6, <1>7 DEF Application

\* What Pick does when it finds something to run.
Takes(t, own, i) ==
    LET x == ExecOf[t]
        s == ready[x][i]
    IN /\ i \in DOMAIN ready[x] /\ Runnable(s, own)
       /\ pc' = [pc EXCEPT ![t] = "run"]
       /\ hand' = [hand EXCEPT ![t] = s]
       /\ ready' = [ready EXCEPT ![x] = DropAt(@, i)]
       /\ takeable' = IF GroupOf[s] \in Exclusive
                      THEN [takeable EXCEPT ![GroupOf[s]] = FALSE] ELSE takeable

\* Pick finds nothing, or takes an executable of a group it may run.
LEMMA PickTakes ==
    ASSUME Types, NEW t \in Threads, Pick(t)
    PROVE  \E own \in SUBSET Groups :
             /\ own \in {Adopted(ExecOf[t]), assoc[ExecOf[t]]}
             /\ own = Adopted(ExecOf[t]) => kind[ExecOf[t]] = "mixed" \/ own = assoc[ExecOf[t]]
             /\ assoc' = [assoc EXCEPT ![ExecOf[t]] = own]
             /\ \/ \E i : Takes(t, own, i)
                \/ /\ pc' = [pc EXCEPT ![t] = IF pc[t] = "pick" THEN "wait" ELSE "top"]
                   /\ UNCHANGED <<hand, ready, takeable>>
<1> DEFINE x == ExecOf[t]
           own == IF kind[x] = "mixed" /\ ready[x] # <<>> THEN Adopted(x) ELSE assoc[x]
           runnable == {i \in DOMAIN ready[x] : Runnable(ready[x][i], own)}
<1>1. x \in Execs /\ ready[x] \in Seq(Sources)
  BY ExecutorAssumption DEF Types, ExecTypes
<1>2. own \in SUBSET Groups
  BY <1>1, ExecutorAssumption DEF Types, OwnTypes, Adopted
<1>3. CASE runnable = {}
  <2>1. /\ assoc' = [assoc EXCEPT ![x] = own]
        /\ pc' = [pc EXCEPT ![t] = IF pc[t] = "pick" THEN "wait" ELSE "top"]
        /\ UNCHANGED <<hand, ready, takeable>>
    BY <1>3 DEF Pick
  <2> QED  BY <1>2, <2>1
<1>4. CASE runnable # {}
  <2> DEFINE i == CHOOSE i \in runnable : \A j \in runnable : i <= j
  <2>1. i \in runnable
    <3> DEFINE R == runnable
    <3>1. R \in SUBSET DOMAIN ready[x] /\ R # {}
      BY <1>4
    <3> HIDE DEF R
    <3>2. (CHOOSE k \in R : \A j \in R : k <= j) \in R
      BY <1>1, <3>1, FirstRunnable
    <3> QED  BY <3>2 DEF R
  <2>2. /\ assoc' = [assoc EXCEPT ![x] = own]
        /\ pc' = [pc EXCEPT ![t] = "run"]
        /\ hand' = [hand EXCEPT ![t] = ready[x][i]]
        /\ ready' = [ready EXCEPT ![x] = DropAt(@, i)]
        /\ takeable' = IF GroupOf[ready[x][i]] \in Exclusive
                       THEN [takeable EXCEPT ![GroupOf[ready[x][i]]] = FALSE] ELSE takeable
    BY <1>4 DEF Pick
  <2> HIDE DEF i
  <2>3. Takes(t, own, i)
    BY <2>1, <2>2 DEF Takes
  <2> QED  BY <1>2, <2>2, <2>3
<1> QED  BY <1>3, <1>4

\* The threads' steps keep the types.
LEMMA TypesThread ==
    ASSUME Types, NEW t \in Threads, ThreadStep(t)
    PROVE  Types'
<1> DEFINE x == ExecOf[t]
<1> USE DEF sourceVars, ownVars, execVars, threadVars, runVars
<1>0. x \in Execs /\ ready[x] \in Seq(Sources) /\ Batch \in Nat \ {0}
  BY ExecutorAssumption DEF Types, ExecTypes
<1> HIDE DEF x
<1>1. CASE Top(t)
  <2>1. ThreadTypes' /\ SourceTypes' /\ OwnTypes' /\ KindTypes'
    BY <1>1 DEF Top, Types, SourceTypes, OwnTypes, ThreadTypes, KindTypes, PCs, Holding
  <2>2. ExecTypes'
    BY <1>1 DEF Top, Types, ExecTypes
  <2> QED  BY <2>1, <2>2 DEF Types
<1>2. CASE Prepare(t)
  <2> DEFINE own == IF kind[x] = "only" THEN Adopted(x) ELSE assoc[x]
             fresh == {s \in Sources : need[s] /\ Validates(x, GroupOf[s], own)}
  <2>1. /\ assoc' = [assoc EXCEPT ![x] = own]
        /\ epoll' = [epoll EXCEPT ![x] = @ \cup fresh]
        /\ need' = [s \in Sources |-> need[s] /\ s \notin fresh]
        /\ \E order \in Orders(fresh \cap Transient) :
             ready' = [ready EXCEPT ![x] = @ \o order]
        /\ pc' = [pc EXCEPT ![t] = "pick"]
    BY <1>2 DEF Prepare, x
  <2>2. UNCHANGED <<hand, stage, fd, event, unread, sends, node, created, update,
                    takeable, kind>>
    BY <1>2 DEF Prepare
  <2>3. own \subseteq Groups /\ fresh \subseteq Sources
    BY <1>0, ExecutorAssumption DEF Adopted, Types, OwnTypes
  <2> HIDE DEF own, fresh
  <2>4. need' \in [Sources -> BOOLEAN] /\ SourceTypes'
    BY <2>1, <2>2 DEF Types, SourceTypes
  <2>5. OwnTypes' /\ KindTypes'
    BY <1>0, <2>1, <2>2, <2>3 DEF Types, OwnTypes, KindTypes
  <2>6. ThreadTypes'
    BY <2>1, <2>2 DEF Types, ThreadTypes, PCs, Holding
  <2>7. ready' \in [Execs -> Seq(Sources)]
    <3>1. PICK order \in Orders(fresh \cap Transient) :
               ready' = [ready EXCEPT ![x] = @ \o order]
      BY <2>1
    <3>2. order \in Seq(Sources)
      BY <2>3, OrdersComplete
    <3>3. ready[x] \o order \in Seq(Sources)
      BY <1>0, <3>2, EntriesConcat
    <3> QED  BY <1>0, <3>1, <3>3 DEF Types, ExecTypes
  <2>8. ExecTypes'
    <3>1. epoll' \in [Execs -> SUBSET Sources]
      BY <1>0, <2>1, <2>3 DEF Types, ExecTypes
    <3> QED  BY <2>2, <2>7, <3>1 DEF Types, ExecTypes
  <2> QED  BY <2>4, <2>5, <2>6, <2>8 DEF Types
<1>3. CASE Pick(t)
  <2>1. PICK own \in SUBSET Groups :
             /\ assoc' = [assoc EXCEPT ![x] = own]
             /\ \/ \E i : Takes(t, own, i)
                \/ /\ pc' = [pc EXCEPT ![t] = IF pc[t] = "pick" THEN "wait" ELSE "top"]
                   /\ UNCHANGED <<hand, ready, takeable>>
    BY <1>3, PickTakes DEF x
  <2>2. UNCHANGED <<sourceVars, node, created, epoll, update, runVars>>
    BY <1>3 DEF Pick
  <2>3. OwnTypes' /\ SourceTypes' /\ KindTypes'
    BY <1>0, <2>1, <2>2 DEF Types, OwnTypes, SourceTypes, KindTypes
  <2>4. ASSUME NEW i, Takes(t, own, i) PROVE ThreadTypes' /\ ExecTypes'
    <3>1. ready[x][i] \in Sources /\ GroupOf[ready[x][i]] \in Groups /\ i \in DOMAIN ready[x]
      BY <1>0, <2>4, ExecutorAssumption DEF Takes, x
    <3>2. DropAt(ready[x], i) \in Seq(Sources)
      BY <1>0, <3>1, EntriesDropAt
    <3>3. ready' \in [Execs -> Seq(Sources)]
      BY <1>0, <2>4, <3>2 DEF Takes, Types, ExecTypes, x
    <3>4. takeable' \in [Groups -> BOOLEAN]
      BY <2>4 DEF Takes, Types, ExecTypes, x
    <3>5. ThreadTypes'
      BY <2>4, <3>1 DEF Takes, Types, ThreadTypes, PCs, Holding, x
    <3> QED  BY <2>2, <3>3, <3>4, <3>5 DEF Types, ExecTypes
  <2>5. CASE /\ pc' = [pc EXCEPT ![t] = IF pc[t] = "pick" THEN "wait" ELSE "top"]
             /\ UNCHANGED <<hand, ready, takeable>>
    <3>1. ThreadTypes'
      BY <2>5 DEF Types, ThreadTypes, PCs, Holding
    <3>2. ExecTypes'
      BY <2>2, <2>5 DEF Types, ExecTypes
    <3> QED  BY <2>3, <3>1, <3>2 DEF Types
  <2> QED  BY <2>1, <2>3, <2>4, <2>5 DEF Types
<1>4. ASSUME NEW s \in Sources, WaitEvent(t, s) PROVE Types'
  BY <1>4 DEF WaitEvent, Types, SourceTypes, OwnTypes, ExecTypes, KindTypes, ThreadTypes,
              PCs, Holding
<1>5. CASE WaitTimeout(t) \/ Handle(t)
  <2>1. UNCHANGED <<kind, sourceVars, ownVars, execVars>>
    BY <1>5 DEF WaitTimeout, Handle
  <2>2. ThreadTypes'
    BY <1>5 DEF WaitTimeout, Handle, Types, ThreadTypes, PCs, Holding
  <2> QED  BY <2>1, <2>2 DEF Types, SourceTypes, OwnTypes, ExecTypes, KindTypes
<1>6. CASE Drain(t)
  <2>1. hand[t] \in Sources
    BY <1>6 DEF Drain, Types, ThreadTypes, Holding
  <2>2. \E f : /\ event' = event \/ event' = [event EXCEPT ![f] = FALSE]
               /\ \/ ready' = ready
                  \/ ready' = [ready EXCEPT ![x] = Append(@, hand[t])]
    BY <1>6 DEF Drain, x
  <2>3. event' \in [Fds \cup Timers -> BOOLEAN]
    BY <2>2 DEF Types, SourceTypes
  <2>4. ready' \in [Execs -> Seq(Sources)]
    <3>1. Append(ready[x], hand[t]) \in Seq(Sources)
      BY <1>0, <2>1
    <3> QED  BY <1>0, <2>2, <3>1 DEF Types, ExecTypes
  <2>5. ThreadTypes'
    BY <1>6 DEF Drain, Types, ThreadTypes, PCs, Holding
  <2>6. UNCHANGED <<stage, need, fd, unread, sends, kind, ownVars, epoll, update, takeable>>
    BY <1>6 DEF Drain
  <2> QED
    BY <2>3, <2>4, <2>5, <2>6 DEF Types, SourceTypes, OwnTypes, ExecTypes, KindTypes
<1>7. CASE Run(t)
  <2>1. hand[t] \in Sources
    BY <1>7 DEF Run, Types, ThreadTypes, Holding
  <2>2. Left(unread[hand[t]]) \in Nat
    BY <1>0, <2>1 DEF Left, Types, SourceTypes
  <2>3. unread' \in [Sources -> Nat]
    BY <1>7, <2>1, <2>2 DEF Run, Types, SourceTypes
  <2>4. ready' \in [Execs -> Seq(Sources)]
    <3>1. Append(ready[x], hand[t]) \in Seq(Sources)
      BY <1>0, <2>1
    <3>2. ready' \in {ready, [ready EXCEPT ![x] = Append(@, hand[t])]}
      BY <1>7 DEF Run, x
    <3> QED  BY <1>0, <3>1, <3>2 DEF Types, ExecTypes
  <2>5. ThreadTypes'
    BY <1>7, <2>1 DEF Run, Types, ThreadTypes, PCs, Holding
  <2>6. UNCHANGED <<stage, need, fd, event, sends, kind, ownVars, epoll, update, takeable>>
    BY <1>7 DEF Run
  <2> QED
    BY <2>3, <2>4, <2>5, <2>6 DEF Types, SourceTypes, OwnTypes, ExecTypes, KindTypes
<1>8. CASE Release(t)
  <2>1. UNCHANGED <<kind, sourceVars, ownVars, epoll, update, ready>>
    BY <1>8 DEF Release
  <2>2. ThreadTypes'
    BY <1>8 DEF Release, Types, ThreadTypes, PCs, Holding
  <2>3. takeable' \in [Groups -> BOOLEAN]
    BY <1>8 DEF Release, Types, ExecTypes
  <2> QED
    BY <2>1, <2>2, <2>3 DEF Types, SourceTypes, OwnTypes, ExecTypes, KindTypes
<1> QED  BY <1>1, <1>2, <1>3, <1>4, <1>5, <1>6, <1>7, <1>8 DEF ThreadStep

\* Every step keeps the types.
LEMMA TypesNext ==
    ASSUME Types, [Next]_vars
    PROVE  Types'
<1>1. CASE UNCHANGED vars
  BY <1>1 DEF vars, sourceVars, ownVars, execVars, threadVars, runVars, Types, SourceTypes,
              OwnTypes, ExecTypes, ThreadTypes, KindTypes
<1> QED  BY <1>1, TypesApplication, TypesThread DEF Next

-----------------------------------------------------------------------------
(* Mutual exclusion.                                                       *)

\* GroupsExclusive without counting.
OneRunner ==
    \A g \in Exclusive : IF takeable[g] THEN Runners(g) = {}
                         ELSE \E t \in Threads : Runners(g) = {t}

\* One runner is counted as one.
LEMMA OneRunnerCounts == OneRunner => GroupsExclusive
<1> SUFFICES ASSUME OneRunner, NEW g \in Exclusive, ~takeable[g]
             PROVE  Cardinality(Runners(g)) = 1
  BY DEF OneRunner, GroupsExclusive
<1>1. PICK t \in Threads : Runners(g) = {t}
  BY DEF OneRunner
<1> QED  BY <1>1, FS_Singleton

\* A step after which the same threads run the same callbacks.
LEMMA RunnersFrame ==
    ASSUME Types, OneRunner, takeable' = takeable,
           \A t \in Threads : /\ pc'[t] \in Running <=> pc[t] \in Running
                              /\ pc[t] \in Running => hand'[t] = hand[t]
    PROVE  OneRunner'
<1>1. \A g \in Exclusive : Runners(g)' = Runners(g)
  BY DEF Runners, Running
<1> QED  BY <1>1 DEF OneRunner

\* Pick closes the group it takes from, Release opens the group it ran.
LEMMA OneRunnerNext ==
    ASSUME Types, OneRunner, [Next]_vars
    PROVE  OneRunner'
<1> USE DEF sourceVars, ownVars, execVars, threadVars, runVars
<1>1. CASE UNCHANGED vars
  BY <1>1, RunnersFrame DEF vars
<1>2. CASE Application
  <2>1. CASE \E x \in Execs : Spin(x)
    BY <2>1, RunnersFrame DEF Spin, ThreadsOf, Running
  <2>2. CASE UNCHANGED <<takeable, pc, hand>>
    BY <2>2, RunnersFrame
  <2>3. Application => \/ \E x \in Execs : Spin(x)
                       \/ UNCHANGED <<takeable, pc, hand>>
    BY DEF Application, CreateGroup, AddNode, RemoveNode, AddCallbackGroup,
           RemoveCallbackGroup, Cancel, CreateSubscription, CloseSubscription, Publish,
           Expire, Insert, RequestUpdateAll, Erase
  <2> QED  BY <1>2, <2>1, <2>2, <2>3
<1>3. ASSUME NEW t \in Threads, ThreadStep(t) PROVE OneRunner'
  <2>0. /\ pc \in [Threads -> PCs] /\ hand \in [Threads -> Sources \cup {NoSource}]
        /\ takeable \in [Groups -> BOOLEAN]
    BY DEF Types, ThreadTypes, ExecTypes
  <2>1. CASE Top(t) \/ Prepare(t) \/ WaitTimeout(t) \/ Handle(t) \/ Drain(t)
             \/ \E s \in Sources : WaitEvent(t, s)
    <3>1. takeable' = takeable /\ pc[t] \notin Running
      BY <2>1 DEF Top, Prepare, WaitTimeout, Handle, Drain, WaitEvent, Running
    <3>2. /\ \E p \in PCs \ Running : pc' = [pc EXCEPT ![t] = p]
          /\ hand' = hand \/ \E s : hand' = [hand EXCEPT ![t] = s]
      BY <2>1 DEF Top, Prepare, WaitTimeout, Handle, Drain, WaitEvent, Running, PCs, Holding
    <3> QED  BY <2>0, <3>1, <3>2, RunnersFrame
  <2>2. CASE Run(t)
    BY <2>0, <2>2, RunnersFrame DEF Run, Running
  <2>3. CASE Pick(t)
    <3>1. pc[t] \notin Running
      BY <2>3 DEF Pick, Running
    <3>2. CASE /\ pc' = [pc EXCEPT ![t] = IF pc[t] = "pick" THEN "wait" ELSE "top"]
               /\ UNCHANGED <<hand, takeable>>
      BY <2>0, <3>1, <3>2, RunnersFrame DEF Running
    <3>3. ASSUME NEW own, NEW i, Takes(t, own, i) PROVE OneRunner'
      <4> DEFINE s == ready[ExecOf[t]][i]
                 g == GroupOf[s]
      <4>1. /\ pc' = [pc EXCEPT ![t] = "run"] /\ hand' = [hand EXCEPT ![t] = s]
            /\ takeable' = IF g \in Exclusive
                           THEN [takeable EXCEPT ![g] = FALSE] ELSE takeable
            /\ g \in Exclusive => takeable[g]
        BY <3>3 DEF Takes, Runnable
      <4>2. s \in Sources /\ g \in Groups
        BY <3>3, ExecutorAssumption DEF Takes, Types, ExecTypes
      <4> HIDE DEF s
      <4>3. \A h \in Groups : Runners(h)' = IF h = g THEN Runners(h) \cup {t} ELSE Runners(h)
        BY <2>0, <3>1, <4>1, <4>2 DEF Runners, Running
      <4> QED  BY <2>0, <4>1, <4>2, <4>3, ExecutorAssumption DEF OneRunner
    <3> QED  BY <2>3, <3>2, <3>3, PickTakes
  <2>4. CASE Release(t)
    <3> DEFINE g == GroupOf[hand[t]]
    <3>1. /\ pc[t] = "called" /\ pc' = [pc EXCEPT ![t] = "top"]
          /\ hand' = [hand EXCEPT ![t] = NoSource]
          /\ takeable' = IF g \in Exclusive
                         THEN [takeable EXCEPT ![g] = TRUE] ELSE takeable
      BY <2>4 DEF Release
    <3>2. hand[t] \in Sources /\ g \in Groups
      BY <3>1, ExecutorAssumption DEF Types, ThreadTypes, Holding
    <3>3. t \in Runners(g)
      BY <3>1 DEF Runners
    <3>4. \A h \in Groups : Runners(h)' = IF h = g THEN Runners(h) \ {t} ELSE Runners(h)
      BY <2>0, <3>1 DEF Runners
    <3> HIDE DEF g
    <3> QED  BY <2>0, <3>1, <3>2, <3>3, <3>4, ExecutorAssumption DEF OneRunner
  <2> QED  BY <1>3, <2>1, <2>2, <2>3, <2>4 DEF ThreadStep
<1> QED  BY <1>1, <1>2, <1>3 DEF Next

\* Whatever executors and threads a process has, two callbacks of a mutually
\* exclusive group never run at once, and the group is closed exactly while one
\* of them runs: can_be_taken_from is never left FALSE.
THEOREM GroupsExclude == Spec => []GroupsExclusive
<1>1. Init => Types /\ OneRunner
  <2>1. Init => OneRunner
    BY ExecutorAssumption DEF Init, OneRunner, Runners
  <2> QED  BY <2>1, TypesInit
<1>2. Types /\ OneRunner /\ [Next]_vars => Types' /\ OneRunner'
  BY TypesNext, OneRunnerNext
<1>3. OneRunner => GroupsExclusive
  BY OneRunnerCounts
<1> QED  BY <1>1, <1>2, <1>3, PTL DEF Spec

-----------------------------------------------------------------------------
(* No callback is lost, when the process has one executor.                 *)

\* The process spins one executor.
OneExecutor == \A x, y \in Execs : x = y

\* No thread can read the eventfd of another subscription than the one in hand:
\* sources outlive the threads that work on them, or there is no other eventfd.
OwnEventfds == Orderly \/ \A s, u \in Subs : s = u

NodeKinds == \A x \in node : kind[x] # "dedicated"

\* Sources belong to groups that exist.
GroupsExist == \A s \in Sources : stage[s] # "none" => GroupOf[s] \in created

\* A registered source is in the epoll set, or waits for prepare_epoll.
Polled ==
    \A s \in Sources : /\ need[s] => Registered(s)
                       /\ Registered(s) /\ ~need[s] => \A x \in Execs : s \in epoll[x]

\* Open subscriptions have eventfds of their own.
Eventfds ==
    /\ \A s \in Subs : fd[s] = 0 <=> stage[s] \in {"none", "gone"}
    /\ \A s, u \in Subs : fd[s] = fd[u] /\ fd[s] # 0 => s = u

\* A source whose eventfd is being read has been registered, and orderly
\* destruction keeps it.
Handled(s) == stage[s] \notin {"none", "created"} /\ (Orderly => Registered(s))
DrainsLive == \A t \in Threads : pc[t] = "drain" => Handled(hand[t])

\* What makes some thread run source s.
Due(s) ==
    \/ Readable(s)
    \/ need[s] /\ s \in Transient
    \/ \E x \in Execs : s \in Queued(x)
    \/ \E t \in Threads : hand[t] = s /\ pc[t] = "run"

\* Messages wait for a source that has something to make it run.  A transient
\* local subscription may be created with messages for which no event is set.
Pending(s) ==
    unread[s] > 0 => /\ Registered(s) => Due(s)
                     /\ stage[s] = "created" => Readable(s) \/ s \in Transient
                     /\ stage[s] # "none"

\* An executor that has yet to poll a source it looks after has been told.
Told ==
    \A s \in Sources, x \in Execs :
        (need[s] /\ stage[s] = "registered" /\ Validates(x, GroupOf[s], Adopted(x)))
            => update[x] \/ \E t \in ThreadsOf(x) : pc[t] = "prepare"

Tables == NodeKinds /\ GroupsExist /\ Polled /\ Eventfds /\ DrainsLive

\* The steps in the life of a source.
SourceStep ==
    \/ \E s \in Subs : CreateSubscription(s) \/ CloseSubscription(s)
    \/ \E s \in Sources : Insert(s) \/ RequestUpdateAll(s) \/ Erase(s)

\* Every other step leaves the life of the sources alone.
LEMMA SourceSteps ==
    ASSUME [Next]_vars
    PROVE  SourceStep \/ UNCHANGED <<stage, fd>>
<1> USE DEF sourceVars, ownVars, execVars, threadVars, runVars
<1>1. CASE UNCHANGED vars
  BY <1>1 DEF vars
<1>2. CASE Application
  BY <1>2 DEF Application, SourceStep, CreateGroup, AddNode, RemoveNode, AddCallbackGroup,
              RemoveCallbackGroup, Spin, Cancel, Publish, Expire
<1>3. ASSUME NEW t \in Threads, ThreadStep(t) PROVE UNCHANGED <<stage, fd>>
  BY <1>3 DEF ThreadStep, Top, Prepare, Pick, WaitTimeout, WaitEvent, Handle, Drain, Run,
              Release
<1> QED  BY <1>1, <1>2, <1>3 DEF Next

\* Only nodes that are not dedicated executors' are added.
LEMMA NodeKindsNext ==
    ASSUME Types, NodeKinds, [Next]_vars
    PROVE  NodeKinds'
<1> USE DEF sourceVars, ownVars, execVars, threadVars, runVars
<1>1. kind' = kind
  BY DEF vars, Next, Application, CreateGroup, AddNode, RemoveNode, AddCallbackGroup,
         RemoveCallbackGroup, Spin, Cancel, Publish, Expire, CreateSubscription,
         CloseSubscription, Insert, RequestUpdateAll, Erase, ThreadStep, Top, Prepare, Pick,
         WaitTimeout, WaitEvent, Handle, Drain, Run, Release
<1>2. \/ \E x \in Execs : AddNode(x) \/ RemoveNode(x)
      \/ node' = node
  BY DEF vars, Next, Application, CreateGroup, AddCallbackGroup,
         RemoveCallbackGroup, Spin, Cancel, Publish, Expire, CreateSubscription,
         CloseSubscription, Insert, RequestUpdateAll, Erase, ThreadStep, Top, Prepare, Pick,
         WaitTimeout, WaitEvent, Handle, Drain, Run, Release
<1> QED  BY <1>1, <1>2 DEF NodeKinds, AddNode, RemoveNode

\* Sources are made in groups that exist, and groups are never unmade.
LEMMA GroupsExistNext ==
    ASSUME Types, GroupsExist, [Next]_vars
    PROVE  GroupsExist'
<1> USE DEF sourceVars, ownVars, execVars, threadVars, runVars
<1>1. created \subseteq created'
  BY DEF vars, Next, Application, CreateGroup, AddNode, RemoveNode, AddCallbackGroup,
         RemoveCallbackGroup, Spin, Cancel, Publish, Expire, CreateSubscription,
         CloseSubscription, Insert, RequestUpdateAll, Erase, ThreadStep, Top, Prepare, Pick,
         WaitTimeout, WaitEvent, Handle, Drain, Run, Release
<1>2. CASE SourceStep
  BY <1>1, <1>2 DEF SourceStep, CreateSubscription, CloseSubscription, Insert,
                    RequestUpdateAll, Erase, GroupsExist, Types, SourceTypes, Sources
<1> QED  BY <1>1, <1>2, SourceSteps DEF GroupsExist

\* A new eventfd has a number that is not in use.
LEMMA EventfdsNext ==
    ASSUME Types, Eventfds, [Next]_vars
    PROVE  Eventfds'
<1> USE ExecutorAssumption DEF sourceVars, ownVars, execVars, threadVars, runVars
<1>0. /\ stage \in [Sources -> Stages] /\ fd \in [Subs -> Fds \cup {0}]
      /\ Subs \subseteq Sources
  BY DEF Types, SourceTypes, Sources
<1>1. ASSUME NEW s \in Subs, CreateSubscription(s) PROVE Eventfds'
  <2>1. PICK f \in Fds \ {fd[u] : u \in Subs} : fd' = [fd EXCEPT ![s] = f]
    BY <1>1 DEF CreateSubscription
  <2>2. stage' = [stage EXCEPT ![s] = "created"]
    BY <1>1 DEF CreateSubscription
  <2>3. f # 0 /\ \A u \in Subs : fd[u] # f
    BY <2>1
  <2> QED  BY <1>0, <2>1, <2>2, <2>3 DEF Eventfds
<1>2. ASSUME NEW s \in Subs, CloseSubscription(s) PROVE Eventfds'
  BY <1>0, <1>2 DEF CloseSubscription, Eventfds
<1>3. ASSUME NEW s \in Sources, Insert(s) \/ RequestUpdateAll(s) \/ Erase(s) PROVE Eventfds'
  <2>1. fd' = fd /\ \A u \in Subs : u # s => stage'[u] = stage[u]
    BY <1>0, <1>3 DEF Insert, RequestUpdateAll, Erase
  <2>2. s \in Subs => stage[s] \notin {"none", "gone"} /\ stage'[s] \notin {"none", "gone"}
    BY <1>0, <1>3 DEF Insert, RequestUpdateAll, Erase
  <2> QED  BY <2>1, <2>2 DEF Eventfds
<1> QED  BY <1>1, <1>2, <1>3, SourceSteps DEF SourceStep, Eventfds

\* prepare_epoll clears need_epoll_update of what it puts into the only epoll set.
LEMMA PolledNext ==
    ASSUME Types, Polled, OneExecutor, [Next]_vars
    PROVE  Polled'
<1> USE DEF sourceVars, ownVars, execVars, threadVars, runVars
<1>0. /\ stage \in [Sources -> Stages] /\ need \in [Sources -> BOOLEAN]
      /\ epoll \in [Execs -> SUBSET Sources] /\ Subs \subseteq Sources
  BY DEF Types, SourceTypes, ExecTypes, Sources
<1>1. CASE UNCHANGED <<stage, need, epoll>>
  BY <1>1 DEF Polled, Registered
<1>2. CASE SourceStep
  <2>1. ASSUME NEW s \in Subs, CreateSubscription(s) PROVE Polled'
    BY <1>0, <2>1 DEF CreateSubscription, Polled, Registered
  <2>2. ASSUME NEW s \in Subs, CloseSubscription(s) PROVE Polled'
    BY <1>0, <2>2 DEF CloseSubscription, Polled, Registered
  <2>3. ASSUME NEW s \in Sources, Insert(s) \/ RequestUpdateAll(s) PROVE Polled'
    BY <1>0, <2>3 DEF Insert, RequestUpdateAll, Polled, Registered
  <2>4. ASSUME NEW s \in Sources, Erase(s) PROVE Polled'
    <3>1. /\ \A u \in Sources : u # s => stage'[u] = stage[u] /\ need'[u] = need[u]
          /\ ~Registered(s)' /\ ~need'[s]
      BY <1>0, <2>4 DEF Erase, Registered
    <3>2. \A x \in Execs : epoll[x] \ {s} \subseteq epoll'[x]
      BY <1>0, <2>4 DEF Erase
    <3> QED  BY <3>1, <3>2 DEF Polled, Registered
  <2> QED  BY <1>2, <2>1, <2>2, <2>3, <2>4 DEF SourceStep
<1>3. ASSUME NEW t \in Threads, Prepare(t) PROVE Polled'
  <2> DEFINE x == ExecOf[t]
  <2>1. PICK fresh \in SUBSET Sources :
             /\ epoll' = [epoll EXCEPT ![x] = @ \cup fresh]
             /\ need' = [s \in Sources |-> need[s] /\ s \notin fresh]
    <3> DEFINE own == IF kind[x] = "only" THEN Adopted(x) ELSE assoc[x]
               F == {s \in Sources : need[s] /\ Validates(x, GroupOf[s], own)}
    <3>1. /\ epoll' = [epoll EXCEPT ![x] = @ \cup F]
          /\ need' = [s \in Sources |-> need[s] /\ s \notin F]
      BY <1>3 DEF Prepare
    <3>2. F \in SUBSET Sources
      OBVIOUS
    <3> HIDE DEF F
    <3> QED  BY <3>1, <3>2
  <2>2. stage' = stage /\ x \in Execs /\ \A y \in Execs : y = x
    BY <1>3, ExecutorAssumption DEF Prepare, OneExecutor
  <2> HIDE DEF x
  <2>3. epoll'[x] = epoll[x] \cup fresh
    BY <1>0, <2>1, <2>2
  <2> QED  BY <1>0, <2>1, <2>2, <2>3 DEF Polled, Registered
<1>4. SourceStep \/ UNCHANGED <<stage, need, epoll>> \/ \E t \in Threads : Prepare(t)
  BY DEF vars, Next, Application, SourceStep, CreateGroup, AddNode, RemoveNode,
         AddCallbackGroup, RemoveCallbackGroup, Spin, Cancel, Publish, Expire, ThreadStep,
         Top, Pick, WaitTimeout, WaitEvent, Handle, Drain, Run, Release
<1> QED  BY <1>1, <1>2, <1>3, <1>4

\* A source in a thread's hand is not destroyed in an orderly process.
LEMMA DrainsLiveNext ==
    ASSUME Types, DrainsLive, [Next]_vars
    PROVE  DrainsLive'
<1> SUFFICES ASSUME NEW t \in Threads, pc'[t] = "drain"
             PROVE  Handled(hand[t])'
  BY DEF DrainsLive
<1> USE DEF sourceVars, ownVars, execVars, threadVars, runVars
<1>0. /\ stage \in [Sources -> Stages] /\ pc \in [Threads -> PCs]
      /\ hand \in [Threads -> Sources \cup {NoSource}] /\ Subs \subseteq Sources
      /\ pc[t] = "drain" => Handled(hand[t])
  BY DEF Types, SourceTypes, ThreadTypes, Sources, DrainsLive
<1>1. CASE SourceStep
  <2>1. UNCHANGED <<pc, hand>>
    BY <1>1 DEF SourceStep, CreateSubscription, CloseSubscription, Insert,
                RequestUpdateAll, Erase
  <2>2. Orderly => \A s \in Sources : ~Erase(s)
    BY <2>1 DEF Erase, Idle
  <2>3. hand[t] \in Sources /\ Handled(hand[t])
    BY <1>0, <2>1 DEF Types, ThreadTypes, Holding
  <2>4. \A s \in Sources : stage[s] \notin {"none", "created"}
                            => stage'[s] \notin {"none", "created"}
    BY <1>0, <1>1 DEF SourceStep, CreateSubscription, CloseSubscription, Insert,
                      RequestUpdateAll, Erase
  <2>5. Orderly => \A s \in Sources : Registered(s) => Registered(s)'
    BY <1>0, <1>1, <2>2 DEF SourceStep, CreateSubscription, CloseSubscription, Insert,
                            RequestUpdateAll, Registered
  <2> QED  BY <2>1, <2>3, <2>4, <2>5 DEF Handled, Registered
<1>2. CASE stage' = stage
  <2>1. ASSUME NEW u \in Threads, ThreadStep(u) PROVE Handled(hand[t])'
    <3>1. CASE u = t
      <4>1. Handle(t) /\ Registered(hand[t]) /\ hand' = hand
        <5>1. ~(Top(t) \/ Prepare(t) \/ WaitTimeout(t) \/ Drain(t) \/ Run(t) \/ Release(t))
          BY <1>0 DEF Top, Prepare, WaitTimeout, Drain, Run, Release
        <5>2. ~Pick(t) /\ \A s \in Sources : ~WaitEvent(t, s)
          BY <1>0 DEF Pick, WaitEvent
        <5>3. Handle(t)
          BY <2>1, <3>1, <5>1, <5>2 DEF ThreadStep
        <5> QED  BY <1>0, <5>3 DEF Handle
      <4> QED  BY <1>2, <4>1 DEF Handled, Registered
    <3>2. CASE u # t
      <4>1. pc'[t] = pc[t] /\ hand'[t] = hand[t]
        BY <1>0, <2>1, <3>2 DEF ThreadStep, Top, Prepare, Pick, WaitTimeout, WaitEvent,
                                Handle, Drain, Run, Release
      <4> QED  BY <1>0, <1>2, <4>1 DEF Handled, Registered
    <3> QED  BY <3>1, <3>2
  <2>2. CASE Application \/ UNCHANGED vars
    <3>1. hand' = hand /\ pc[t] = "drain"
      BY <1>0, <2>2 DEF vars, Application, CreateGroup, AddNode, RemoveNode,
         AddCallbackGroup, RemoveCallbackGroup, Spin, Cancel, Publish, Expire,
         CreateSubscription, CloseSubscription, Insert, RequestUpdateAll, Erase
    <3> QED  BY <1>0, <1>2, <3>1 DEF Handled, Registered
  <2> QED  BY <2>1, <2>2 DEF Next
<1> QED  BY <1>1, <1>2, SourceSteps

\* The wakeups of two sources that exist do not meet.
LEMMA WakeupsDistinct ==
    ASSUME Types, Eventfds, NEW s \in Sources, NEW u \in Sources,
           Wakeup(s) = Wakeup(u), Wakeup(s) # 0
    PROVE  s = u
<1>1. fd \in [Subs -> Fds \cup {0}]
  BY DEF Types, SourceTypes
<1> QED  BY <1>1, ExecutorAssumption DEF Wakeup, Eventfds, Sources

\* A step that takes nothing away from a source, and brings it no message.
LEMMA PendingLasts ==
    ASSUME NEW s \in Sources, Pending(s),
           unread'[s] > 0 => unread[s] > 0, stage'[s] = stage[s],
           Readable(s) => Readable(s)' \/ \E x \in Execs : s \in Queued(x)',
           Readable(s) /\ stage[s] = "created" => Readable(s)',
           need[s] /\ s \in Transient => need'[s] \/ \E x \in Execs : s \in Queued(x)',
           \A x \in Execs : s \in Queued(x) =>
               \/ s \in Queued(x)'
               \/ \E t \in Threads : hand'[t] = s /\ pc'[t] = "run",
           \A t \in Threads : hand[t] = s /\ pc[t] = "run" => hand'[t] = s /\ pc'[t] = "run"
    PROVE  Pending(s)'
BY DEF Pending, Due, Registered

\* The steps in the life of a source.
LEMMA PendingSourceStep ==
    ASSUME Types, Polled, Eventfds, SourceStep, NEW u \in Sources, Pending(u)
    PROVE  Pending(u)'
<1> USE ExecutorAssumption DEF sourceVars, ownVars, execVars, threadVars, runVars
<1>0. /\ stage \in [Sources -> Stages] /\ need \in [Sources -> BOOLEAN]
      /\ fd \in [Subs -> Fds \cup {0}] /\ event \in [Fds \cup Timers -> BOOLEAN]
      /\ unread \in [Sources -> Nat] /\ Subs \subseteq Sources
  BY DEF Types, SourceTypes, Sources
<1>a. UNCHANGED <<ready, pc, hand>>
  BY DEF SourceStep, CreateSubscription, CloseSubscription, Insert, RequestUpdateAll, Erase
<1>b. \A x \in Execs : Queued(x)' = Queued(x)
  BY <1>a DEF Queued
<1>1. ASSUME NEW s \in Subs, CreateSubscription(s) PROVE Pending(u)'
  <2>1. PICK f \in Fds \ {fd[v] : v \in Subs} :
             fd' = [fd EXCEPT ![s] = f] /\ event' = [event EXCEPT ![f] = FALSE]
    BY <1>1 DEF CreateSubscription
  <2>2. PICK n \in 0 .. (IF s \in Transient /\ sends < MaxSends THEN 1 ELSE 0) :
             unread' = [unread EXCEPT ![s] = n]
    BY <1>1 DEF CreateSubscription
  <2>3. need' = need /\ stage' = [stage EXCEPT ![s] = "created"]
    BY <1>1 DEF CreateSubscription
  <2>4. CASE u = s
    <3>1. n > 0 => s \in Transient
      OBVIOUS
    <3>2. unread'[u] = n /\ stage'[u] = "created"
      BY <1>0, <2>2, <2>3, <2>4
    <3> QED  BY <2>4, <3>1, <3>2 DEF Pending, Registered
  <2>5. CASE u # s
    <3>1. unread'[u] = unread[u] /\ stage'[u] = stage[u]
      BY <1>0, <2>2, <2>3, <2>5
    <3>2. Wakeup(u)' = Wakeup(u) /\ Wakeup(u) # f
      BY <1>0, <2>1, <2>5 DEF Wakeup, Sources
    <3>3. Readable(u)' <=> Readable(u)
      BY <1>0, <2>1, <3>2 DEF Readable
    <3> QED  BY <1>a, <1>b, <2>3, <3>1, <3>3, PendingLasts
  <2> QED  BY <2>4, <2>5
<1>2. ASSUME NEW s \in Subs, CloseSubscription(s) PROVE Pending(u)'
  <2>1. CASE u = s
    BY <1>0, <1>2, <2>1 DEF CloseSubscription, Pending
  <2>2. CASE u # s
    <3>1. unread'[u] = unread[u] /\ stage'[u] = stage[u] /\ need' = need
      BY <1>0, <1>2, <2>2 DEF CloseSubscription
    <3>2. Readable(u)' <=> Readable(u)
      BY <1>0, <1>2, <2>2 DEF CloseSubscription, Wakeup, Readable
    <3> QED  BY <1>a, <1>b, <3>1, <3>2, PendingLasts
  <2> QED  BY <2>1, <2>2
<1>3. ASSUME NEW s \in Sources, Insert(s) PROVE Pending(u)'
  <2>1. UNCHANGED <<unread, fd, event>> /\ (Readable(u)' <=> Readable(u))
    BY <1>3 DEF Insert, Readable, Wakeup
  <2>2. CASE u = s
    <3>1. need'[s] /\ stage'[s] = "inserted"
      BY <1>0, <1>3 DEF Insert
    <3>2. stage[s] \in {"none", "created"}
      BY <1>3 DEF Insert
    <3> QED  BY <2>1, <2>2, <3>1, <3>2 DEF Pending, Due
  <2>3. CASE u # s
    <3>1. stage'[u] = stage[u] /\ need'[u] = need[u]
      BY <1>0, <1>3, <2>3 DEF Insert
    <3> QED  BY <1>a, <1>b, <2>1, <3>1, PendingLasts
  <2> QED  BY <2>2, <2>3
<1>4. ASSUME NEW s \in Sources, RequestUpdateAll(s) PROVE Pending(u)'
  <2>1. UNCHANGED <<unread, need, fd, event>> /\ (Readable(u)' <=> Readable(u))
    BY <1>4 DEF RequestUpdateAll, Readable, Wakeup
  <2>2. CASE u = s
    <3>1. Registered(s) /\ stage'[s] = "registered"
      BY <1>0, <1>4 DEF RequestUpdateAll, Registered
    <3> QED  BY <1>a, <1>b, <2>1, <2>2, <3>1 DEF Pending, Due
  <2>3. CASE u # s
    <3>1. stage'[u] = stage[u]
      BY <1>0, <1>4, <2>3 DEF RequestUpdateAll
    <3> QED  BY <1>a, <1>b, <2>1, <3>1, PendingLasts
  <2> QED  BY <2>2, <2>3
<1>5. ASSUME NEW s \in Sources, Erase(s) PROVE Pending(u)'
  <2>1. CASE u = s
    <3>1. stage'[s] \in {"erased", "gone"}
      BY <1>0, <1>5 DEF Erase
    <3> QED  BY <2>1, <3>1 DEF Pending, Registered
  <2>2. CASE u # s
    <3>1. stage'[u] = stage[u] /\ need'[u] = need[u] /\ fd' = fd
      BY <1>0, <1>5, <2>2 DEF Erase
    <3>2. unread'[u] = unread[u]
      BY <1>0, <1>5, <2>2 DEF Erase
    <3>3. Wakeup(u)' = Wakeup(u) /\ (s \in Timers => Wakeup(u) # s)
      BY <1>0, <2>2, <3>1 DEF Wakeup, Sources
    <3>4. Wakeup(u) # 0 => event'[Wakeup(u)] = event[Wakeup(u)]
      <4>1. Wakeup(u) # 0 => Wakeup(u) \in Fds \cup Timers
        BY <1>0 DEF Wakeup, Sources
      <4>2. event' = event \/ (s \in Timers /\ event' = [event EXCEPT ![s] = FALSE])
        BY <1>5 DEF Erase
      <4> QED  BY <1>0, <3>3, <4>1, <4>2
    <3>5. Readable(u)' <=> Readable(u)
      BY <3>3, <3>4 DEF Readable
    <3> QED  BY <1>a, <1>b, <3>1, <3>2, <3>5, PendingLasts
  <2> QED  BY <2>1, <2>2
<1> QED  BY <1>1, <1>2, <1>3, <1>4, <1>5 DEF SourceStep

\* Publications and expirations set the event they are announced with.
LEMMA PendingArrival ==
    ASSUME Types, Eventfds, NEW u \in Sources, Pending(u),
           \/ \E s \in Subs : Publish(s)
           \/ \E s \in Timers : Expire(s)
    PROVE  Pending(u)'
<1> USE ExecutorAssumption DEF sourceVars, ownVars, execVars, threadVars, runVars
<1>0. /\ stage \in [Sources -> Stages] /\ fd \in [Subs -> Fds \cup {0}]
      /\ event \in [Fds \cup Timers -> BOOLEAN] /\ unread \in [Sources -> Nat]
      /\ Subs \subseteq Sources
  BY DEF Types, SourceTypes, Sources
<1>1. UNCHANGED <<stage, need, fd, ready, pc, hand>>
  BY DEF Publish, Expire
<1>2. \A x \in Execs : Queued(x)' = Queued(x)
  BY <1>1 DEF Queued
<1>3. PICK s \in Sources : /\ event' = [event EXCEPT ![Wakeup(s)] = TRUE]
                           /\ \A v \in Sources : v # s => unread'[v] = unread[v]
                           /\ Wakeup(s) \in Fds \cup Timers
                           /\ stage[s] # "none"
  <2>1. ASSUME NEW s \in Subs, Publish(s)
        PROVE  /\ s \in Sources /\ event' = [event EXCEPT ![Wakeup(s)] = TRUE]
               /\ \A v \in Sources : v # s => unread'[v] = unread[v]
               /\ Wakeup(s) \in Fds \cup Timers /\ stage[s] # "none"
    BY <1>0, <2>1 DEF Publish, Wakeup, Eventfds
  <2>2. ASSUME NEW s \in Timers, Expire(s)
        PROVE  /\ s \in Sources /\ event' = [event EXCEPT ![Wakeup(s)] = TRUE]
               /\ \A v \in Sources : v # s => unread'[v] = unread[v]
               /\ Wakeup(s) \in Fds \cup Timers /\ stage[s] # "none"
    BY <1>0, <2>2 DEF Expire, Wakeup, Registered, Sources
  <2> QED  BY <2>1, <2>2
<1>4. Wakeup(u)' = Wakeup(u) /\ Wakeup(s)' = Wakeup(s)
  BY <1>1 DEF Wakeup
<1>5. Readable(u) => Readable(u)'
  BY <1>0, <1>3, <1>4 DEF Readable
<1>6. CASE u = s
  <2>1. Readable(s)'
    BY <1>0, <1>3, <1>4 DEF Readable
  <2> QED  BY <1>1, <1>3, <1>6, <2>1 DEF Pending, Due
<1>7. CASE u # s
  BY <1>1, <1>2, <1>3, <1>5, <1>7, PendingLasts
<1> QED  BY <1>6, <1>7

\* prepare_epoll queues what a transient local subscription missed.
LEMMA PendingPrepare ==
    ASSUME Types, NEW t \in Threads, Prepare(t), NEW u \in Sources, Pending(u)
    PROVE  Pending(u)'
<1> DEFINE x == ExecOf[t]
           own == IF kind[x] = "only" THEN Adopted(x) ELSE assoc[x]
           fresh == {s \in Sources : need[s] /\ Validates(x, GroupOf[s], own)}
<1>0. x \in Execs /\ ready[x] \in Seq(Sources) /\ ready \in [Execs -> Seq(Sources)]
  BY ExecutorAssumption DEF Types, ExecTypes
<1>1. /\ UNCHANGED <<stage, fd, event, unread, hand>>
      /\ pc[t] = "prepare" /\ pc' = [pc EXCEPT ![t] = "pick"]
      /\ need' = [s \in Sources |-> need[s] /\ s \notin fresh]
  BY DEF Prepare
<1>2. PICK order \in Orders(fresh \cap Transient) : ready' = [ready EXCEPT ![x] = @ \o order]
  BY DEF Prepare
<1>3. fresh \cap Transient \in SUBSET Sources
  OBVIOUS
<1> HIDE DEF x, fresh
<1>4. order \in Seq(Sources) /\ Entries(order) = fresh \cap Transient
  BY <1>3, OrdersComplete
<1>5. ready'[x] = ready[x] \o order /\ \A y \in Execs : y # x => ready'[y] = ready[y]
  BY <1>0, <1>2
<1>6. Queued(x)' = Queued(x) \cup (fresh \cap Transient)
  <2>1. Entries(ready[x] \o order) = Entries(ready[x]) \cup Entries(order)
    BY <1>0, <1>4, EntriesConcat
  <2> QED  BY <1>4, <1>5, <2>1 DEF Entries, Queued
<1>7. \A y \in Execs : Queued(y) \subseteq Queued(y)'
  BY <1>5, <1>6 DEF Queued
<1>8. Readable(u)' <=> Readable(u)
  BY <1>1 DEF Readable, Wakeup
<1>9. \A v \in Threads : pc[v] = "run" => pc'[v] = "run" /\ hand'[v] = hand[v]
  BY <1>1 DEF Types, ThreadTypes
<1>10. need[u] /\ u \in Transient => need'[u] \/ \E y \in Execs : u \in Queued(y)'
  BY <1>0, <1>1, <1>6
<1> QED  BY <1>1, <1>7, <1>8, <1>9, <1>10, PendingLasts

\* A picked executable is in the hand of the thread that runs it.
LEMMA PendingPick ==
    ASSUME Types, NEW t \in Threads, Pick(t), NEW u \in Sources, Pending(u)
    PROVE  Pending(u)'
<1> DEFINE x == ExecOf[t]
<1>0. /\ x \in Execs /\ ready[x] \in Seq(Sources) /\ ready \in [Execs -> Seq(Sources)]
      /\ pc \in [Threads -> PCs] /\ hand \in [Threads -> Sources \cup {NoSource}]
  BY ExecutorAssumption DEF Types, ExecTypes, ThreadTypes
<1>1. UNCHANGED <<stage, need, fd, event, unread>> /\ pc[t] # "run"
  BY DEF Pick, sourceVars
<1>2. Readable(u)' <=> Readable(u)
  BY <1>1 DEF Readable, Wakeup
<1> HIDE DEF x
<1>3. CASE /\ pc' = [pc EXCEPT ![t] = IF pc[t] = "pick" THEN "wait" ELSE "top"]
           /\ UNCHANGED <<hand, ready, takeable>>
  <2>1. \A v \in Threads : pc[v] = "run" => pc'[v] = "run" /\ hand'[v] = hand[v]
    BY <1>0, <1>1, <1>3
  <2>2. \A y \in Execs : Queued(y)' = Queued(y)
    BY <1>3 DEF Queued
  <2> QED  BY <1>1, <1>2, <2>1, <2>2, PendingLasts
<1>4. ASSUME NEW own, NEW i, Takes(t, own, i) PROVE Pending(u)'
  <2>1. /\ i \in DOMAIN ready[x] /\ pc' = [pc EXCEPT ![t] = "run"]
        /\ hand' = [hand EXCEPT ![t] = ready[x][i]]
        /\ ready' = [ready EXCEPT ![x] = DropAt(@, i)]
    BY <1>4 DEF Takes, x
  <2>2. Entries(ready[x]) \subseteq Entries(DropAt(ready[x], i)) \cup {ready[x][i]}
    BY <1>0, <2>1, EntriesDropAt
  <2>3. /\ \A y \in Execs : y # x => ready'[y] = ready[y]
        /\ ready'[x] = DropAt(ready[x], i)
        /\ pc'[t] = "run" /\ hand'[t] = ready[x][i]
    BY <1>0, <2>1
  <2>4. \A y \in Execs : u \in Queued(y) => \/ u \in Queued(y)'
                                            \/ hand'[t] = u /\ pc'[t] = "run"
    <3>1. u \in Queued(x) => u \in Queued(x)' \/ hand'[t] = u
      BY <2>2, <2>3 DEF Entries, Queued
    <3>2. \A y \in Execs : y # x => Queued(y)' = Queued(y)
      BY <2>3 DEF Queued
    <3> QED  BY <2>3, <3>1, <3>2
  <2>5. \A v \in Threads : pc[v] = "run" => pc'[v] = "run" /\ hand'[v] = hand[v]
    BY <1>0, <1>1, <2>1
  <2> QED  BY <1>1, <1>2, <2>4, <2>5, PendingLasts
<1> QED  BY <1>3, <1>4, PickTakes

\* What is read from an eventfd is queued; the eventfd was the source's own.
LEMMA PendingDrain ==
    ASSUME Types, Eventfds, DrainsLive, OwnEventfds, NEW t \in Threads, Drain(t),
           NEW u \in Sources, Pending(u)
    PROVE  Pending(u)'
<1> DEFINE x == ExecOf[t]
           s == hand[t]
<1>0. /\ x \in Execs /\ ready[x] \in Seq(Sources) /\ ready \in [Execs -> Seq(Sources)]
      /\ pc \in [Threads -> PCs] /\ hand \in [Threads -> Sources \cup {NoSource}]
      /\ fd \in [Subs -> Fds \cup {0}] /\ event \in [Fds \cup Timers -> BOOLEAN]
  BY ExecutorAssumption DEF Types, ExecTypes, ThreadTypes, SourceTypes
<1>1. /\ UNCHANGED <<stage, need, fd, unread>> /\ pc[t] = "drain"
      /\ pc' = [pc EXCEPT ![t] = "retry"] /\ hand' = [hand EXCEPT ![t] = NoSource]
  BY DEF Drain
<1>2. s \in Sources
  BY <1>1 DEF Types, ThreadTypes, Holding
<1>3. \A v \in Threads : pc[v] = "run" => pc'[v] = "run" /\ hand'[v] = hand[v]
  BY <1>0, <1>1
<1>4. PICK f \in (IF Wakeup(s) = 0 THEN {0} \cup {fd[v] : v \in Subs} ELSE {Wakeup(s)}) :
           /\ event' = IF f # 0 /\ event[f] THEN [event EXCEPT ![f] = FALSE] ELSE event
           /\ ready' = IF f # 0 /\ event[f]
                       THEN [ready EXCEPT ![x] = Append(@, s)] ELSE ready
  BY DEF Drain
<1>5. f = Wakeup(s)
  <2>1. CASE Wakeup(s) # 0
    BY <1>4, <2>1
  <2>2. CASE Wakeup(s) = 0
    <3>1. s \in Subs /\ fd[s] = 0
      BY <1>2, <2>2, ExecutorAssumption DEF Wakeup, Sources
    <3>2. ~Orderly
      BY <1>1, <3>1 DEF DrainsLive, Handled, Registered, Eventfds
    <3>3. \A v \in Subs : fd[v] = 0
      BY <3>1, <3>2 DEF OwnEventfds
    <3> QED  BY <1>4, <2>2, <3>3
  <2> QED  BY <2>1, <2>2
<1> HIDE DEF x, s
<1>6. Wakeup(u)' = Wakeup(u)
  BY <1>1 DEF Wakeup
<1>7. CASE f # 0 /\ event[f]
  <2>1. ready'[x] = Append(ready[x], s) /\ \A y \in Execs : y # x => ready'[y] = ready[y]
    BY <1>0, <1>4, <1>7
  <2>2. Entries(Append(ready[x], s)) = Entries(ready[x]) \cup {s}
    BY <1>0, <1>2, EntriesAppend
  <2>3. Queued(x)' = Queued(x) \cup {s} /\ \A y \in Execs : y # x => Queued(y)' = Queued(y)
    BY <2>1, <2>2 DEF Queued, Entries
  <2>4. CASE u = s
    <3>1. u \in Queued(x)'
      BY <2>3, <2>4
    <3>2. stage[u] # "created"
      BY <1>1, <2>4 DEF DrainsLive, Handled, s
    <3> QED  BY <1>0, <1>1, <3>1, <3>2 DEF Pending, Due
  <2>5. CASE u # s
    <3>1. Wakeup(u) # f
      BY <1>2, <1>5, <1>7, <2>5, WakeupsDistinct
    <3>2. Readable(u)' <=> Readable(u)
      BY <1>0, <1>4, <1>6, <1>7, <3>1 DEF Readable
    <3> QED  BY <1>1, <1>3, <2>3, <3>2, PendingLasts
  <2> QED  BY <2>4, <2>5
<1>8. CASE ~(f # 0 /\ event[f])
  <2>1. event' = event /\ ready' = ready
    BY <1>4, <1>8
  <2>2. (Readable(u)' <=> Readable(u)) /\ \A y \in Execs : Queued(y)' = Queued(y)
    BY <1>6, <2>1 DEF Readable, Queued
  <2> QED  BY <1>1, <1>3, <2>2, PendingLasts
<1> QED  BY <1>7, <1>8

\* What one receive leaves in the kernel is queued again.
LEMMA PendingRun ==
    ASSUME Types, NEW t \in Threads, Run(t), NEW u \in Sources, Pending(u)
    PROVE  Pending(u)'
<1> DEFINE x == ExecOf[t]
           s == hand[t]
<1>0. /\ x \in Execs /\ ready[x] \in Seq(Sources) /\ ready \in [Execs -> Seq(Sources)]
      /\ pc \in [Threads -> PCs] /\ unread \in [Sources -> Nat] /\ Batch \in Nat \ {0}
  BY ExecutorAssumption DEF Types, ExecTypes, ThreadTypes, SourceTypes
<1>1. /\ UNCHANGED <<stage, need, fd, event, hand>> /\ pc[t] = "run"
      /\ pc' = [pc EXCEPT ![t] = "called"]
      /\ unread' = [unread EXCEPT ![s] = Left(@)]
      /\ ready' = IF unread[s] > Batch THEN [ready EXCEPT ![x] = Append(@, s)] ELSE ready
  BY DEF Run
<1>2. s \in Sources
  BY <1>1 DEF Types, ThreadTypes, Holding
<1>3. Readable(u)' <=> Readable(u)
  BY <1>1 DEF Readable, Wakeup
<1>4. /\ \A y \in Execs : Queued(y) \subseteq Queued(y)'
      /\ unread[s] > Batch => s \in Queued(x)'
  <2>1. CASE unread[s] > Batch
    <3> HIDE DEF x, s
    <3>1. ready'[x] = Append(ready[x], s) /\ \A y \in Execs : y # x => ready'[y] = ready[y]
      BY <1>0, <1>1, <2>1
    <3>2. Entries(Append(ready[x], s)) = Entries(ready[x]) \cup {s}
      BY <1>0, <1>2, EntriesAppend
    <3> QED  BY <3>1, <3>2 DEF Queued, Entries
  <2>2. CASE ~(unread[s] > Batch)
    BY <1>1, <2>2 DEF Queued
  <2> QED  BY <2>1, <2>2
<1>5. CASE u = s
  <2>1. unread'[s] > 0 => unread[s] > Batch
    BY <1>0, <1>1, <1>2 DEF Left
  <2>2. unread'[u] > 0 => \E y \in Execs : u \in Queued(y)'
    BY <1>0, <1>4, <1>5, <2>1
  <2>3. unread'[u] > 0 => unread[u] > 0
    BY <1>0, <1>2, <1>5, <2>1
  <2> QED  BY <1>1, <1>3, <2>2, <2>3 DEF Pending, Due
<1>6. CASE u # s
  <2>1. unread'[u] = unread[u]
    BY <1>0, <1>1, <1>2, <1>6
  <2>2. \A v \in Threads : hand[v] = u /\ pc[v] = "run" => hand'[v] = u /\ pc'[v] = "run"
    BY <1>0, <1>1, <1>6
  <2> QED  BY <1>1, <1>3, <1>4, <2>1, <2>2, PendingLasts
<1> QED  BY <1>5, <1>6

\* Every step keeps what waits for a source within reach of a thread.
LEMMA PendingNext ==
    ASSUME Types, Tables, OwnEventfds, [Next]_vars, NEW u \in Sources, Pending(u)
    PROVE  Pending(u)'
<1> USE DEF sourceVars, ownVars, execVars, threadVars, runVars, Tables
<1>0. pc \in [Threads -> PCs] /\ hand \in [Threads -> Sources \cup {NoSource}]
  BY DEF Types, ThreadTypes
<1>1. CASE SourceStep
  BY <1>1, PendingSourceStep
<1>2. CASE \/ \E s \in Subs : Publish(s)
           \/ \E s \in Timers : Expire(s)
  BY <1>2, PendingArrival
<1>3. CASE /\ UNCHANGED <<sourceVars, ready>>
           /\ \A v \in Threads : pc[v] = "run" => pc'[v] = "run" /\ hand'[v] = hand[v]
  <2>1. (Readable(u)' <=> Readable(u)) /\ \A y \in Execs : Queued(y)' = Queued(y)
    BY <1>3 DEF Readable, Wakeup, Queued
  <2> QED  BY <1>3, <2>1, PendingLasts
<1>4. CASE Application \/ UNCHANGED vars
  <2>1. \/ SourceStep
        \/ \E s \in Subs : Publish(s)
        \/ \E s \in Timers : Expire(s)
        \/ \E x \in Execs : Spin(x)
        \/ UNCHANGED <<sourceVars, ready, pc, hand>>
    BY <1>4 DEF vars, Application, SourceStep, CreateGroup, AddNode, RemoveNode,
                AddCallbackGroup, RemoveCallbackGroup, Cancel
  <2>2. ASSUME NEW x \in Execs, Spin(x)
        PROVE  /\ UNCHANGED <<sourceVars, ready>>
               /\ \A v \in Threads : pc[v] = "run" => pc'[v] = "run" /\ hand'[v] = hand[v]
    BY <1>0, <2>2 DEF Spin, ThreadsOf
  <2> QED  BY <1>1, <1>2, <1>3, <2>1, <2>2
<1>5. ASSUME NEW t \in Threads, ThreadStep(t) PROVE Pending(u)'
  <2>1. CASE Top(t) \/ WaitTimeout(t) \/ Handle(t) \/ Release(t)
             \/ \E s \in Sources : WaitEvent(t, s)
    <3>1. UNCHANGED <<sourceVars, ready>> /\ pc[t] # "run"
      BY <2>1 DEF Top, WaitTimeout, Handle, Release, WaitEvent
    <3>2. \A v \in Threads : v # t => pc'[v] = pc[v] /\ hand'[v] = hand[v]
      BY <1>0, <2>1 DEF Top, WaitTimeout, Handle, Release, WaitEvent
    <3> QED  BY <1>3, <3>1, <3>2
  <2>2. CASE Prepare(t)
    BY <2>2, PendingPrepare
  <2>3. CASE Pick(t)
    BY <2>3, PendingPick
  <2>4. CASE Drain(t)
    BY <2>4, PendingDrain
  <2>5. CASE Run(t)
    BY <2>5, PendingRun
  <2> QED  BY <1>5, <2>1, <2>2, <2>3, <2>4, <2>5 DEF ThreadStep
<1> QED  BY <1>4, <1>5 DEF Next

\* A step that asks for no source that was not asked for, and takes no request back.
LEMMA ToldLasts ==
    ASSUME Types, Told,
           \A s \in Sources : need'[s] /\ stage'[s] = "registered"
                                => need[s] /\ stage[s] = "registered",
           \A s \in Sources, x \in Execs :
               need'[s] /\ Validates(x, GroupOf[s], Adopted(x))'
                   => update'[x] \/ Validates(x, GroupOf[s], Adopted(x)),
           \A x \in Execs : update[x] => \/ update'[x]
                                         \/ \E t \in ThreadsOf(x) : pc'[t] = "prepare",
           \A t \in Threads : pc[t] = "prepare" => pc'[t] = "prepare"
    PROVE  Told'
BY DEF Told, ThreadsOf

\* The groups of an executor, when nothing about them changed.
LEMMA AdoptedFrame ==
    ASSUME UNCHANGED <<node, created, assoc, kind>>
    PROVE  \A s \in Sources, x \in Execs :
               Validates(x, GroupOf[s], Adopted(x))' <=> Validates(x, GroupOf[s], Adopted(x))
BY DEF Validates, Adopted, Owned

\* Groups change hands: an AgnocastOnlyExecutor is told, a dedicated one has yet
\* to look, and an AgnocastExecutor looks at every source anyway.
LEMMA ToldOwners ==
    ASSUME Types, Tables, Told, NEW x \in Execs,
           AddNode(x) \/ RemoveNode(x)
           \/ \E g \in Groups : AddCallbackGroup(x, g) \/ RemoveCallbackGroup(x, g),
           OneExecutor
    PROVE  Told'
<1> USE DEF sourceVars, ownVars, execVars, threadVars, runVars
<1>0. /\ kind \in [Execs -> {"only", "mixed", "dedicated"}]
      /\ update \in [Execs -> BOOLEAN] /\ assoc \in [Execs -> SUBSET Groups]
  BY DEF Types, KindTypes, ExecTypes, OwnTypes
<1>1. UNCHANGED <<stage, need, pc, kind, created>>
  BY DEF AddNode, RemoveNode, AddCallbackGroup, RemoveCallbackGroup
<1>2. \A y \in Execs : y = x
  BY DEF OneExecutor
<1>3. update[x] => update'[x]
  BY <1>0 DEF AddNode, RemoveNode, AddCallbackGroup, RemoveCallbackGroup
<1>4. kind[x] # "mixed" => update'[x]
  <2>1. kind[x] = "only" => update'[x]
    BY <1>0 DEF AddNode, RemoveNode, AddCallbackGroup, RemoveCallbackGroup
  <2>2. kind[x] = "dedicated" => update'[x]
    BY <1>0 DEF AddNode, RemoveNode, AddCallbackGroup, RemoveCallbackGroup, Tables, NodeKinds
  <2> QED  BY <1>0, <2>1, <2>2
<1> QED  BY <1>1, <1>2, <1>3, <1>4, ToldLasts DEF Validates

\* prepare_epoll leaves out only what the executor does not look after.
LEMMA ToldPrepare ==
    ASSUME Types, Tables, Told, OneExecutor, NEW t \in Threads, Prepare(t)
    PROVE  Told'
<1> DEFINE x == ExecOf[t]
           own == IF kind[x] = "only" THEN Adopted(x) ELSE assoc[x]
           fresh == {s \in Sources : need[s] /\ Validates(x, GroupOf[s], own)}
<1>0. /\ x \in Execs /\ \A y \in Execs : y = x
      /\ assoc \in [Execs -> SUBSET Groups] /\ kind \in [Execs -> {"only", "mixed", "dedicated"}]
  BY ExecutorAssumption DEF Types, OwnTypes, KindTypes, OneExecutor
<1>1. /\ UNCHANGED <<stage, kind, node, created>>
      /\ assoc' = [assoc EXCEPT ![x] = own]
      /\ need' = [s \in Sources |-> need[s] /\ s \notin fresh]
  BY DEF Prepare, runVars
<1>2. assoc'[x] = own
  BY <1>0, <1>1
<1>3. kind[x] # "mixed" => Adopted(x)' \subseteq own
  <2>1. Owned = assoc[x] /\ Owned' = own
    BY <1>0, <1>2 DEF Owned
  <2>2. CASE kind[x] = "only"
    BY <1>1, <1>2, <2>1, <2>2 DEF Adopted
  <2>3. CASE kind[x] = "dedicated"
    <3>1. x \notin node
      BY <2>3 DEF Tables, NodeKinds
    <3> QED  BY <1>1, <1>2, <3>1 DEF Adopted
  <2> QED  BY <1>0, <2>2, <2>3
<1>4. ASSUME NEW s \in Sources, need'[s], Validates(x, GroupOf[s], Adopted(x))' PROVE FALSE
  <2>1. need[s] /\ s \notin fresh
    BY <1>1, <1>4
  <2>2. kind[x] # "mixed" /\ GroupOf[s] \notin own
    BY <2>1 DEF Validates
  <2> QED  BY <1>1, <1>3, <1>4, <2>2 DEF Validates
<1> QED  BY <1>0, <1>4 DEF Told

\* Every step keeps the executor told of what it has yet to poll.
LEMMA ToldNext ==
    ASSUME Types, Tables, Told, OneExecutor, [Next]_vars
    PROVE  Told'
<1> USE DEF sourceVars, ownVars, execVars, threadVars, runVars
<1>0. /\ pc \in [Threads -> PCs] /\ update \in [Execs -> BOOLEAN]
      /\ stage \in [Sources -> Stages] /\ need \in [Sources -> BOOLEAN]
  BY DEF Types, ThreadTypes, ExecTypes, SourceTypes
<1>1. ASSUME NEW g \in Groups, CreateGroup(g) PROVE Told'
  <2>1. UNCHANGED <<node, assoc, kind, need, stage, update, pc>> /\ created' = created \cup {g}
        /\ g \notin created
    BY <1>1 DEF CreateGroup
  <2>2. ASSUME NEW s \in Sources, NEW x \in Execs, need[s] PROVE GroupOf[s] # g
    BY <2>1, <2>2 DEF Tables, GroupsExist, Polled, Registered
  <2>3. \A s \in Sources, x \in Execs :
          need'[s] /\ Validates(x, GroupOf[s], Adopted(x))' => Validates(x, GroupOf[s], Adopted(x))
    BY <2>1, <2>2 DEF Validates, Adopted, Owned
  <2> QED  BY <2>1, <2>3, ToldLasts
<1>2. ASSUME NEW s \in Sources, RequestUpdateAll(s) PROVE Told'
  BY <1>2 DEF RequestUpdateAll, Told
<1>3. CASE SourceStep /\ UNCHANGED update
  <2>1. UNCHANGED <<node, created, assoc, kind, pc>>
    BY <1>3 DEF SourceStep, CreateSubscription, CloseSubscription, Insert, RequestUpdateAll,
                Erase
  <2>2. ASSUME NEW u \in Sources, \A s \in Sources : ~RequestUpdateAll(s),
               need'[u], stage'[u] = "registered"
        PROVE  need[u] /\ stage[u] = "registered"
    BY <1>0, <1>3, <2>2 DEF SourceStep, CreateSubscription, CloseSubscription, Insert, Erase,
                            Sources
  <2>3. CASE \A s \in Sources : ~RequestUpdateAll(s)
    BY <1>3, <2>1, <2>2, <2>3, AdoptedFrame, ToldLasts
  <2> QED  BY <1>2, <2>3
<1>4. CASE \E s \in Subs : Publish(s)
  BY <1>4, AdoptedFrame, ToldLasts DEF Publish
<1>5. CASE UNCHANGED <<need, stage, update, node, created, assoc, kind>>
           /\ \A v \in Threads : pc[v] = "prepare" => pc'[v] = "prepare"
  BY <1>5, AdoptedFrame, ToldLasts
<1>6. CASE Application \/ UNCHANGED vars
  <2>1. ASSUME NEW x \in Execs, Spin(x)
        PROVE  /\ UNCHANGED <<need, stage, update, node, created, assoc, kind>>
               /\ \A v \in Threads : pc[v] = "prepare" => pc'[v] = "prepare"
    BY <1>0, <2>1 DEF Spin, ThreadsOf
  <2>2. \/ \E g \in Groups : CreateGroup(g)
        \/ \E x \in Execs : \/ AddNode(x) \/ RemoveNode(x) \/ Spin(x)
                            \/ \E g \in Groups : AddCallbackGroup(x, g)
                                                 \/ RemoveCallbackGroup(x, g)
        \/ \E s \in Sources : RequestUpdateAll(s)
        \/ SourceStep /\ UNCHANGED update
        \/ UNCHANGED <<need, stage, update, node, created, assoc, kind, pc>>
    BY <1>6 DEF vars, Application, SourceStep, Cancel, Publish, Expire, CreateSubscription,
                CloseSubscription, Insert, Erase
  <2>3. CASE UNCHANGED <<need, stage, update, node, created, assoc, kind, pc>>
    BY <1>5, <2>3
  <2> QED  BY <1>1, <1>2, <1>3, <1>5, <2>1, <2>2, <2>3, ToldOwners
<1>7. ASSUME NEW t \in Threads, ThreadStep(t) PROVE Told'
  <2> DEFINE x == ExecOf[t]
  <2>0. x \in Execs /\ t \in ThreadsOf(x) /\ \A y \in Execs : y = x
    BY ExecutorAssumption DEF ThreadsOf, OneExecutor
  <2>1. CASE Top(t)
    <3>1. UNCHANGED <<need, stage, node, created, assoc, kind>>
      BY <2>1 DEF Top
    <3>2. \A v \in Threads : pc[v] = "prepare" => pc'[v] = "prepare"
      BY <1>0, <2>1 DEF Top
    <3>3. update[x] => update'[x] \/ pc'[t] = "prepare"
      BY <1>0, <2>0, <2>1 DEF Top
    <3> HIDE DEF x
    <3> QED  BY <2>0, <3>1, <3>2, <3>3, AdoptedFrame, ToldLasts
  <2>2. CASE Pick(t)
    <3>1. UNCHANGED <<need, stage, update, node, created, kind>> /\ pc[t] # "prepare"
      BY <2>2 DEF Pick
    <3>2. PICK own \in SUBSET Groups :
             /\ own \in {Adopted(x), assoc[x]}
             /\ own = Adopted(x) => kind[x] = "mixed" \/ own = assoc[x]
             /\ assoc' = [assoc EXCEPT ![x] = own]
             /\ \/ \E i : Takes(t, own, i)
                \/ pc' = [pc EXCEPT ![t] = IF pc[t] = "pick" THEN "wait" ELSE "top"]
      BY <2>2, PickTakes
    <3>3. \A v \in Threads : v # t => pc'[v] = pc[v]
      BY <1>0, <3>2 DEF Takes
    <3>4. kind[x] = "mixed" \/ assoc' = assoc
      BY <2>0, <3>2 DEF Types, OwnTypes
    <3>5. \A s \in Sources, y \in Execs : Validates(y, GroupOf[s], Adopted(y))'
                                            => Validates(y, GroupOf[s], Adopted(y))
      <4>1. CASE kind[x] = "mixed"
        BY <2>0, <4>1 DEF Validates
      <4>2. CASE assoc' = assoc
        BY <3>1, <4>2, AdoptedFrame
      <4> QED  BY <3>4, <4>1, <4>2
    <3> QED  BY <3>1, <3>3, <3>5, ToldLasts
  <2>3. CASE Prepare(t)
    BY <2>3, ToldPrepare
  <2>4. CASE WaitTimeout(t) \/ Handle(t) \/ Drain(t) \/ Run(t) \/ Release(t)
             \/ \E s \in Sources : WaitEvent(t, s)
    <3>1. UNCHANGED <<need, stage, update, node, created, assoc, kind>> /\ pc[t] # "prepare"
      BY <2>4 DEF WaitTimeout, Handle, Drain, Run, Release, WaitEvent
    <3>2. \A v \in Threads : v # t => pc'[v] = pc[v]
      BY <1>0, <2>4 DEF WaitTimeout, Handle, Drain, Run, Release, WaitEvent
    <3> QED  BY <1>5, <3>1, <3>2
  <2> QED  BY <1>7, <2>1, <2>2, <2>3, <2>4 DEF ThreadStep
<1> QED  BY <1>6, <1>7 DEF Next

\* With one executor in the process, and either sources that outlive the threads
\* working on them or a single subscription, no message and no expiry of a
\* registered source is stranded: the vector of ready executables, the epoll
\* set, a running thread or a pending need_epoll_update will bring the executor
\* to it, whatever the number of threads, groups, subscriptions and timers.
THEOREM CallbacksKept ==
    ASSUME OneExecutor, OwnEventfds
    PROVE  Spec => []NoLostCallback
<1> DEFINE AllPending == \A s \in Sources : Pending(s)
           Inv == Types /\ Tables /\ AllPending /\ Told
<1>1. Init => Inv
  <2>1. Init => Tables
    BY ExecutorAssumption DEF Init, Tables, NodeKinds, GroupsExist, Polled, Registered, Eventfds,
           DrainsLive, Sources
  <2>2. Init => AllPending /\ Told
    BY DEF Init, Pending, Told
  <2> QED  BY <2>1, <2>2, TypesInit
<1>2. Inv /\ [Next]_vars => Inv'
  <2> SUFFICES ASSUME Inv, [Next]_vars PROVE Inv'
    OBVIOUS
  <2>1. Types'
    BY TypesNext
  <2>2. Tables'
    BY NodeKindsNext, GroupsExistNext, PolledNext, EventfdsNext, DrainsLiveNext DEF Tables
  <2>3. AllPending'
    BY PendingNext
  <2>4. Told'
    BY ToldNext
  <2> QED  BY <2>1, <2>2, <2>3, <2>4
<1>3. Inv => NoLostCallback
  <2> SUFFICES ASSUME Inv, NEW s \in Sources, NEW x \in Execs, stage[s] = "registered",
                      unread[s] > 0, GroupOf[s] \in Adopted(x)
               PROVE  WillRun(x, s)
    BY DEF NoLostCallback
  <2>1. Due(s)
    BY DEF Pending, Registered
  <2>2. CASE need[s]
    <3>1. update[x] \/ \E t \in ThreadsOf(x) : pc[t] = "prepare"
      BY <2>2 DEF Told, Validates
    <3> QED  BY <2>2, <3>1 DEF WillRun
  <2>3. CASE ~need[s]
    <3>1. s \in epoll[x]
      BY <2>3 DEF Tables, Polled, Registered
    <3>2. \A t \in Threads : t \in ThreadsOf(x)
      BY ExecutorAssumption, OneExecutor DEF ThreadsOf, OneExecutor
    <3>3. \A y \in Execs : y = x
      BY OneExecutor DEF OneExecutor
    <3> QED  BY <2>1, <2>3, <3>1, <3>2, <3>3 DEF Due, WillRun
  <2> QED  BY <2>2, <2>3
<1> QED  BY <1>1, <1>2, <1>3, PTL DEF Spec
=============================================================================
