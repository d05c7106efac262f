------------------------------ MODULE Services ------------------------------
(***************************************************************************)
(* Services over topics.  A client publishes requests on the request topic *)
(* of its service and subscribes to a response topic of its own, whose     *)
(* name holds the service, the node and the client's publisher id on the   *)
(* request topic.  Requests are paired with responses by a sequence number *)
(* that starts at zero in every client, so a client that took over another *)
(* one's name would take its responses for answers to its own requests.    *)
(* All clients here belong to nodes of the same name.                      *)
(***************************************************************************)
EXTENDS Naturals, Sequences, FiniteSets, SequencesExt

CONSTANTS
    Clients, Servers,
    Deferred,       \* the servers whose callback answers later
    Depth,          \* the depth of the service's QoS
    MaxRequests,    \* requests ever borrowed, a bound of the model
    MaxClients      \* clients ever created, a bound of the model

VARIABLES
    nextId,     \* current_pubsub_id of the request topic
    client,     \* of each client: Gone or what the object holds
    up,         \* the servers that exist
    queue,      \* of each server, the requests its subscription has not received
    held,       \* of each server, the requests it has yet to answer
    inbox,      \* of each client, the responses its subscription has not received
    created,    \* ghost: clients created so far
    borrowed,   \* ghost: requests borrowed so far
    lost        \* ghost: <<client, seqno>> of requests that one of the servers will not answer

vars == <<nextId, client, up, queue, held, inbox, created, borrowed, lost>>

Gone == [born |-> 0]
Exists(c) == client[c] # Gone

Init ==
    /\ nextId = 0 /\ up = {}
    /\ client = [c \in Clients |-> Gone]
    /\ queue = [s \in Servers |-> <<>>] /\ held = [s \in Servers |-> {}]
    /\ inbox = [c \in Clients |-> <<>>]
    /\ created = 0 /\ borrowed = 0 /\ lost = {}

\* What is left of a queue of the given depth.
Keep(q) == IF Len(q) > Depth THEN Tail(q) ELSE q
Dropped(q) == IF Len(q) > Depth THEN {Head(q)} ELSE {}
Calls(S) == {<<r.born, r.seqno>> : r \in {q \in S : \E c \in Clients : client[c].born = q.born}}

\* The kernel removes a topic without endpoints, and with it its id counter.
IdAfter(clients, servers) == IF clients = {} /\ servers = {} THEN 0 ELSE nextId

-----------------------------------------------------------------------------
(* Clients.                                                                *)

\* The constructor: the publisher, then the subscription to the response topic.
CreateClient(c) ==
    /\ ~Exists(c) /\ created < MaxClients
    /\ created' = created + 1
    /\ nextId' = nextId + 1
    /\ client' = [client EXCEPT ![c] =
           [born |-> created + 1, id |-> nextId, next |-> 0,
            loaned |-> {}, sending |-> {}, pending |-> {}]]
    /\ inbox' = [inbox EXCEPT ![c] = <<>>]
    /\ UNCHANGED <<up, queue, held, borrowed, lost>>

\* borrow_loaned_request: fetch_add gives every request its sequence number.
BorrowRequest(c) ==
    /\ Exists(c) /\ borrowed < MaxRequests
    /\ borrowed' = borrowed + 1
    /\ client' = [client EXCEPT ![c].next = @ + 1, ![c].loaned = @ \cup {client[c].next}]
    /\ UNCHANGED <<nextId, up, queue, held, inbox, created, lost>>

\* cancel_request, or the destructor of a request that is not sent.
CancelRequest(c, n) ==
    /\ Exists(c) /\ n \in client[c].loaned
    /\ client' = [client EXCEPT ![c].loaned = @ \ {n}]
    /\ UNCHANGED <<nextId, up, queue, held, inbox, created, borrowed, lost>>

\* send_request_impl first enters the call into seqno2_response_call_info_ ...
RegisterCall(c, n) ==
    /\ Exists(c) /\ n \in client[c].loaned
    /\ client' = [client EXCEPT ![c].loaned = @ \ {n}, ![c].pending = @ \cup {n},
                                ![c].sending = @ \cup {n}]
    /\ UNCHANGED <<nextId, up, queue, held, inbox, created, borrowed, lost>>

\* ... then publishes the request.  A service that is slow or not there yet never
\* sees it: the topic is volatile and keeps the last Depth entries.
PublishRequest(c, n) ==
    /\ Exists(c) /\ n \in client[c].sending
    /\ LET request == [id |-> client[c].id, seqno |-> n, born |-> client[c].born]
           longer == [s \in Servers |-> IF s \in up THEN Append(queue[s], request) ELSE queue[s]]
       IN /\ queue' = [s \in Servers |-> Keep(longer[s])]
          /\ lost' = lost \cup Calls(UNION {Dropped(longer[s]) : s \in Servers})
                          \cup (IF up = {} THEN Calls({request}) ELSE {})
    /\ client' = [client EXCEPT ![c].sending = @ \ {n}]
    /\ UNCHANGED <<nextId, up, held, inbox, created, borrowed>>

\* Mutant: the call is looked up and not erased.
ReceiveResponse_keeps(c) ==
    /\ Exists(c) /\ inbox[c] # <<>>
    /\ inbox' = [inbox EXCEPT ![c] = Tail(@)]
    /\ UNCHANGED <<client, nextId, up, queue, held, created, borrowed, lost>>

\* The subscription's callback: a response without a call is logged and dropped.
ReceiveResponse(c) ==
    /\ Exists(c) /\ inbox[c] # <<>>
    /\ client' = [client EXCEPT ![c].pending = @ \ {Head(inbox[c]).seqno}]
    /\ inbox' = [inbox EXCEPT ![c] = Tail(@)]
    /\ UNCHANGED <<nextId, up, queue, held, created, borrowed, lost>>

\* The object is destroyed or its process dies.
DestroyClient(c) ==
    /\ Exists(c)
    /\ client' = [client EXCEPT ![c] = Gone]
    /\ inbox' = [inbox EXCEPT ![c] = <<>>]
    /\ nextId' = IdAfter({d \in Clients \ {c} : Exists(d)}, up)
    /\ lost' = {call \in lost : call[1] # client[c].born}
    /\ UNCHANGED <<up, queue, held, created, borrowed>>

-----------------------------------------------------------------------------
(* Servers.                                                                *)

CreateService(s) ==
    /\ s \notin up
    /\ up' = up \cup {s}
    /\ queue' = [queue EXCEPT ![s] = <<>>] /\ held' = [held EXCEPT ![s] = {}]
    /\ UNCHANGED <<nextId, client, inbox, created, borrowed, lost>>

\* The callback of the request subscription.  A basic one answers before it
\* takes the next request, a deferred one keeps the request.
TakeRequest(s) ==
    /\ s \in up /\ queue[s] # <<>>
    /\ s \in Deferred \/ held[s] = {}
    /\ held' = [held EXCEPT ![s] = @ \cup {Head(queue[s])}]
    /\ queue' = [queue EXCEPT ![s] = Tail(@)]
    /\ UNCHANGED <<nextId, client, up, inbox, created, borrowed, lost>>

\* Mutant: the name of the response topic lacks the client's publisher id.
Answers_sameNode(r, c) == Exists(c)

\* The client, if any, that subscribes to the response topic a request names.
Answers(r, c) == Exists(c) /\ client[c].id = r.id

\* borrow_loaned_response and publish, or send_response.  Responses a client is
\* too slow to receive are dropped.
SendResponse(s, r) ==
    /\ s \in up /\ r \in held[s]
    /\ held' = [held EXCEPT ![s] = @ \ {r}]
    /\ LET longer == [c \in Clients |-> IF Answers(r, c) THEN Append(inbox[c], r) ELSE inbox[c]]
       IN /\ inbox' = [c \in Clients |-> Keep(longer[c])]
          /\ lost' = lost \cup Calls(UNION {Dropped(longer[c]) : c \in Clients})
    /\ UNCHANGED <<nextId, client, up, queue, created, borrowed>>

\* cancel_response: the client is not told.
CancelResponse(s, r) ==
    /\ s \in up \cap Deferred /\ r \in held[s]
    /\ held' = [held EXCEPT ![s] = @ \ {r}]
    /\ lost' = lost \cup Calls({r})
    /\ UNCHANGED <<nextId, client, up, queue, inbox, created, borrowed>>

DestroyService(s) ==
    /\ s \in up
    /\ up' = up \ {s}
    /\ queue' = [queue EXCEPT ![s] = <<>>] /\ held' = [held EXCEPT ![s] = {}]
    /\ lost' = lost \cup Calls(held[s] \cup ToSet(queue[s]))
    /\ nextId' = IdAfter({c \in Clients : Exists(c)}, up')
    /\ UNCHANGED <<client, inbox, created, borrowed>>

Next ==
    \/ \E c \in Clients :
          \/ CreateClient(c) \/ BorrowRequest(c) \/ ReceiveResponse(c) \/ DestroyClient(c)
          \/ \E n \in 0..MaxRequests - 1 :
                CancelRequest(c, n) \/ RegisterCall(c, n) \/ PublishRequest(c, n)
    \/ \E s \in Servers :
          \/ CreateService(s) \/ TakeRequest(s) \/ DestroyService(s)
          \/ \E r \in held[s] : SendResponse(s, r) \/ CancelResponse(s, r)

Spec == Init /\ [][Next]_vars

-----------------------------------------------------------------------------
(* Properties.                                                             *)

\* No client is ever given a response to another client's request, be it one
\* that lived before it under the same node name and counted from zero as well.
NoCrossTalk ==
    \A c \in Clients : \A i \in DOMAIN inbox[c] : inbox[c][i].born = client[c].born

\* A future that is not resolved is accounted for: its request or its response is
\* on the way, or was lost in one of the ways in which a queue, a service or a
\* cancelled response loses it.  A call is never forgotten otherwise.
NoOrphanCall ==
    \A c \in {d \in Clients : Exists(d)} : \A n \in client[c].pending :
        \/ n \in client[c].sending
        \/ <<client[c].born, n>> \in lost
        \/ \E s \in up : \E r \in held[s] \cup ToSet(queue[s]) :
              r.born = client[c].born /\ r.seqno = n
        \/ \E i \in DOMAIN inbox[c] : inbox[c][i].seqno = n
=============================================================================
