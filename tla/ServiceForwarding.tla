------------------------- MODULE ServiceForwarding -------------------------
(***************************************************************************)
(* The two ends of a service bridge inside the bridge manager.  An A2R     *)
(* bridge offers an Agnocast service and passes its requests on to a ROS 2 *)
(* service: requests wait in a bounded deque until that service is there.  *)
(* An R2A bridge passes the requests of ROS 2 clients on to an Agnocast    *)
(* service.  Calls of a direction are numbered in their order of arrival.  *)
(*                                                                         *)
(* The callback of the Agnocast service and the drain timer share a        *)
(* mutually exclusive callback group (Executor: GroupsExclusive); the      *)
(* responses of the ROS 2 service are handled in another group.            *)
(***************************************************************************)
EXTENDS Naturals, Sequences, SequencesExt

CONSTANTS
    LibraryPaths,          \* generate_library_paths, a sequence
    Provides,              \* the libraries that have a factory for this type
    kMaxPendingRequests,
    MaxCalls, MaxR2aCalls  \* calls of each direction, bounds of the model

VARIABLES
    present,    \* library files that dlopen would load now
    loaded,     \* loaded_libraries_
    factory,    \* who made the bridge: "none", "plugin" or "generic"
    ready,      \* service_is_ready of the ROS 2 client
    requests,   \* the deque of pending requests
    group,      \* srv_cbg: "idle", "check" before and "send" in the loop of send_requests
    sending,    \* the request whose async_send_request holds pending_requests_mutex_
    wire,       \* requests at the ROS 2 service
    responses,  \* responses that wait for handle_response
    calls,      \* pending_requests_ of the ROS 2 client
    fate,       \* of each A2R call that is over: how it ended
    order,      \* ghost: the requests in the order in which they were sent
    arrived,    \* A2R calls so far
    forwarded,  \* R2A calls that wait for the Agnocast service
    r2aFate,    \* of each R2A call that is over: how it ended
    r2aArrived  \* R2A calls so far

loaderVars == <<present, loaded, factory>>
a2rVars == <<ready, requests, group, sending, wire, responses, calls, fate, order, arrived>>
r2aVars == <<forwarded, r2aFate, r2aArrived>>
vars == <<loaderVars, a2rVars, r2aVars>>

None == 0

Init ==
    /\ present \in SUBSET ToSet(LibraryPaths) /\ loaded = {} /\ factory = "none"
    /\ ready = FALSE /\ requests = <<>> /\ group = "idle" /\ sending = None
    /\ wire = {} /\ responses = {} /\ calls = {} /\ fate = <<>> /\ order = <<>>
    /\ arrived = 0
    /\ forwarded = {} /\ r2aFate = <<>> /\ r2aArrived = 0

Ends(f, r, how) == [q \in DOMAIN f \cup {r} |-> IF q = r THEN how ELSE f[q]]

-----------------------------------------------------------------------------
(* BridgeLoader.                                                           *)

\* A plugin package is built or removed.
Install ==
    /\ factory = "none"
    /\ present' \in SUBSET ToSet(LibraryPaths)
    /\ UNCHANGED <<loaded, factory, a2rVars, r2aVars>>

\* load_library_from_paths: the first path that is loaded already or that loads.
Loadable(i) == LibraryPaths[i] \in loaded \cup present
FirstLoadable(i) == Loadable(i) /\ \A j \in 1..i-1 : ~Loadable(j)

\* get_bridge_factory_symbol asks one library; without a symbol the generic bridge
\* is made.
CreateBridge ==
    /\ factory = "none"
    /\ \/ \E i \in DOMAIN LibraryPaths :
            /\ FirstLoadable(i)
            /\ loaded' = loaded \cup {LibraryPaths[i]}
            /\ factory' = IF LibraryPaths[i] \in Provides THEN "plugin" ELSE "generic"
       \/ /\ \A i \in DOMAIN LibraryPaths : ~Loadable(i)
          /\ factory' = "generic" /\ UNCHANGED loaded
    /\ UNCHANGED <<present, a2rVars, r2aVars>>

\* get_copier goes through CDR and may fail; a plugin copies the typed message.
CopyFails == factory = "generic"

-----------------------------------------------------------------------------
(* A2R.                                                                    *)

\* The oldest request makes room; its caller is not told.
add_request(r) ==
    IF Len(requests) < kMaxPendingRequests
    THEN requests' = Append(requests, r) /\ UNCHANGED fate
    ELSE /\ requests' = Append(Tail(requests), r)
         /\ fate' = Ends(fate, Head(requests), "dropped")

\* The callback of the Agnocast service: add_request, then send_requests.
RequestArrives ==
    /\ factory # "none" /\ arrived < MaxCalls /\ group = "idle"
    /\ arrived' = arrived + 1
    /\ add_request(arrived + 1)
    /\ group' = "check"
    /\ UNCHANGED <<loaderVars, ready, sending, wire, responses, calls, order, r2aVars>>

\* drain_requests_timer; send_requests returns at once if there is nothing to send.
DrainTimer ==
    /\ factory # "none" /\ group = "idle" /\ requests # <<>>
    /\ group' = "check"
    /\ UNCHANGED <<loaderVars, ready, requests, sending, wire, responses, calls, fate, order,
                   arrived, r2aVars>>

\* service_is_ready, asked once for the whole loop; it may also throw.
send_requests ==
    /\ group = "check"
    /\ \/ ready /\ group' = "send"
       \/ group' = "idle"
    /\ UNCHANGED <<loaderVars, ready, requests, sending, wire, responses, calls, fate, order,
                   arrived, r2aVars>>

\* async_send_request up to rcl_send_request, under pending_requests_mutex_.
SendRequest ==
    /\ group = "send" /\ sending = None /\ requests # <<>>
    /\ sending' = Head(requests)
    /\ requests' = Tail(requests)
    /\ wire' = wire \cup {Head(requests)}
    /\ order' = Append(order, Head(requests))
    /\ UNCHANGED <<loaderVars, ready, group, responses, calls, fate, arrived, r2aVars>>

\* rcl_send_request fails: the request is put back to the front, the loop ends.
SendFails ==
    /\ group = "send" /\ sending = None /\ requests # <<>>
    /\ group' = "idle"
    /\ UNCHANGED <<loaderVars, ready, requests, sending, wire, responses, calls, fate, order,
                   arrived, r2aVars>>

\* The call is entered and the mutex released; the loop goes on.
EnterCall ==
    /\ sending # None
    /\ calls' = calls \cup {sending}
    /\ sending' = None
    /\ UNCHANGED <<loaderVars, ready, requests, group, wire, responses, fate, order, arrived,
                   r2aVars>>

SendRequestsDone ==
    /\ group = "send" /\ sending = None /\ requests = <<>>
    /\ group' = "idle"
    /\ UNCHANGED <<loaderVars, ready, requests, sending, wire, responses, calls, fate, order,
                   arrived, r2aVars>>

\* The ROS 2 service comes and goes, and answers in any order or never.
RosService ==
    /\ \/ ready' = ~ready /\ UNCHANGED <<wire, responses>>
       \/ \E r \in wire : /\ wire' = wire \ {r} /\ responses' = responses \cup {r}
                          /\ UNCHANGED ready
    /\ UNCHANGED <<loaderVars, requests, group, sending, calls, fate, order, arrived, r2aVars>>

MutexFree == sending = None

\* The callback of a call copies the response, and answers or cancels.
Respond(r) ==
    \E how \in {"answered", "cancelled"} :
        (how = "cancelled" => CopyFails) /\ fate' = Ends(fate, r, how)

\* A response without a call is ignored.
handle_response(r) ==
    /\ r \in responses /\ MutexFree
    /\ responses' = responses \ {r}
    /\ calls' = calls \ {r}
    /\ IF r \in calls THEN Respond(r) ELSE UNCHANGED fate
    /\ UNCHANGED <<loaderVars, ready, requests, group, sending, wire, order, arrived, r2aVars>>

-----------------------------------------------------------------------------
(* R2A.                                                                    *)

\* The callback of the ROS 2 service: the copy fails and the loan is cancelled, or
\* the request is sent on.
RosRequest ==
    /\ factory # "none" /\ r2aArrived < MaxR2aCalls
    /\ r2aArrived' = r2aArrived + 1
    /\ \/ /\ CopyFails /\ r2aFate' = Ends(r2aFate, r2aArrived + 1, "cancelled")
          /\ UNCHANGED forwarded
       \/ forwarded' = forwarded \cup {r2aArrived + 1} /\ UNCHANGED r2aFate
    /\ UNCHANGED <<loaderVars, a2rVars>>

\* The Agnocast service answers; send_response may time out.
AgnocastResponse(r) ==
    /\ r \in forwarded
    /\ forwarded' = forwarded \ {r}
    /\ \E how \in {"answered", "timeout"} : r2aFate' = Ends(r2aFate, r, how)
    /\ UNCHANGED <<loaderVars, a2rVars, r2aArrived>>

Next ==
    \/ Install \/ CreateBridge
    \/ RequestArrives \/ DrainTimer \/ send_requests
    \/ SendRequest \/ SendFails \/ EnterCall \/ SendRequestsDone \/ RosService
    \/ \E r \in 1..MaxCalls : handle_response(r)
    \/ \E r \in 1..MaxR2aCalls : AgnocastResponse(r)
    \/ RosRequest

Spec == Init /\ [][Next]_vars

-----------------------------------------------------------------------------
(* Properties.                                                             *)

\* Requests are passed on in their order of arrival and each at most once, also when
\* sending fails and the request is put back.
ForwardedInOrder ==
    \A i, j \in DOMAIN order : i < j => order[i] < order[j]

\* Where a call can be.
Places == <<ToSet(requests), {sending} \ {None}, calls, DOMAIN fate>>

\* Every call that has arrived is in one place: it waits in the deque, is being sent,
\* waits for the ROS 2 service or is over; one that waits for the ROS 2 service has its
\* request or its response on the way.  A call is given up only by the four ways out
\* that the code logs, and the deque gives up the oldest.
CallsAccounted ==
    /\ \A r \in 1..arrived : \E i \in DOMAIN Places :
          r \in Places[i] /\ \A j \in DOMAIN Places \ {i} : r \notin Places[j]
    /\ calls \cup (IF sending = None THEN {} ELSE {sending}) = wire \cup responses
    /\ \A r \in DOMAIN fate : fate[r] = "dropped" =>
          r \notin ToSet(order) /\ \A i \in DOMAIN requests : r < requests[i]
    /\ forwarded \cup DOMAIN r2aFate = 1..r2aArrived /\ forwarded \cap DOMAIN r2aFate = {}
    /\ Len(requests) <= kMaxPendingRequests
=============================================================================
