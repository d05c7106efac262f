----------------------------- MODULE Parameters -----------------------------
(***************************************************************************)
(* NodeParameters and the parameter services of a node.  Values carry their  *)
(* type; a descriptor says whether the type may change, whether the value  *)
(* may, and which integers are in range.  Every operation runs under       *)
(* parameters_mutex_, but the set_parameters service takes it once for     *)
(* each parameter of a request, so other threads come in between.          *)
(***************************************************************************)
EXTENDS Integers, Sequences, FiniteSets

CONSTANTS
    Names,
    Values,         \* the values but NotSet, as <<type, payload>>
    Descriptors,    \* [dynamic, readOnly, range], range a set of integers
    Overrides,      \* <<global, local, given>>: the overrides of each source, by name
    Callbacks,      \* on-set callbacks: the sets of <<name, value>> they reject
    Requests        \* sequences of <<name, value>>: what is set at once or in turn

NotSet == <<"not_set", 0>>
AllValues == Values \cup {NotSet}
Type(v) == v[1]

ASSUME ParametersAssumption == NotSet \notin Values

VARIABLES
    allowUndeclared,
    overrides,      \* parameter_overrides_
    params,         \* parameters_: declared names to [value, type] and their descriptor
    callbacks,      \* on_parameters_set_callback_container_
    serving         \* the rest of the request a set_parameters service is at

vars == <<allowUndeclared, overrides, params, callbacks, serving>>

Dynamic == [dynamic |-> TRUE, readOnly |-> FALSE, range |-> {}]
Info(v, type, d) == [value |-> v, type |-> type, desc |-> d]

-----------------------------------------------------------------------------
(* Checks.                                                                 *)

\* check_parameter_value_in_range: only integers are looked at.
InRange(d, v) == d.range = {} \/ Type(v) # "int" \/ v[2] \in d.range

\* check_parameters for one value: the type a static descriptor was given.
Complies(info, v) == (info.desc.dynamic \/ info.type = Type(v)) /\ InRange(info.desc, v)

\* Mutant: the request is shown to no callback.
Accepted_unasked(request) == TRUE

\* call_on_parameters_set_callbacks: every callback sees the whole request.
Accepted(request) ==
    \A cb \in callbacks : \A i \in DOMAIN request : request[i] \notin cb

Declared(n) == n \in DOMAIN params

Put(store, n, info) == [m \in DOMAIN store \cup {n} |-> IF m = n THEN info ELSE store[m]]
Erase(store, S) == [m \in DOMAIN store \ S |-> store[m]]

-----------------------------------------------------------------------------
(* Declaring.                                                              *)

\* resolve_parameter_overrides: local arguments win over global ones, and what
\* the constructor is given over both.
Resolve(global, local, given) ==
    [n \in DOMAIN global \cup DOMAIN local \cup DOMAIN given |->
        IF n \in DOMAIN given THEN given[n]
        ELSE IF n \in DOMAIN local THEN local[n] ELSE global[n]]

\* declare_parameter_common: the override, if any and not ignored, replaces the
\* default; without a value there is nothing to check.
Initial(n, default, ignore) ==
    IF ~ignore /\ n \in DOMAIN overrides THEN overrides[n] ELSE default

\* The type of a statically typed parameter is that of its default.
DeclaredInfo(n, type, v, d) == Info(v, IF v = NotSet /\ d.dynamic THEN "not_set"
                                       ELSE IF d.dynamic THEN Type(v) ELSE type, d)

\* Mutant: an override is stored as it came.
CanDeclare_trusting(n, type, v, d) == ~Declared(n) /\ (~d.dynamic => type # "not_set")

CanDeclare(n, type, v, d) ==
    /\ ~Declared(n)
    /\ ~d.dynamic => type # "not_set"
    /\ v # NotSet =>
        /\ Complies(DeclaredInfo(n, type, v, d), v)
        /\ Accepted(<<<<n, v>>>>)

\* Either declare_parameter: with a default, or with a type and no value.
DeclareParameter(n, type, default, d, ignore) ==
    /\ default # NotSet => type = Type(default)
    /\ default = NotSet /\ type # "not_set" => ~d.dynamic
    /\ LET v == Initial(n, default, ignore)
       IN /\ CanDeclare(n, type, v, d)
          /\ params' = Put(params, n, DeclaredInfo(n, type, v, d))
    /\ UNCHANGED <<allowUndeclared, overrides, callbacks, serving>>

\* One turn of automatically_declare_parameters_from_overrides; each takes the
\* lock for itself, and the first that a callback rejects ends the loop.
AutoDeclare(n) ==
    /\ n \in DOMAIN overrides
    /\ CanDeclare(n, "not_set", overrides[n], Dynamic)
    /\ params' = Put(params, n, DeclaredInfo(n, "not_set", overrides[n], Dynamic))
    /\ UNCHANGED <<allowUndeclared, overrides, callbacks, serving>>

UndeclareParameter(n) ==
    /\ Declared(n)
    /\ ~params[n].desc.readOnly /\ params[n].desc.dynamic
    /\ params' = Erase(params, {n})
    /\ UNCHANGED <<allowUndeclared, overrides, callbacks, serving>>

-----------------------------------------------------------------------------
(* Setting.                                                                *)

NamesIn(request) == {request[i][1] : i \in DOMAIN request}
LastFor(request, n) ==
    LET i == CHOOSE i \in DOMAIN request :
                 /\ request[i][1] = n
                 /\ \A j \in DOMAIN request : j > i => request[j][1] # n
    IN request[i][2]

\* The names are declared or may be, and none is read-only.
MaySet(request) ==
    \A n \in NamesIn(request) :
        IF Declared(n) THEN ~params[n].desc.readOnly ELSE allowUndeclared

\* The undeclared ones are declared in a staging area with a dynamic type; the
\* first entry of the request then takes the value that was staged last.
Staged(request) == {n \in NamesIn(request) : ~Declared(n)}
FirstFor(request, n) ==
    CHOOSE i \in DOMAIN request :
        request[i][1] = n /\ \A j \in DOMAIN request : request[j][1] = n => i <= j
ToBeSet(request) == [i \in DOMAIN request |->
    LET n == request[i][1]
    IN IF n \in Staged(request) /\ i = FirstFor(request, n)
       THEN <<n, LastFor(request, n)>> ELSE request[i]]

\* A value that is reset to NotSet undeclares its parameter, if its type is dynamic.
ToBeUndeclared(request) ==
    {n \in NamesIn(request) : /\ Declared(n) /\ params[n].value # NotSet
                              /\ \E i \in DOMAIN request : request[i] = <<n, NotSet>>}

InfoFor(n) == IF Declared(n) THEN params[n] ELSE Info(NotSet, "not_set", Dynamic)

Settable(request) ==
    /\ MaySet(request)
    /\ \A n \in ToBeUndeclared(request) : params[n].desc.dynamic
    /\ \A i \in DOMAIN request : Complies(InfoFor(request[i][1]), request[i][2])
    /\ Accepted(ToBeSet(request))

\* The store after all of the request, as one step; the first failure leaves it
\* as it was.
AfterSet(request) ==
    LET values == ToBeSet(request)
        changed == [n \in DOMAIN params \cup NamesIn(request) |->
            IF n \in NamesIn(request)
            THEN Info(LastFor(values, n), Type(LastFor(values, n)), InfoFor(n).desc)
            ELSE params[n]]
    IN Erase(changed, ToBeUndeclared(request))

SetParametersAtomically(request) ==
    /\ Settable(request)
    /\ params' = AfterSet(request)
    /\ UNCHANGED <<allowUndeclared, overrides, callbacks, serving>>

-----------------------------------------------------------------------------
(* The set_parameters service sets one parameter after the other.          *)

SetParametersRequest(request) ==
    /\ serving = <<>>
    /\ serving' = request
    /\ UNCHANGED <<allowUndeclared, overrides, params, callbacks>>

\* What one parameter of the request does does not depend on the others: a
\* failure is reported in its result and the next one is tried.
ServeNext ==
    /\ serving # <<>>
    /\ serving' = Tail(serving)
    /\ params' = IF Settable(<<Head(serving)>>) THEN AfterSet(<<Head(serving)>>) ELSE params
    /\ UNCHANGED <<allowUndeclared, overrides, callbacks>>

-----------------------------------------------------------------------------
(* Callbacks and the node's options.                                       *)

AddOnSetParametersCallback(cb) ==
    /\ cb \notin callbacks
    /\ callbacks' = callbacks \cup {cb}
    /\ UNCHANGED <<allowUndeclared, overrides, params, serving>>

RemoveOnSetParametersCallback(cb) ==
    /\ cb \in callbacks
    /\ callbacks' = callbacks \ {cb}
    /\ UNCHANGED <<allowUndeclared, overrides, params, serving>>

Init ==
    /\ allowUndeclared \in BOOLEAN
    /\ \E source \in Overrides : overrides = Resolve(source[1], source[2], source[3])
    /\ params = <<>> /\ callbacks = {} /\ serving = <<>>

Next ==
    \/ \E n \in Names, d \in Descriptors, v \in AllValues, ignore \in BOOLEAN :
          \E type \in {Type(w) : w \in AllValues} : DeclareParameter(n, type, v, d, ignore)
    \/ \E n \in Names : AutoDeclare(n) \/ UndeclareParameter(n)
    \/ \E request \in Requests :
          SetParametersAtomically(request) \/ SetParametersRequest(request)
    \/ ServeNext
    \/ \E cb \in Callbacks : AddOnSetParametersCallback(cb) \/ RemoveOnSetParametersCallback(cb)

Spec == Init /\ [][Next]_vars

-----------------------------------------------------------------------------
(* Properties.                                                             *)

\* What the store holds agrees with what was declared: a static parameter has
\* no value or one of its type, and an integer is in its range, whether it came
\* from a default, an override, a request or a partly served one.
DescriptorsHold ==
    \A n \in DOMAIN params :
        LET info == params[n]
        IN /\ info.desc.dynamic \/ info.value = NotSet \/ Type(info.value) = info.type
           /\ InRange(info.desc, info.value)

\* No value gets into the store past a callback that rejects it.
VetoRespected == [][\A n \in DOMAIN params' :
    (n \notin DOMAIN params \/ params[n].value # params'[n].value) =>
        params'[n].value = NotSet \/ \A cb \in callbacks : <<n, params'[n].value>> \notin cb]_vars
=============================================================================
