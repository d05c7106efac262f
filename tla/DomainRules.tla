---------------------------- MODULE DomainRules ----------------------------
(***************************************************************************)
(* Domain bridge rules of the kernel module.  A cell is a topic name in a   *)
(* ROS domain.  A rule pairs two cells, or every name under a prefix in one *)
(* domain with the same name in the other, and the cells it pairs share     *)
(* one topic_struct.  Rules are declared by a registration tool that reads  *)
(* domain_bridge YAMLs, or by any caller of the ioctls, while endpoints     *)
(* come and go.                                                             *)
(*                                                                          *)
(* Everything happens under global_htables_rwsem held for writing, so an    *)
(* ioctl is one step; the tool makes one call per leg of a topic.  Names    *)
(* are sequences, so that one can be a prefix of another.                   *)
(***************************************************************************)
EXTENDS Integers, Sequences, SequencesExt, FiniteSets

CONSTANTS
    Domains, Names,
    PrefixDecls,    \* bound: prefix declarations, <<prefix, from, to>>
    Specs,       \* bound: topics of the YAMLs: [topic, remap, from, to, both, reversed]
    Ends,        \* bound: endpoints alive at once
    MaxRules     \* bound: rules

ASSUME DomainRulesAssumption ==
    /\ Domains \subseteq Int /\ Names \subseteq Seq(STRING)
    /\ PrefixDecls \subseteq Seq(STRING) \X Domains \X Domains
    /\ Specs \subseteq [topic : Names, remap : Names, from : Domains, to : Domains,
                        both : BOOLEAN, reversed : BOOLEAN]

None == [none |-> TRUE]
\* -EBUSY
Busy == {None}
Cell(n, d) == [name |-> n, domain |-> d]
Cells == {Cell(n, d) : n \in Names, d \in Domains}

VARIABLES
    rules,      \* domain_rule_htable: [a, b, prefix, dirs] with a.domain < b.domain
    structs,    \* topic_structs: [cells (its wrappers), rule (the pair it was made under)]
    ends,       \* Ends -> None or [cell, kind, left (a publisher that is gone
                \* but whose messages are referenced)]
    legs,       \* ioctls the registration tool has yet to make
    accepted    \* ghost: declarations that were accepted

vars == <<rules, structs, ends, legs, accepted>>

Wrappers == UNION {s.cells : s \in structs}
StructOf(c) == CHOOSE s \in structs : c \in s.cells

Init ==
    /\ rules = {} /\ structs = {} /\ legs = <<>> /\ accepted = {}
    /\ ends = [e \in Ends |-> None]

-----------------------------------------------------------------------------
\* Looking a rule up

Matches(r, c) ==
    /\ c.domain \in {r.a.domain, r.b.domain}
    /\ IF r.prefix THEN IsPrefix(r.a.name, c.name) ELSE c \in {r.a, r.b}

find_domain_rule(c) ==
    IF \E r \in rules : Matches(r, c) THEN CHOOSE r \in rules : Matches(r, c) ELSE None

\* The cell a rule pairs with c
Partner(r, c) ==
    LET other == IF c.domain = r.a.domain THEN r.b ELSE r.a
    IN  IF r.prefix THEN Cell(c.name, other.domain) ELSE other

Pair(r) == [a |-> r.a, b |-> r.b, prefix |-> r.prefix]
RuleOf(s) == CHOOSE r \in rules : Pair(r) = s.rule

-----------------------------------------------------------------------------
\* Declaring a rule.  A declaration is [from, to, prefix].

Canonical(from, to, prefix) ==
    [a |-> IF from.domain < to.domain THEN from ELSE to,
     b |-> IF from.domain < to.domain THEN to ELSE from,
     prefix |-> prefix, dirs |-> {<<from.domain, to.domain>>}]

Enables(r, from, to) == <<from.domain, to.domain>> \notin r.dirs

\* Mutant: the wrappers are looked at before the rule is known to be there already.
Exact_topicFirst(from, to) ==
    LET f == find_domain_rule(from)
        t == find_domain_rule(to)
    IN  IF {from, to} \cap Wrappers # {} THEN Busy
        ELSE IF f = None /\ t = None THEN rules \cup {Canonical(from, to, FALSE)}
        ELSE IF f # t \/ f.prefix THEN Busy
        ELSE (rules \ {f}) \cup {[f EXCEPT !.dirs = @ \cup {<<from.domain, to.domain>>}]}

\* Mutant: a direction is added to a rule whatever endpoints there are.
Exact_anytime(from, to) ==
    LET f == find_domain_rule(from)
        t == find_domain_rule(to)
    IN  IF f # t \/ (f # None /\ f.prefix) THEN Busy
        ELSE IF f = None /\ {from, to} \cap Wrappers # {} THEN Busy
        ELSE IF f = None THEN rules \cup {Canonical(from, to, FALSE)}
        ELSE (rules \ {f}) \cup {[f EXCEPT !.dirs = @ \cup {<<from.domain, to.domain>>}]}

\* add_domain_rule: what becomes of the rules, or Busy
Exact(from, to) ==
    LET f == find_domain_rule(from)
        t == find_domain_rule(to)
    IN  IF f # t \/ (f # None /\ f.prefix) THEN Busy
        ELSE IF f # None /\ ~Enables(f, from, to) THEN rules
        ELSE IF {from, to} \cap Wrappers # {} THEN Busy
        ELSE IF f = None THEN rules \cup {Canonical(from, to, FALSE)}
        ELSE (rules \ {f}) \cup {[f EXCEPT !.dirs = @ \cup {<<from.domain, to.domain>>}]}

\* Mutant: only the names of one of the two domains are looked at.
any_topic_under_prefix_from(p, from, to) ==
    \E c \in Wrappers : c.domain = from /\ IsPrefix(p, c.name)

any_topic_under_prefix(p, from, to) ==
    \E c \in Wrappers : c.domain \in {from, to} /\ IsPrefix(p, c.name)

\* Mutant: a prefix rule under an existing one is not noticed.
Nests_below(p, q) == IsPrefix(q, p)

Nests(p, q) == IsPrefix(p, q) \/ IsPrefix(q, p)

\* An existing rule that a prefix rule would overlap
Overlaps(r, p, from, to) ==
    IF r.prefix
    THEN /\ Nests(p, r.a.name)
         /\ {r.a.domain, r.b.domain} \cap {from, to} # {}
         /\ ~(r.a.name = p /\ {r.a.domain, r.b.domain} = {from, to})
    ELSE \E c \in {r.a, r.b} : c.domain \in {from, to} /\ IsPrefix(p, c.name)

\* add_prefix_domain_rule
Prefixed(p, from, to) ==
    LET new == Canonical(Cell(p, from), Cell(p, to), TRUE)
        same == {r \in rules : Pair(r) = Pair(new)}
    IN  IF \E r \in rules : Overlaps(r, p, from, to) THEN Busy
        ELSE IF \E r \in same : ~Enables(r, Cell(p, from), Cell(p, to)) THEN rules
        ELSE IF any_topic_under_prefix(p, from, to) THEN Busy
        ELSE (rules \ same) \cup {[new EXCEPT !.dirs = @ \cup UNION {r.dirs : r \in same}]}

Outcome(d) == IF d.prefix THEN Prefixed(d.from.name, d.from.domain, d.to.domain)
              ELSE Exact(d.from, d.to)

\* -EINVAL when both ends are in one domain, else the ioctl's verdict
Declare(d) ==
    IF d.from.domain = d.to.domain \/ Outcome(d) = Busy
    THEN UNCHANGED <<rules, accepted>>
    ELSE /\ rules' = Outcome(d)
         /\ Cardinality(rules') <= MaxRules
         /\ accepted' = accepted \cup {d}

DeclarePrefix(p, from, to) ==
    /\ Declare([from |-> Cell(p, from), to |-> Cell(p, to), prefix |-> TRUE])
    /\ UNCHANGED <<structs, ends, legs>>

\* parse_domain_bridge_config: the legs of one topic
LegsOf(s) ==
    LET from == IF s.reversed THEN s.to ELSE s.from
        to == IF s.reversed THEN s.from ELSE s.to
        leg(x, y) == [from |-> Cell(s.topic, x), to |-> Cell(s.remap, y), prefix |-> FALSE]
    IN  IF s.both THEN <<leg(from, to), leg(to, from)>> ELSE <<leg(from, to)>>

RunTool(s) ==
    /\ legs = <<>>
    /\ legs' = LegsOf(s)
    /\ UNCHANGED <<rules, structs, ends, accepted>>

\* The tool goes on with the next leg whatever the kernel answers.
RegisterLeg ==
    /\ legs # <<>>
    /\ Declare(Head(legs))
    /\ legs' = Tail(legs)
    /\ UNCHANGED <<structs, ends>>

-----------------------------------------------------------------------------
\* Endpoints

\* add_topic: share the partner's struct, or make one under the rule in force
add_topic(c) ==
    LET r == find_domain_rule(c)
    IN  IF c \in Wrappers THEN UNCHANGED structs
        ELSE IF r # None /\ Partner(r, c) \in Wrappers
        THEN LET s == StructOf(Partner(r, c))
             IN  structs' = (structs \ {s}) \cup {[s EXCEPT !.cells = @ \cup {c}]}
        ELSE structs' = structs \cup
                {[cells |-> {c}, rule |-> IF r = None THEN None ELSE Pair(r)]}

Join(e, c, kind) ==
    /\ ends[e] = None
    /\ add_topic(c)
    /\ ends' = [ends EXCEPT ![e] = [cell |-> c, kind |-> kind, left |-> FALSE]]
    /\ UNCHANGED <<rules, legs, accepted>>

EndsOf(f, c) == {e \in Ends : f[e] # None /\ f[e].cell = c}

\* agnocast_release_topic_wrapper, for the caller's own wrapper
Release(c, f) ==
    IF EndsOf(f, c) # {} THEN UNCHANGED structs
    ELSE LET s == StructOf(c)
         IN  structs' = (structs \ {s}) \cup
                 (IF s.cells = {c} THEN {} ELSE {[s EXCEPT !.cells = @ \ {c}]})

\* remove_publisher and remove_subscriber.  A publisher stays on record while its
\* messages are referenced; a subscriber that leaves may take such publishers of
\* either domain with it, but only its own wrapper is looked at.
Leave(e, swept, stays) ==
    /\ ends[e] # None /\ ~ends[e].left
    /\ stays => ends[e].kind = "pub"
    /\ swept \subseteq {x \in Ends : /\ ends[x] # None /\ ends[x].left
                                    /\ StructOf(ends[x].cell) = StructOf(ends[e].cell)}
    /\ swept # {} => ends[e].kind = "sub"
    /\ LET f == [x \in Ends |-> IF x \in swept \/ (x = e /\ ~stays) THEN None
                                ELSE IF x = e THEN [ends[e] EXCEPT !.left = TRUE] ELSE ends[x]]
       IN  ends' = f /\ Release(ends[e].cell, f)
    /\ UNCHANGED <<rules, legs, accepted>>

Next ==
    \/ \E d \in PrefixDecls : DeclarePrefix(d[1], d[2], d[3])
    \/ \E s \in Specs : RunTool(s)
    \/ RegisterLeg
    \/ \E e \in Ends, c \in Cells, kind \in {"pub", "sub"} : Join(e, c, kind)
    \/ \E e \in Ends, swept \in SUBSET Ends, stays \in BOOLEAN : Leave(e, swept, stays)

Spec == Init /\ [][Next]_vars

-----------------------------------------------------------------------------
\* Delivery

\* domain_delivery_allowed: may what p publishes reach s?  (Endpoints of a bridge,
\* which never cross, are in Topic.)
Allowed(p, s) ==
    /\ StructOf(p.cell) = StructOf(s.cell)
    /\ \/ p.cell.domain = s.cell.domain
       \/ /\ StructOf(p.cell).rule # None
          /\ <<p.cell.domain, s.cell.domain>> \in RuleOf(StructOf(p.cell)).dirs

-----------------------------------------------------------------------------
\* Properties

\* "Each cell belongs to at most one rule": whatever exact and prefix rules are
\* declared in whatever order, find_domain_rule never has to choose.
OneRulePerCell ==
    \A c \in Cells : \A r, q \in rules : Matches(r, c) /\ Matches(q, c) => r = q

\* Two wrappers share a topic_struct exactly when the rules in force pair their
\* cells, and a struct was made under the rule that covers its cells now, however
\* rules and endpoints were interleaved.
GroupedByRule ==
    \A s \in structs : \A c \in s.cells :
        LET r == find_domain_rule(c)
        IN  IF r = None THEN s.rule = None /\ s.cells = {c}
            ELSE s.rule = Pair(r) /\ s.cells = {c, Partner(r, c)} \cap Wrappers

\* Who may be reached by whom is settled when endpoints join: no declaration opens
\* or closes a direction between two endpoints that exist, whose notify lists and
\* shared memory were set up for the directions of that time.
ReachIsFixed ==
    [][\A e, f \in Ends :
          (/\ ends[e] # None /\ ends'[e] = ends[e] /\ ends[e].kind = "pub"
           /\ ends[f] # None /\ ends'[f] = ends[f] /\ ends[f].kind = "sub")
          => (Allowed(ends[e], ends[f]) <=> Allowed(ends[e], ends[f])')]_vars

\* Running the registration tool again with the same config always succeeds: a
\* declaration that was accepted once is accepted in every later state.
RedeclareAccepted == \A d \in accepted : Outcome(d) = rules

=============================================================================
