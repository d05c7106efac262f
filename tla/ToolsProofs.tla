---------------------------- MODULE ToolsProofs -----------------------------
(***************************************************************************)
(* Proofs about the parts of MCTools, each of which rests while another    *)
(* one is exercised.                                                       *)
(*                                                                         *)
(* The domain bridge rules of the kernel module, for any names, domains,   *)
(* declarations and endpoints: no cell is claimed by two rules, topics are *)
(* grouped by the rules in force, what was accepted once is accepted       *)
(* again, and who reaches whom is settled when endpoints join.             *)
(*                                                                         *)
(* The type registry of the discovery agent, for any processes, domains    *)
(* and endpoints: what outlives a tick is reported, messages with their    *)
(* type.                                                                   *)
(*                                                                         *)
(* The passes of the thread configurator over kernel threads and IRQs, for *)
(* any states of theirs and any edits of the file: what is reported as     *)
(* applied is, and the template changes nothing.                           *)
(*                                                                         *)
(* Its callbacks and the reapply of the file, for any groups, threads and  *)
(* files: announcements are kept, counted and obeyed.                      *)
(***************************************************************************)
EXTENDS MCTools, FiniteSetTheorems, WellFoundedInduction, TLAPS

-----------------------------------------------------------------------------
\* Names and prefixes

\* Names are spelled in strings.
Spelled == Seq(STRING)

\* Two prefixes of one name nest.
LEMMA PrefixesNest ==
  ASSUME NEW p \in Spelled, NEW q \in Spelled, NEW n \in Spelled, IsPrefix(p, n), IsPrefix(q, n)
  PROVE  Nests(p, q)
<1>0. /\ Len(p) \in Nat /\ Len(q) \in Nat /\ Len(p) <= Len(n) /\ Len(q) <= Len(n)
      /\ SubSeq(p, 1, Len(p)) = SubSeq(n, 1, Len(p)) /\ SubSeq(q, 1, Len(q)) = SubSeq(n, 1, Len(q))
  BY DEF IsPrefix, Spelled
<1>1. \A i \in 1 .. Len(p) : p[i] = n[i]
  BY <1>0 DEF Spelled
<1>2. \A i \in 1 .. Len(q) : q[i] = n[i]
  BY <1>0 DEF Spelled
<1>3. CASE Len(p) <= Len(q)
  <2>1. SubSeq(p, 1, Len(p)) = SubSeq(q, 1, Len(p))
    BY <1>0, <1>1, <1>2, <1>3 DEF Spelled
  <2> QED BY <1>3, <2>1 DEF IsPrefix, Nests
<1>4. CASE Len(q) <= Len(p)
  <2>1. SubSeq(q, 1, Len(q)) = SubSeq(p, 1, Len(q))
    BY <1>0, <1>1, <1>2, <1>4 DEF Spelled
  <2> QED BY <1>4, <2>1 DEF IsPrefix, Nests
<1> QED BY <1>0, <1>3, <1>4

\* A name is a prefix of itself.
LEMMA PrefixOfItself == ASSUME NEW p \in Spelled PROVE IsPrefix(p, p)
BY DEF IsPrefix, Spelled

\* Cells, rules and declarations, whatever their names.
AnyCell == [name : Spelled, domain : Domains]
AnyRule == [a : AnyCell, b : AnyCell, prefix : BOOLEAN, dirs : SUBSET (Domains \X Domains)]
AnyDecl == [from : AnyCell, to : AnyCell, prefix : BOOLEAN]

\* A rule is kept with the lower domain first, and a prefix rule has one name.
RuleFormed(r) ==
  r \in AnyRule /\ r.a.domain < r.b.domain /\ (r.prefix => r.a.name = r.b.name)

\* A prefix declaration has one name too.
DeclFormed(d) == d \in AnyDecl /\ (d.prefix => d.from.name = d.to.name)

\* A rule that does what a declaration asks for.
Covers(r, d) ==
  Pair(r) = Pair(Canonical(d.from, d.to, d.prefix)) /\ <<d.from.domain, d.to.domain>> \in r.dirs

\* No two rules claim one cell, whatever its name.
Apart == \A r, q \in rules : \A c \in AnyCell : Matches(r, c) /\ Matches(q, c) => r = q

\* The rules are of this form.
RulesFormed == \A r \in rules : RuleFormed(r)

\* A declaration that was accepted is still in force.
AcceptedKept == \A d \in accepted : DeclFormed(d) /\ d.from.domain # d.to.domain
                                    /\ \E r \in rules : Covers(r, d)

\* So is what the tool has yet to declare.
LegsFormed == legs \in Seq({d \in AnyDecl : DeclFormed(d)})

\* The invariant of the rules.
RulesInv == RulesFormed /\ Apart /\ AcceptedKept /\ LegsFormed

\* Domains can be compared.
LEMMA DomainsInt == \A d \in Domains : d \in Int
BY DomainRulesAssumption

\* A rule is not the absence of one.
LEMMA NoRuleIsNone == \A r \in AnyRule : r # None
<1> SUFFICES ASSUME NEW r \in AnyRule, r = None PROVE FALSE
  OBVIOUS
<1>1. DOMAIN r = {"a", "b", "prefix", "dirs"}
  BY DEF AnyRule
<1>2. DOMAIN None = {"none"}
  BY DEF None
<1> QED BY <1>1, <1>2

\* The cells of the model are cells.
LEMMA CellsAreCells == Cells \subseteq AnyCell
BY DomainRulesAssumption DEF Cells, Cell, AnyCell, Spelled

\* What a rule matches, and what it pairs with what, depends on its pair only.
LEMMA MatchesByPair ==
  ASSUME NEW r \in AnyRule, NEW q \in AnyRule, Pair(r) = Pair(q), NEW c
  PROVE  (Matches(r, c) <=> Matches(q, c)) /\ Partner(r, c) = Partner(q, c)
<1>1. r.a = q.a /\ r.b = q.b /\ r.prefix = q.prefix
  BY DEF Pair
<1> QED BY <1>1 DEF Matches, Partner

\* A prefix rule shares a cell with another rule when the kernel calls that an overlap,
\* or when the two are of one pair.
LEMMA OverlapsMeet ==
  ASSUME NEW r, RuleFormed(r), NEW new, RuleFormed(new), new.prefix
  PROVE  (\E c \in AnyCell : Matches(r, c) /\ Matches(new, c))
           <=> Overlaps(r, new.a.name, new.a.domain, new.b.domain) \/ Pair(r) = Pair(new)
<1> USE DEF RuleFormed, AnyRule, AnyCell
<1>0. /\ new.a.name \in Spelled /\ r.a.name \in Spelled /\ r.b.name \in Spelled
      /\ new.a.name = new.b.name /\ new.a.domain \in Domains /\ new.b.domain \in Domains
      /\ r.a \in AnyCell /\ r.b \in AnyCell
  OBVIOUS
<1>1. CASE r.prefix
  <2>1. Pair(r) = Pair(new) <=>
          r.a.name = new.a.name /\ {r.a.domain, r.b.domain} = {new.a.domain, new.b.domain}
    <3>1. r.a.domain \in Int /\ r.b.domain \in Int /\ new.a.domain \in Int /\ new.b.domain \in Int
      BY DomainsInt
    <3>2. Pair(r) = Pair(new) <=> r.a = new.a /\ r.b = new.b
      BY <1>1 DEF Pair
    <3>3. {r.a.domain, r.b.domain} = {new.a.domain, new.b.domain}
            <=> r.a.domain = new.a.domain /\ r.b.domain = new.b.domain
      BY <3>1
    <3>4. r.a = new.a <=> r.a.name = new.a.name /\ r.a.domain = new.a.domain
      OBVIOUS
    <3>5. r.b = new.b <=> r.b.name = new.b.name /\ r.b.domain = new.b.domain
      OBVIOUS
    <3> QED BY <1>1, <3>2, <3>3, <3>4, <3>5
  <2>2. ASSUME NEW c \in AnyCell, Matches(r, c), Matches(new, c)
        PROVE  Nests(new.a.name, r.a.name)
               /\ {r.a.domain, r.b.domain} \cap {new.a.domain, new.b.domain} # {}
    <3>1. IsPrefix(r.a.name, c.name) /\ IsPrefix(new.a.name, c.name) /\ c.name \in Spelled
      BY <1>1, <2>2 DEF Matches
    <3>2. c.domain \in {r.a.domain, r.b.domain} \cap {new.a.domain, new.b.domain}
      BY <2>2 DEF Matches
    <3> QED BY <1>0, <3>1, <3>2, PrefixesNest
  <2>3. ASSUME Nests(new.a.name, r.a.name), NEW d \in {r.a.domain, r.b.domain},
               d \in {new.a.domain, new.b.domain}
        PROVE  \E c \in AnyCell : Matches(r, c) /\ Matches(new, c)
    <3>1. PICK n \in Spelled : IsPrefix(r.a.name, n) /\ IsPrefix(new.a.name, n)
      BY <1>0, <2>3, PrefixOfItself DEF Nests
    <3>2. d \in Domains
      BY <1>0
    <3>3. [name |-> n, domain |-> d] \in AnyCell
      BY <3>1, <3>2
    <3>4. Matches(r, [name |-> n, domain |-> d]) /\ Matches(new, [name |-> n, domain |-> d])
      BY <1>1, <2>3, <3>1 DEF Matches
    <3> QED BY <3>3, <3>4
  <2>4. Pair(r) = Pair(new) => Nests(new.a.name, r.a.name)
                               /\ {r.a.domain, r.b.domain} \cap {new.a.domain, new.b.domain} # {}
    BY <1>0, <2>1, PrefixOfItself DEF Nests
  <2> QED BY <1>1, <2>1, <2>2, <2>3, <2>4 DEF Overlaps
<1>2. CASE ~r.prefix
  <2>1. Pair(r) # Pair(new)
    BY <1>2 DEF Pair
  <2>2. \A c \in AnyCell : Matches(r, c) <=> c \in {r.a, r.b}
    BY <1>2 DEF Matches
  <2>3. \A c \in AnyCell : Matches(new, c)
          <=> c.domain \in {new.a.domain, new.b.domain} /\ IsPrefix(new.a.name, c.name)
    BY DEF Matches
  <2> QED BY <1>0, <1>2, <2>1, <2>2, <2>3 DEF Overlaps
<1> QED BY <1>1, <1>2

-----------------------------------------------------------------------------
\* Declaring a rule

\* The rule that is found is the one that matches.
LEMMA FindIs ==
  ASSUME RulesFormed, Apart, NEW c \in AnyCell
  PROVE  /\ \A r \in rules : Matches(r, c) => find_domain_rule(c) = r
         /\ find_domain_rule(c) = None <=> \A r \in rules : ~Matches(r, c)
         /\ find_domain_rule(c) # None => find_domain_rule(c) \in rules /\ Matches(find_domain_rule(c), c)
<1>1. \A r \in rules : r # None
  BY NoRuleIsNone DEF RulesFormed, RuleFormed
<1>2. ASSUME NEW r \in rules, Matches(r, c) PROVE find_domain_rule(c) = r
  <2>1. \A q \in rules : Matches(q, c) => q = r
    BY <1>2 DEF Apart
  <2> QED BY <1>2, <2>1 DEF find_domain_rule
<1>3. (\A r \in rules : ~Matches(r, c)) => find_domain_rule(c) = None
  BY DEF find_domain_rule
<1> QED BY <1>1, <1>2, <1>3

\* A declaration between two domains makes a rule of the right form.
LEMMA CanonicalFormed ==
  ASSUME NEW d, DeclFormed(d), d.from.domain # d.to.domain
  PROVE  /\ RuleFormed(Canonical(d.from, d.to, d.prefix))
         /\ Canonical(d.from, d.to, d.prefix).prefix = d.prefix
         /\ Canonical(d.from, d.to, d.prefix).dirs = {<<d.from.domain, d.to.domain>>}
         /\ \/ /\ Canonical(d.from, d.to, d.prefix).a = d.from
               /\ Canonical(d.from, d.to, d.prefix).b = d.to
            \/ /\ Canonical(d.from, d.to, d.prefix).a = d.to
               /\ Canonical(d.from, d.to, d.prefix).b = d.from
<1>1. /\ d.from \in AnyCell /\ d.to \in AnyCell /\ d.from.domain \in Domains /\ d.to.domain \in Domains
      /\ d.prefix \in BOOLEAN /\ (d.prefix => d.from.name = d.to.name)
  BY DEF DeclFormed, AnyDecl, AnyCell
<1>2. d.from.domain \in Int /\ d.to.domain \in Int
  BY <1>1, DomainsInt
<1>3. <<d.from.domain, d.to.domain>> \in Domains \X Domains
  BY <1>1
<1>4. CASE d.from.domain < d.to.domain
  <2>1. Canonical(d.from, d.to, d.prefix)
          = [a |-> d.from, b |-> d.to, prefix |-> d.prefix, dirs |-> {<<d.from.domain, d.to.domain>>}]
    BY <1>4 DEF Canonical
  <2> QED BY <1>1, <1>3, <1>4, <2>1 DEF RuleFormed, AnyRule
<1>5. CASE ~(d.from.domain < d.to.domain)
  <2>1. Canonical(d.from, d.to, d.prefix)
          = [a |-> d.to, b |-> d.from, prefix |-> d.prefix, dirs |-> {<<d.from.domain, d.to.domain>>}]
    BY <1>5 DEF Canonical
  <2>2. d.to.domain < d.from.domain
    BY <1>2, <1>5
  <2> QED BY <1>1, <1>3, <2>1, <2>2 DEF RuleFormed, AnyRule
<1> QED BY <1>4, <1>5

\* The rule a declaration adds: it takes the place of the one of its pair, shares a cell
\* with no other, and claims no topic that is there.
Adds(new, d) ==
  /\ RuleFormed(new) /\ Covers(new, d)
  /\ \A r \in rules : Pair(r) = Pair(new) => r.dirs \subseteq new.dirs
  /\ \A r \in rules : \A c \in AnyCell : Matches(r, c) /\ Matches(new, c) => Pair(r) = Pair(new)
  /\ \A c \in Wrappers : ~Matches(new, c)

\* The rules after it has been added.
Replaced(new) == (rules \ {r \in rules : Pair(r) = Pair(new)}) \cup {new}

\* What add_domain_rule does to the rules, unless it refuses.
LEMMA ExactAdds ==
  ASSUME RulesFormed, Apart, Wrappers \subseteq AnyCell,
         NEW d, DeclFormed(d), ~d.prefix, d.from.domain # d.to.domain, Exact(d.from, d.to) # Busy
  PROVE  \/ Exact(d.from, d.to) = rules /\ \E r \in rules : Covers(r, d)
         \/ \E new : Adds(new, d) /\ Exact(d.from, d.to) = Replaced(new)
<1> DEFINE f == find_domain_rule(d.from)
           t == find_domain_rule(d.to)
           n == Canonical(d.from, d.to, d.prefix)
           dir == <<d.from.domain, d.to.domain>>
<1>1. d.from \in AnyCell /\ d.to \in AnyCell /\ d.prefix = FALSE
  BY DEF DeclFormed, AnyDecl
<1>2. /\ RuleFormed(n) /\ n.prefix = FALSE /\ n.dirs = {dir}
      /\ (n.a = d.from /\ n.b = d.to) \/ (n.a = d.to /\ n.b = d.from)
  BY <1>1, CanonicalFormed
<1> HIDE DEF n
<1>3. f = t /\ (f # None => ~f.prefix)
  BY DEF Exact
<1>4. CASE f = None
  <2>1. \A r \in rules : ~Matches(r, d.from) /\ ~Matches(r, d.to)
    <3>1. find_domain_rule(d.from) = None /\ find_domain_rule(d.to) = None
      BY <1>3, <1>4
    <3> QED BY <1>1, <3>1, FindIs
  <2>2. \A c \in AnyCell : Matches(n, c) => c \in {d.from, d.to}
    BY <1>2 DEF Matches
  <2>3. {r \in rules : Pair(r) = Pair(n)} = {}
    <3> SUFFICES ASSUME NEW r \in rules, Pair(r) = Pair(n) PROVE FALSE
      OBVIOUS
    <3>1. r \in AnyRule /\ n \in AnyRule
      BY <1>2 DEF RulesFormed, RuleFormed
    <3>2. Matches(n, d.from)
      BY <1>2 DEF Matches
    <3> QED BY <2>1, <3>1, <3>2, MatchesByPair
  <2>4. Exact(d.from, d.to) = rules \cup {n} /\ {d.from, d.to} \cap Wrappers = {}
    BY <1>1, <1>3, <1>4 DEF Exact, n
  <2>5. Adds(n, d)
    <3>1. Covers(n, d)
      BY <1>2 DEF Covers, n
    <3>2. \A c \in Wrappers : ~Matches(n, c)
      BY <2>2, <2>4
    <3> QED BY <1>2, <2>1, <2>2, <2>3, <3>1, <3>2 DEF Adds
  <2> QED BY <2>3, <2>4, <2>5 DEF Replaced
<1>5. CASE f # None
  <2>1. f \in rules /\ Matches(f, d.from) /\ Matches(f, d.to) /\ RuleFormed(f) /\ f \in AnyRule
    BY <1>1, <1>3, <1>5, FindIs DEF RulesFormed, RuleFormed
  <2>2. ~f.prefix
    BY <1>3, <1>5
  <2> HIDE DEF f, t
  <2>3. d.from \in {f.a, f.b} /\ d.to \in {f.a, f.b}
    BY <2>1, <2>2 DEF Matches
  <2>4. Pair(f) = Pair(n)
    <3>1. f.a = n.a /\ f.b = n.b
      <4>1. /\ f.a.domain \in Int /\ f.b.domain \in Int /\ f.a.domain < f.b.domain
            /\ n.a.domain \in Int /\ n.b.domain \in Int /\ n.a.domain < n.b.domain
        BY <1>2, <2>1, DomainsInt DEF RuleFormed, AnyRule, AnyCell
      <4> QED BY <1>2, <2>3, <4>1
    <3>2. f.prefix = n.prefix
      BY <1>2, <2>1, <2>2 DEF AnyRule
    <3> QED BY <3>1, <3>2 DEF Pair
  <2>5. CASE ~Enables(f, d.from, d.to)
    <3>1. Exact(d.from, d.to) = rules
      BY <1>3, <1>5, <2>2, <2>5 DEF Exact, f, t
    <3>2. Covers(f, d)
      BY <2>4, <2>5 DEF Covers, Enables, n
    <3> QED BY <2>1, <3>1, <3>2
  <2>6. CASE Enables(f, d.from, d.to)
    <3> DEFINE new == [f EXCEPT !.dirs = @ \cup {dir}]
    <3>1. /\ {d.from, d.to} \cap Wrappers = {}
          /\ Exact(d.from, d.to) = (rules \ {f}) \cup {new}
      BY <1>3, <1>5, <2>2, <2>6 DEF Exact, f, t
    <3>2. new.a = f.a /\ new.b = f.b /\ new.prefix = f.prefix /\ new.dirs = f.dirs \cup {dir}
      BY <2>1 DEF AnyRule
    <3>3. dir \in Domains \X Domains
      BY <1>1 DEF AnyCell
    <3>4. RuleFormed(new)
      <4>1. new \in AnyRule
        BY <2>1, <3>3 DEF AnyRule
      <4> HIDE DEF new
      <4> QED BY <2>1, <3>2, <4>1 DEF RuleFormed
    <3> HIDE DEF new
    <3>5. Pair(new) = Pair(f)
      BY <3>2 DEF Pair
    <3>6. \A r \in rules : \A c \in AnyCell : Matches(r, c) /\ Matches(new, c) => r = f
      <4>1. \A c : Matches(new, c) <=> Matches(f, c)
        BY <2>1, <3>4, <3>5, MatchesByPair DEF RuleFormed
      <4> QED BY <2>1, <4>1 DEF Apart
    <3>7. {r \in rules : Pair(r) = Pair(new)} = {f}
      <4> SUFFICES ASSUME NEW r \in rules, Pair(r) = Pair(f) PROVE r = f
        BY <2>1, <3>5
      <4>1. r \in AnyRule
        BY DEF RulesFormed, RuleFormed
      <4>2. Matches(r, d.from)
        BY <2>1, <4>1, MatchesByPair
      <4> QED BY <1>1, <2>1, <4>2 DEF Apart
    <3>8. \A c \in Wrappers : ~Matches(new, c)
      <4>1. \A c : Matches(new, c) => c \in {f.a, f.b}
        BY <2>2, <3>2 DEF Matches
      <4>2. {f.a, f.b} = {d.from, d.to}
        BY <2>3, <2>1
      <4> QED BY <3>1, <4>1, <4>2
    <3>9. Covers(new, d)
      BY <2>4, <3>2, <3>5 DEF Covers, n
    <3>10. Adds(new, d)
      BY <3>2, <3>4, <3>5, <3>6, <3>7, <3>8, <3>9 DEF Adds
    <3> QED BY <3>1, <3>7, <3>10 DEF Replaced
  <2> QED BY <2>5, <2>6
<1> QED BY <1>4, <1>5

\* What add_prefix_domain_rule does to the rules, unless it refuses.
LEMMA PrefixedAdds ==
  ASSUME RulesFormed, Apart, Wrappers \subseteq AnyCell,
         NEW d, DeclFormed(d), d.prefix, d.from.domain # d.to.domain,
         Prefixed(d.from.name, d.from.domain, d.to.domain) # Busy
  PROVE  \/ /\ Prefixed(d.from.name, d.from.domain, d.to.domain) = rules
            /\ \E r \in rules : Covers(r, d)
         \/ \E new : Adds(new, d) /\ Prefixed(d.from.name, d.from.domain, d.to.domain) = Replaced(new)
<1> DEFINE n == Canonical(d.from, d.to, d.prefix)
           p == d.from.name
           x == d.from.domain
           y == d.to.domain
           same == {r \in rules : Pair(r) = Pair(n)}
           new == [n EXCEPT !.dirs = @ \cup UNION {r.dirs : r \in same}]
<1>1. d.from = Cell(p, x) /\ d.to = Cell(p, y) /\ d.prefix = TRUE
  BY DEF DeclFormed, AnyDecl, AnyCell, Cell
<1>2. /\ RuleFormed(n) /\ n.prefix = TRUE /\ n.dirs = {<<x, y>>}
      /\ (n.a = d.from /\ n.b = d.to) \/ (n.a = d.to /\ n.b = d.from)
  BY <1>1, CanonicalFormed
<1>3. n = Canonical(Cell(p, x), Cell(p, y), TRUE)
  BY <1>1
<1> HIDE DEF n
<1>4. n.a.name = p /\ {n.a.domain, n.b.domain} = {x, y}
  <2>1. d.to.name = d.from.name
    BY DEF DeclFormed
  <2> QED BY <1>2, <2>1
<1>5. /\ \A r \in rules : ~Overlaps(r, p, x, y)
      /\ \/ (\E r \in same : ~Enables(r, Cell(p, x), Cell(p, y))) /\ Prefixed(p, x, y) = rules
         \/ ~any_topic_under_prefix(p, x, y) /\ Prefixed(p, x, y) = (rules \ same) \cup {new}
  BY <1>3 DEF Prefixed
<1> HIDE DEF same
<1>6. CASE (\E r \in same : ~Enables(r, Cell(p, x), Cell(p, y))) /\ Prefixed(p, x, y) = rules
  <2>1. PICK r \in same : ~Enables(r, Cell(p, x), Cell(p, y))
    BY <1>6
  <2>2. r \in rules /\ Covers(r, d)
    BY <1>1, <2>1 DEF Covers, Enables, same, n
  <2> QED BY <1>6, <2>2
<1>7. CASE ~any_topic_under_prefix(p, x, y) /\ Prefixed(p, x, y) = (rules \ same) \cup {new}
  <2>1. /\ new.a = n.a /\ new.b = n.b /\ new.prefix = TRUE
        /\ new.dirs = {<<x, y>>} \cup UNION {r.dirs : r \in same}
    BY <1>2 DEF RuleFormed, AnyRule
  <2>2. UNION {r.dirs : r \in same} \subseteq Domains \X Domains
    BY DEF same, RulesFormed, RuleFormed, AnyRule
  <2>3. new \in AnyRule
    BY <1>2, <2>2 DEF RuleFormed, AnyRule
  <2> HIDE DEF new
  <2>4. RuleFormed(new)
    BY <1>2, <2>1, <2>3 DEF RuleFormed
  <2>5. Pair(new) = Pair(n)
    BY <1>2, <2>1 DEF Pair
  <2>6. ASSUME NEW r \in rules, NEW c \in AnyCell, Matches(r, c), Matches(new, c)
        PROVE  Pair(r) = Pair(new)
    <3>1. RuleFormed(r)
      BY DEF RulesFormed
    <3>2. \/ Overlaps(r, new.a.name, new.a.domain, new.b.domain)
          \/ Pair(r) = Pair(new)
      BY <2>1, <2>4, <2>6, <3>1, OverlapsMeet
    <3>3. Overlaps(r, new.a.name, new.a.domain, new.b.domain) => Overlaps(r, p, x, y)
      BY <1>4, <2>1 DEF Overlaps
    <3> QED BY <1>5, <3>2, <3>3
  <2>7. \A c \in Wrappers : ~Matches(new, c)
    BY <1>4, <1>7, <2>1 DEF any_topic_under_prefix, Matches
  <2>8. Covers(new, d)
    BY <2>1, <2>5 DEF Covers, n
  <2>9. \A r \in rules : Pair(r) = Pair(new) => r.dirs \subseteq new.dirs
    BY <2>1, <2>5 DEF same
  <2>10. Adds(new, d)
    BY <2>4, <2>6, <2>7, <2>8, <2>9 DEF Adds
  <2> QED BY <1>7, <2>5, <2>10 DEF Replaced, same
<1> QED BY <1>5, <1>6, <1>7

\* A declaration is refused, changes nothing because it is in force, or adds its rule.
LEMMA DeclareCases ==
  ASSUME RulesFormed, Apart, Wrappers \subseteq AnyCell, NEW d, DeclFormed(d), Declare(d)
  PROVE  \/ UNCHANGED <<rules, accepted>>
         \/ /\ d.from.domain # d.to.domain /\ accepted' = accepted \cup {d}
            /\ \/ rules' = rules /\ \E r \in rules : Covers(r, d)
               \/ \E new : Adds(new, d) /\ rules' = Replaced(new)
<1>1. CASE d.from.domain = d.to.domain \/ Outcome(d) = Busy
  BY <1>1 DEF Declare
<1>2. CASE d.from.domain # d.to.domain /\ Outcome(d) # Busy
  <2>1. rules' = Outcome(d) /\ accepted' = accepted \cup {d}
    BY <1>2 DEF Declare
  <2>2. CASE d.prefix
    BY <1>2, <2>1, <2>2, PrefixedAdds DEF Outcome
  <2>3. CASE ~d.prefix
    BY <1>2, <2>1, <2>3, ExactAdds DEF Outcome
  <2> QED BY <2>2, <2>3
<1> QED BY <1>1, <1>2

\* A rule that is added keeps the rules apart and every declaration in force.
LEMMA AddsKeeps ==
  ASSUME RulesFormed, Apart, NEW new, NEW d, Adds(new, d), rules' = Replaced(new)
  PROVE  /\ RulesFormed' /\ Apart'
         /\ \A e : (\E r \in rules : Covers(r, e)) => \E r \in rules' : Covers(r, e)
         /\ \E r \in rules' : Covers(r, d)
         /\ \A c \in Wrappers : \A r : Matches(r, c) => (r \in rules <=> r \in rules')
<1>1. new \in AnyRule /\ RuleFormed(new)
  BY DEF Adds, RuleFormed
<1>2. \A r \in rules' : r = new \/ (r \in rules /\ Pair(r) # Pair(new))
  BY DEF Replaced
<1>3. RulesFormed'
  BY <1>1, <1>2 DEF RulesFormed
<1>4. Apart'
  <2> SUFFICES ASSUME NEW r \in rules', NEW q \in rules', NEW c \in AnyCell, Matches(r, c), Matches(q, c)
               PROVE  r = q
    BY DEF Apart
  <2> QED BY <1>2 DEF Adds, Apart
<1>5. ASSUME NEW e, NEW r \in rules, Covers(r, e) PROVE \E q \in rules' : Covers(q, e)
  <2>1. CASE Pair(r) = Pair(new)
    <3>1. Covers(new, e)
      BY <1>5, <2>1 DEF Adds, Covers
    <3> QED BY <3>1 DEF Replaced
  <2>2. CASE Pair(r) # Pair(new)
    BY <1>5, <2>2 DEF Replaced
  <2> QED BY <2>1, <2>2
<1>6. \E r \in rules' : Covers(r, d)
  BY DEF Adds, Replaced
<1>7. ASSUME NEW c \in Wrappers, NEW r, Matches(r, c) PROVE r \in rules <=> r \in rules'
  <2>1. ~Matches(new, c)
    BY DEF Adds
  <2>2. ASSUME r \in rules PROVE r \in rules'
    <3>1. r \in AnyRule
      BY <2>2 DEF RulesFormed, RuleFormed
    <3>2. Pair(r) # Pair(new)
      BY <1>1, <1>7, <2>1, <3>1, MatchesByPair
    <3> QED BY <2>2, <3>2 DEF Replaced
  <2> QED BY <1>2, <1>7, <2>1, <2>2
<1> QED BY <1>3, <1>4, <1>5, <1>6, <1>7

-----------------------------------------------------------------------------
\* Topics and endpoints

\* Structs and endpoints.
AnyPair == [a : AnyCell, b : AnyCell, prefix : BOOLEAN]
AnyStruct == [cells : SUBSET Cells, rule : AnyPair \cup {None}]
AnyEnd == [cell : Cells, kind : {"pub", "sub"}, left : BOOLEAN]

\* A struct has a wrapper.
StructsFormed == \A s \in structs : s \in AnyStruct /\ s.cells # {}

\* No wrapper is in two structs.
StructsApart == \A s, t \in structs : \A c : c \in s.cells /\ c \in t.cells => s = t

\* An endpoint's topic is there.
EndsJoined ==
  /\ ends \in [Ends -> AnyEnd \cup {None}]
  /\ \A e \in Ends : ends[e] # None => ends[e].cell \in Wrappers

\* The invariant of the structs and the endpoints.
GroupsInv == StructsFormed /\ StructsApart /\ GroupedByRule /\ EndsJoined

\* A wrapper is a cell of a struct ...
LEMMA WrappersAre == \A c : c \in Wrappers <=> \E s \in structs : c \in s.cells
BY DEF Wrappers

\* ... and so a cell.
LEMMA WrappersCells == StructsFormed => Wrappers \subseteq Cells /\ Wrappers \subseteq AnyCell
BY CellsAreCells DEF StructsFormed, AnyStruct, Wrappers

\* The struct of a wrapper is the one that has it.
LEMMA StructOfIs ==
  ASSUME StructsApart, NEW s \in structs, NEW c \in s.cells
  PROVE  StructOf(c) = s
<1>1. \A t \in structs : c \in t.cells => t = s
  BY DEF StructsApart
<1> QED BY <1>1 DEF StructOf

\* A rule pairs a cell's partner with the cell.
LEMMA PartnerBack ==
  ASSUME NEW r, RuleFormed(r), NEW c \in AnyCell, Matches(r, c)
  PROVE  /\ Partner(r, c) \in AnyCell /\ Matches(r, Partner(r, c))
         /\ Partner(r, Partner(r, c)) = c /\ Partner(r, c) # c
<1>1. r.a \in AnyCell /\ r.b \in AnyCell /\ r.a.domain \in Domains /\ r.b.domain \in Domains
  BY DEF RuleFormed, AnyRule, AnyCell
<1>2. r.a.domain # r.b.domain
  BY <1>1, DomainsInt DEF RuleFormed
<1>3. c.domain \in {r.a.domain, r.b.domain} /\ c = Cell(c.name, c.domain) /\ c.name \in Spelled
  BY DEF Matches, AnyCell, Cell
<1>4. CASE r.prefix
  <2> DEFINE o == IF c.domain = r.a.domain THEN r.b.domain ELSE r.a.domain
  <2>1. Partner(r, c) = Cell(c.name, o)
    BY <1>4 DEF Partner
  <2>2. Cell(c.name, o) \in AnyCell /\ Cell(c.name, o).name = c.name /\ Cell(c.name, o).domain = o
    BY <1>1, <1>3 DEF Cell, AnyCell
  <2>3. o # c.domain /\ o \in {r.a.domain, r.b.domain}
    BY <1>2, <1>3
  <2>4. Matches(r, Cell(c.name, o))
    BY <1>4, <2>2, <2>3 DEF Matches
  <2>5. Partner(r, Cell(c.name, o)) = Cell(c.name, c.domain)
    BY <1>2, <1>3, <1>4, <2>2, <2>3 DEF Partner
  <2> QED BY <1>3, <2>1, <2>2, <2>3, <2>4, <2>5
<1>5. CASE ~r.prefix
  <2>1. c \in {r.a, r.b}
    BY <1>5 DEF Matches
  <2> QED BY <1>1, <1>2, <1>5, <2>1 DEF Partner, Matches
<1> QED BY <1>4, <1>5

\* The partner of a cell's partner is the cell, and the two are under one rule.
LEMMA PartnersMeet ==
  ASSUME RulesFormed, Apart, NEW d \in AnyCell, find_domain_rule(d) # None
  PROVE  /\ Partner(find_domain_rule(d), d) \in AnyCell
         /\ find_domain_rule(Partner(find_domain_rule(d), d)) = find_domain_rule(d)
         /\ Partner(find_domain_rule(d), Partner(find_domain_rule(d), d)) = d
         /\ Partner(find_domain_rule(d), d) # d
<1> DEFINE r == find_domain_rule(d)
           c == Partner(r, d)
<1>1. r \in rules /\ Matches(r, d) /\ RuleFormed(r)
  BY FindIs DEF RulesFormed
<1> HIDE DEF r
<1>2. c \in AnyCell /\ Matches(r, c) /\ Partner(r, c) = d /\ c # d
  BY <1>1, PartnerBack
<1> HIDE DEF c
<1>3. find_domain_rule(c) = r
  BY <1>1, <1>2, FindIs
<1> QED BY <1>2, <1>3 DEF c, r

\* The cells of a struct under one rule, seen from one of them.
LEMMA GroupOf ==
  ASSUME GroupsInv, NEW s \in structs, NEW c \in s.cells
  PROVE  /\ find_domain_rule(c) = None => s.rule = None /\ s.cells = {c}
         /\ find_domain_rule(c) # None =>
              /\ s.rule = Pair(find_domain_rule(c))
              /\ s.cells = {c, Partner(find_domain_rule(c), c)} \cap Wrappers
BY DEF GroupsInv, GroupedByRule

\* The wrappers that stay keep company: two of them share a struct after the step if they
\* did before, and the struct is still of its rule.
Follows ==
  \A s \in structs : \A x \in s.cells : x \in Wrappers' =>
    \E t \in structs' : /\ x \in t.cells /\ t.rule = s.rule
                        /\ \A y \in Wrappers : y \in Wrappers' => (y \in s.cells <=> y \in t.cells)

\* add_topic puts a cell in its group and leaves the others together.
LEMMA AddTopicKeeps ==
  ASSUME RulesFormed, Apart, GroupsInv, NEW c \in Cells, add_topic(c), UNCHANGED rules
  PROVE  /\ StructsFormed' /\ StructsApart' /\ GroupedByRule' /\ Follows
         /\ Wrappers' = Wrappers \cup {c}
<1> DEFINE r == find_domain_rule(c)
<1>0. /\ StructsFormed /\ StructsApart /\ c \in AnyCell
      /\ \A d : find_domain_rule(d)' = find_domain_rule(d)
      /\ Wrappers \subseteq AnyCell
  BY CellsAreCells, WrappersCells DEF GroupsInv, find_domain_rule
<1>1. CASE c \in Wrappers
  <2>1. structs' = structs
    BY <1>1 DEF add_topic
  <2>2. Wrappers' = Wrappers
    BY <2>1 DEF Wrappers
  <2> QED BY <1>0, <1>1, <2>1, <2>2 DEF GroupsInv, StructsFormed, StructsApart, GroupedByRule, Follows
<1>2. CASE c \notin Wrappers /\ r # None /\ Partner(r, c) \in Wrappers
  <2> DEFINE o == Partner(r, c)
             s == StructOf(o)
             n == [s EXCEPT !.cells = @ \cup {c}]
  <2>1. structs' = (structs \ {s}) \cup {n}
    BY <1>2 DEF add_topic
  <2>2. s \in structs /\ o \in s.cells
    BY <1>2 DEF Wrappers, StructOf
  <2>3. o \in AnyCell /\ find_domain_rule(o) = r /\ Partner(r, o) = c
    BY <1>0, <1>2, PartnersMeet
  <2>4. s.rule = Pair(r) /\ s.cells = {o, c} \cap Wrappers
    <3> HIDE DEF r, s
    <3>1. find_domain_rule(o) # None
      BY <1>2, <2>3
    <3> QED BY <2>2, <2>3, <3>1, GroupOf
  <2>5. n.cells = {o, c} /\ n.rule = Pair(r) /\ n \in AnyStruct
    <3>1. s \in AnyStruct
      BY <1>0, <2>2 DEF StructsFormed
    <3> HIDE DEF r, s, o
    <3>2. n.cells = s.cells \cup {c} /\ n.rule = s.rule /\ n \in AnyStruct
      BY <3>1 DEF AnyStruct
    <3> HIDE DEF n
    <3> QED BY <1>2, <2>2, <2>4, <3>2 DEF o
  <2>6. s.cells = {o}
    BY <1>2, <2>2, <2>4
  <2> HIDE DEF n, s, o, r
  <2>7. \A t \in structs' : t = n \/ (t \in structs /\ t # s)
    BY <2>1
  <2>8. Wrappers' = Wrappers \cup {c}
    <3>1. \A d : d \in Wrappers' <=> \E t \in structs' : d \in t.cells
      BY DEF Wrappers
    <3> QED BY <2>1, <2>2, <2>5, <2>6, <3>1, WrappersAre
  <2>9. StructsFormed'
    BY <1>0, <2>5, <2>7 DEF StructsFormed
  <2>10. StructsApart'
    <3>1. \A t \in structs : t # s => o \notin t.cells /\ c \notin t.cells
      BY <1>0, <1>2, <2>2, WrappersAre DEF StructsApart
    <3> QED BY <1>0, <2>5, <2>7, <3>1 DEF StructsApart
  <2>11. GroupedByRule'
    <3> SUFFICES ASSUME NEW t \in structs', NEW d \in t.cells
                 PROVE  LET q == find_domain_rule(d)
                        IN  IF q = None THEN t.rule = None /\ t.cells = {d}
                            ELSE t.rule = Pair(q) /\ t.cells = {d, Partner(q, d)} \cap Wrappers'
      BY <1>0 DEF GroupedByRule
    <3>1. CASE t = n
      <4>1. d \in {o, c}
        BY <2>5, <3>1
      <4>2. find_domain_rule(d) = r /\ {d, Partner(r, d)} = {o, c}
        BY <2>3, <4>1 DEF o, r
      <4> QED BY <1>2, <2>2, <2>5, <2>8, <3>1, <4>2, WrappersAre
    <3>2. CASE t \in structs /\ t # s
      <4>1. d \in Wrappers /\ d \in AnyCell
        BY <1>0, <3>2, WrappersAre
      <4>2. find_domain_rule(d) # None => Partner(find_domain_rule(d), d) # c
        <5> SUFFICES ASSUME find_domain_rule(d) # None, Partner(find_domain_rule(d), d) = c PROVE FALSE
          OBVIOUS
        <5>1. find_domain_rule(c) = find_domain_rule(d) /\ Partner(find_domain_rule(d), c) = d
          BY <1>0, <4>1, PartnersMeet
        <5>2. d = o
          BY <5>1 DEF o, r
        <5> QED BY <1>0, <2>2, <3>2, <5>2 DEF StructsApart
      <4> QED BY <2>8, <3>2, <4>2, GroupOf
    <3> QED BY <2>7, <3>1, <3>2
  <2>12. Follows
    <3> SUFFICES ASSUME NEW t \in structs, NEW x \in t.cells
                 PROVE  \E u \in structs' : /\ x \in u.cells /\ u.rule = t.rule
                                            /\ \A y \in Wrappers : (y \in t.cells <=> y \in u.cells)
      BY DEF Follows
    <3>1. CASE t = s
      BY <1>2, <2>1, <2>4, <2>5, <2>6, <3>1
    <3>2. CASE t # s
      BY <2>1, <3>2
    <3> QED BY <3>1, <3>2
  <2> QED BY <2>8, <2>9, <2>10, <2>11, <2>12
<1>3. CASE c \notin Wrappers /\ ~(r # None /\ Partner(r, c) \in Wrappers)
  <2> DEFINE n == [cells |-> {c}, rule |-> IF r = None THEN None ELSE Pair(r)]
  <2>1. structs' = structs \cup {n}
    BY <1>3 DEF add_topic
  <2>2. n.cells = {c} /\ n.rule = (IF r = None THEN None ELSE Pair(r)) /\ n \in AnyStruct
    <3>1. r # None => Pair(r) \in AnyPair
      <4>1. r # None => r \in AnyRule
        BY <1>0, FindIs DEF RulesFormed, RuleFormed
      <4> HIDE DEF r
      <4> QED BY <4>1 DEF AnyRule, AnyPair, Pair
    <3> HIDE DEF r
    <3> QED BY <3>1 DEF AnyStruct
  <2> HIDE DEF n, r
  <2>3. Wrappers' = Wrappers \cup {c}
    <3>1. \A d : d \in Wrappers' <=> \E t \in structs' : d \in t.cells
      BY DEF Wrappers
    <3> QED BY <2>1, <2>2, <3>1, WrappersAre
  <2>4. StructsFormed'
    BY <1>0, <2>1, <2>2 DEF StructsFormed
  <2>5. StructsApart'
    <3>1. \A t \in structs : c \notin t.cells
      BY <1>3, WrappersAre
    <3> QED BY <1>0, <2>1, <2>2, <3>1 DEF StructsApart
  <2>6. GroupedByRule'
    <3> SUFFICES ASSUME NEW t \in structs', NEW d \in t.cells
                 PROVE  LET q == find_domain_rule(d)
                        IN  IF q = None THEN t.rule = None /\ t.cells = {d}
                            ELSE t.rule = Pair(q) /\ t.cells = {d, Partner(q, d)} \cap Wrappers'
      BY <1>0 DEF GroupedByRule
    <3>1. CASE t = n
      <4>1. d = c /\ find_domain_rule(d) = r
        BY <2>2, <3>1 DEF r
      <4>2. r # None => Partner(r, c) # c
        BY <1>0, PartnersMeet DEF r
      <4> QED BY <1>3, <2>2, <2>3, <3>1, <4>1, <4>2
    <3>2. CASE t \in structs
      <4>1. d \in Wrappers /\ d \in AnyCell
        BY <1>0, <3>2, WrappersAre
      <4>2. find_domain_rule(d) # None => Partner(find_domain_rule(d), d) # c
        <5> SUFFICES ASSUME find_domain_rule(d) # None, Partner(find_domain_rule(d), d) = c PROVE FALSE
          OBVIOUS
        <5>1. find_domain_rule(c) = find_domain_rule(d) /\ Partner(find_domain_rule(d), c) = d
          BY <1>0, <4>1, PartnersMeet
        <5> QED BY <1>3, <4>1, <5>1 DEF r
      <4> QED BY <2>3, <3>2, <4>2, GroupOf
    <3> QED BY <2>1, <3>1, <3>2
  <2>7. Follows
    BY <2>1 DEF Follows
  <2> QED BY <2>3, <2>4, <2>5, <2>6, <2>7
<1> QED BY <1>1, <1>2, <1>3

\* agnocast_release_topic_wrapper takes a cell out of its group at most.
LEMMA ReleaseKeeps ==
  ASSUME RulesFormed, Apart, GroupsInv, NEW c \in Wrappers, NEW f, Release(c, f), UNCHANGED rules
  PROVE  /\ StructsFormed' /\ StructsApart' /\ GroupedByRule' /\ Follows
         /\ Wrappers' = IF EndsOf(f, c) # {} THEN Wrappers ELSE Wrappers \ {c}
<1>0. /\ StructsFormed /\ StructsApart
      /\ \A d : find_domain_rule(d)' = find_domain_rule(d)
      /\ Wrappers \subseteq AnyCell
  BY WrappersCells DEF GroupsInv, find_domain_rule
<1>1. CASE EndsOf(f, c) # {}
  <2>1. structs' = structs
    BY <1>1 DEF Release
  <2>2. Wrappers' = Wrappers
    BY <2>1 DEF Wrappers
  <2> QED BY <1>0, <1>1, <2>1, <2>2 DEF GroupsInv, StructsFormed, StructsApart, GroupedByRule, Follows
<1>2. CASE EndsOf(f, c) = {}
  <2> DEFINE s == StructOf(c)
             n == [s EXCEPT !.cells = @ \ {c}]
  <2>1. structs' = (structs \ {s}) \cup (IF s.cells = {c} THEN {} ELSE {n})
    BY <1>2 DEF Release
  <2>2. s \in structs /\ c \in s.cells
    BY DEF Wrappers, StructOf
  <2>3. n.cells = s.cells \ {c} /\ n.rule = s.rule /\ n \in AnyStruct
    <3>1. s \in AnyStruct
      BY <1>0, <2>2 DEF StructsFormed
    <3> HIDE DEF s
    <3> QED BY <3>1 DEF AnyStruct
  <2> HIDE DEF n, s
  <2>4. \A t \in structs' : (t = n /\ s.cells # {c}) \/ (t \in structs /\ t # s)
    BY <2>1
  <2>5. \A t \in structs : t # s => c \notin t.cells
    BY <1>0, <2>2 DEF StructsApart
  <2>6. Wrappers' = Wrappers \ {c}
    <3>1. \A d : d \in Wrappers' <=> \E t \in structs' : d \in t.cells
      BY DEF Wrappers
    <3>2. \A d \in Wrappers' : d \in Wrappers \ {c}
      BY <2>2, <2>3, <2>4, <2>5, <3>1, WrappersAre
    <3>3. ASSUME NEW d \in Wrappers \ {c} PROVE d \in Wrappers'
      <4>1. PICK t \in structs : d \in t.cells
        BY <3>3, WrappersAre
      <4>2. CASE t = s
        BY <2>1, <2>3, <3>1, <3>3, <4>1, <4>2
      <4>3. CASE t # s
        BY <2>1, <3>1, <4>1, <4>3
      <4> QED BY <4>2, <4>3
    <3> QED BY <3>2, <3>3
  <2>7. StructsFormed'
    <3>1. s.cells # {c} => n.cells # {}
      BY <2>2, <2>3
    <3> QED BY <1>0, <2>3, <2>4, <3>1 DEF StructsFormed
  <2>8. StructsApart'
    <3>1. \A t \in structs : t # s => \A x \in n.cells : x \notin t.cells
      BY <1>0, <2>2, <2>3 DEF StructsApart
    <3> QED BY <1>0, <2>4, <3>1 DEF StructsApart
  <2>9. GroupedByRule'
    <3> SUFFICES ASSUME NEW t \in structs', NEW d \in t.cells
                 PROVE  LET q == find_domain_rule(d)
                        IN  IF q = None THEN t.rule = None /\ t.cells = {d}
                            ELSE t.rule = Pair(q) /\ t.cells = {d, Partner(q, d)} \cap Wrappers'
      BY <1>0 DEF GroupedByRule
    <3>1. CASE t = n
      <4>1. d \in s.cells /\ d # c
        BY <2>3, <3>1
      <4>2. /\ find_domain_rule(d) = None => s.rule = None /\ s.cells = {d}
            /\ find_domain_rule(d) # None =>
                 /\ s.rule = Pair(find_domain_rule(d))
                 /\ s.cells = {d, Partner(find_domain_rule(d), d)} \cap Wrappers
        BY <2>2, <4>1, GroupOf
      <4> QED BY <2>2, <2>3, <2>6, <3>1, <4>1, <4>2
    <3>2. CASE t \in structs /\ t # s
      <4>1. d \in Wrappers /\ d \in AnyCell /\ d # c
        BY <1>0, <2>5, <3>2, WrappersAre
      <4>2. find_domain_rule(d) # None => Partner(find_domain_rule(d), d) # c
        <5> SUFFICES ASSUME find_domain_rule(d) # None, Partner(find_domain_rule(d), d) = c PROVE FALSE
          OBVIOUS
        <5>1. find_domain_rule(c) = find_domain_rule(d) /\ Partner(find_domain_rule(d), c) = d
          BY <1>0, <4>1, PartnersMeet
        <5>2. s.cells = {c, d} \cap Wrappers
          BY <2>2, <5>1, GroupOf
        <5> QED BY <1>0, <2>2, <3>2, <4>1, <5>2 DEF StructsApart
      <4>3. /\ find_domain_rule(d) = None => t.rule = None /\ t.cells = {d}
            /\ find_domain_rule(d) # None =>
                 /\ t.rule = Pair(find_domain_rule(d))
                 /\ t.cells = {d, Partner(find_domain_rule(d), d)} \cap Wrappers
        BY <3>2, GroupOf
      <4> QED BY <2>6, <4>1, <4>2, <4>3
    <3> QED BY <2>4, <3>1, <3>2
  <2>10. Follows
    <3> SUFFICES ASSUME NEW t \in structs, NEW x \in t.cells, x \in Wrappers'
                 PROVE  \E u \in structs' : /\ x \in u.cells /\ u.rule = t.rule
                                            /\ \A y \in Wrappers : y \in Wrappers' => (y \in t.cells <=> y \in u.cells)
      BY DEF Follows
    <3>1. CASE t = s
      <4>1. s.cells # {c} /\ x \in n.cells
        BY <2>3, <2>6, <3>1
      <4>2. n \in structs'
        BY <2>1, <4>1
      <4> QED BY <2>3, <2>6, <3>1, <4>1, <4>2
    <3>2. CASE t # s
      BY <2>1, <3>2
    <3> QED BY <3>1, <3>2
  <2> QED BY <1>2, <2>6, <2>7, <2>8, <2>9, <2>10
<1> QED BY <1>1, <1>2

\* The declarations the tool makes of one topic.
LEMMA LegsAreFormed ==
  ASSUME NEW s \in Specs
  PROVE  LegsOf(s) \in Seq({d \in AnyDecl : DeclFormed(d)})
<1> DEFINE from == IF s.reversed THEN s.to ELSE s.from
           to == IF s.reversed THEN s.from ELSE s.to
           leg(x, y) == [from |-> Cell(s.topic, x), to |-> Cell(s.remap, y), prefix |-> FALSE]
           D == {d \in AnyDecl : DeclFormed(d)}
<1>1. from \in Domains /\ to \in Domains /\ s.topic \in Spelled /\ s.remap \in Spelled
  BY DomainRulesAssumption DEF Spelled
<1>2. \A x, y \in Domains : leg(x, y) \in D
  BY <1>1 DEF AnyDecl, DeclFormed, AnyCell, Cell
<1>3. leg(from, to) \in D /\ leg(to, from) \in D
  BY <1>1, <1>2
<1>4. LegsOf(s) = IF s.both THEN <<leg(from, to), leg(to, from)>> ELSE <<leg(from, to)>>
  BY DEF LegsOf
<1> HIDE DEF leg, D, from, to
<1>5. \A u, v \in D : <<u, v>> \in Seq(D) /\ <<u>> \in Seq(D)
  OBVIOUS
<1>6. LegsOf(s) \in Seq(D)
  BY <1>3, <1>4, <1>5
<1> QED BY <1>6 DEF D

\* A declaration keeps both invariants, and what a topic's rule is.
LEMMA DeclareKeeps ==
  ASSUME RulesFormed, Apart, AcceptedKept, GroupsInv, NEW d, DeclFormed(d), Declare(d),
         UNCHANGED <<structs, ends>>
  PROVE  /\ RulesFormed' /\ Apart' /\ AcceptedKept' /\ GroupsInv'
         /\ \A c \in Wrappers : \A r : Matches(r, c) => (r \in rules <=> r \in rules')
<1>1. Wrappers \subseteq AnyCell /\ Wrappers' = Wrappers
  BY WrappersCells DEF GroupsInv, Wrappers
<1>2. /\ RulesFormed' /\ Apart' /\ AcceptedKept'
      /\ \A c \in Wrappers : \A r : Matches(r, c) => (r \in rules <=> r \in rules')
  <2>1. CASE UNCHANGED <<rules, accepted>>
    BY <2>1 DEF RulesFormed, Apart, AcceptedKept
  <2>2. CASE /\ d.from.domain # d.to.domain /\ accepted' = accepted \cup {d}
             /\ rules' = rules /\ \E r \in rules : Covers(r, d)
    BY <2>2 DEF RulesFormed, Apart, AcceptedKept
  <2>3. ASSUME d.from.domain # d.to.domain, accepted' = accepted \cup {d},
               NEW new, Adds(new, d), rules' = Replaced(new)
        PROVE  /\ RulesFormed' /\ Apart' /\ AcceptedKept'
               /\ \A c \in Wrappers : \A r : Matches(r, c) => (r \in rules <=> r \in rules')
    BY <2>3, AddsKeeps DEF AcceptedKept
  <2> QED BY <1>1, <2>1, <2>2, <2>3, DeclareCases
<1>3. \A c \in Wrappers : find_domain_rule(c)' = find_domain_rule(c)
  <2> SUFFICES ASSUME NEW c \in Wrappers PROVE find_domain_rule(c)' = find_domain_rule(c)
    OBVIOUS
  <2>1. {r \in rules : Matches(r, c)} = {r \in rules' : Matches(r, c)}
    BY <1>2
  <2>2. \A r \in rules : Matches(r, c) => r \in rules' /\ find_domain_rule(c) = r
    BY <1>1, <1>2, FindIs
  <2>3. CASE \E r \in rules : Matches(r, c)
    <3>1. PICK r \in rules : Matches(r, c)
      BY <2>3
    <3>2. r \in rules' /\ \A q \in rules' : Matches(q, c) => q = r
      BY <1>1, <1>2, <3>1 DEF Apart
    <3> QED BY <2>2, <3>1, <3>2 DEF find_domain_rule
  <2>4. CASE ~ \E r \in rules : Matches(r, c)
    BY <2>1, <2>4 DEF find_domain_rule
  <2> QED BY <2>3, <2>4
<1>4. GroupedByRule'
  BY <1>1, <1>3, WrappersAre DEF GroupsInv, GroupedByRule
<1> QED BY <1>1, <1>2, <1>4 DEF GroupsInv, StructsFormed, StructsApart, EndsJoined

-----------------------------------------------------------------------------
\* The steps

\* The inductive invariant.
DomainInv == RulesInv /\ GroupsInv

\* The invariant holds with no rules and no topics.
LEMMA DomainStarts == Init => DomainInv
<1> SUFFICES ASSUME Init PROVE DomainInv
  OBVIOUS
<1>1. RulesInv
  BY DEF Init, RulesInv, RulesFormed, Apart, AcceptedKept, LegsFormed
<1>2. StructsFormed /\ StructsApart /\ GroupedByRule
  BY DEF Init, StructsFormed, StructsApart, GroupedByRule
<1>3. EndsJoined
  BY DEF Init, EndsJoined
<1> QED BY <1>1, <1>2, <1>3 DEF DomainInv, GroupsInv

\* A prefix declaration keeps the invariant ...
LEMMA DeclarePrefixKeeps ==
  ASSUME DomainInv, NEW x \in PrefixDecls, DeclarePrefix(x[1], x[2], x[3])
  PROVE  DomainInv'
<1> DEFINE d == [from |-> Cell(x[1], x[2]), to |-> Cell(x[1], x[3]), prefix |-> TRUE]
<1>1. x[1] \in Spelled /\ x[2] \in Domains /\ x[3] \in Domains
  BY DomainRulesAssumption DEF Spelled
<1>2. DeclFormed(d)
  BY <1>1 DEF DeclFormed, AnyDecl, AnyCell, Cell
<1>3. Declare(d) /\ UNCHANGED <<structs, ends, legs>>
  BY DEF DeclarePrefix
<1> HIDE DEF d
<1>4. RulesFormed' /\ Apart' /\ AcceptedKept' /\ GroupsInv'
  BY <1>2, <1>3, DeclareKeeps DEF DomainInv, RulesInv
<1> QED BY <1>3, <1>4 DEF DomainInv, RulesInv, LegsFormed

\* ... and so does each leg the tool registers.
LEMMA RegisterLegKeeps ==
  ASSUME DomainInv, RegisterLeg
  PROVE  DomainInv'
<1> DEFINE D == {d \in AnyDecl : DeclFormed(d)}
<1>1. legs \in Seq(D) /\ legs # <<>> /\ legs' = Tail(legs)
  BY DEF DomainInv, RulesInv, LegsFormed, RegisterLeg
<1>2. Head(legs) \in D /\ legs' \in Seq(D)
  <2> HIDE DEF D
  <2> QED BY <1>1
<1>3. DeclFormed(Head(legs)) /\ LegsFormed'
  BY <1>2 DEF LegsFormed
<1>4. RulesFormed' /\ Apart' /\ AcceptedKept' /\ GroupsInv'
  BY <1>3, DeclareKeeps DEF DomainInv, RulesInv, RegisterLeg
<1> QED BY <1>3, <1>4 DEF DomainInv, RulesInv

\* An endpoint that joins keeps the invariant and disturbs nobody's group ...
LEMMA JoinKeeps ==
  ASSUME DomainInv, NEW e \in Ends, NEW c \in Cells, NEW kind \in {"pub", "sub"}, Join(e, c, kind)
  PROVE  DomainInv' /\ Follows /\ \A x \in Ends : ends[x] # None => ends'[x] = ends[x]
<1>1. /\ ends[e] = None /\ add_topic(c) /\ UNCHANGED <<rules, legs, accepted>>
      /\ ends' = [ends EXCEPT ![e] = [cell |-> c, kind |-> kind, left |-> FALSE]]
  BY DEF Join
<1>2. /\ StructsFormed' /\ StructsApart' /\ GroupedByRule' /\ Follows
      /\ Wrappers' = Wrappers \cup {c}
  BY <1>1, AddTopicKeeps DEF DomainInv, RulesInv
<1>3. [cell |-> c, kind |-> kind, left |-> FALSE] \in AnyEnd
  BY DEF AnyEnd
<1>4. EndsJoined'
  BY <1>1, <1>2, <1>3 DEF DomainInv, GroupsInv, EndsJoined
<1>5. RulesInv'
  BY <1>1 DEF DomainInv, RulesInv, RulesFormed, Apart, AcceptedKept, LegsFormed
<1>6. \A x \in Ends : ends[x] # None => ends'[x] = ends[x]
  BY <1>1 DEF DomainInv, GroupsInv, EndsJoined
<1> QED BY <1>2, <1>4, <1>5, <1>6 DEF DomainInv, GroupsInv

\* ... and so does one that leaves.
LEMMA LeaveKeeps ==
  ASSUME DomainInv, NEW e \in Ends, NEW swept \in SUBSET Ends, NEW stays \in BOOLEAN,
         Leave(e, swept, stays)
  PROVE  DomainInv' /\ Follows
<1> DEFINE f == [x \in Ends |-> IF x \in swept \/ (x = e /\ ~stays) THEN None
                                ELSE IF x = e THEN [ends[e] EXCEPT !.left = TRUE] ELSE ends[x]]
           c == ends[e].cell
<1>1. ends[e] # None /\ ends' = f /\ Release(c, f) /\ UNCHANGED <<rules, legs, accepted>>
  BY DEF Leave
<1>2. c \in Wrappers /\ ends[e] \in AnyEnd
  BY <1>1 DEF DomainInv, GroupsInv, EndsJoined
<1>3. [ends[e] EXCEPT !.left = TRUE] \in AnyEnd /\ [ends[e] EXCEPT !.left = TRUE].cell = c
  BY <1>2 DEF AnyEnd
<1>4. f \in [Ends -> AnyEnd \cup {None}] /\ \A x \in Ends : f[x] # None => f[x].cell = ends[x].cell /\ ends[x] # None
  BY <1>1, <1>3 DEF DomainInv, GroupsInv, EndsJoined
<1> HIDE DEF f, c
<1>5. /\ StructsFormed' /\ StructsApart' /\ GroupedByRule' /\ Follows
      /\ Wrappers' = IF EndsOf(f, c) # {} THEN Wrappers ELSE Wrappers \ {c}
  BY <1>1, <1>2, ReleaseKeeps DEF DomainInv, RulesInv
<1>6. EndsJoined'
  <2>1. ASSUME NEW x \in Ends, f[x] # None PROVE f[x].cell \in Wrappers'
    <3>1. f[x].cell \in Wrappers
      BY <1>4, <2>1 DEF DomainInv, GroupsInv, EndsJoined
    <3>2. f[x].cell = c => EndsOf(f, c) # {}
      BY <2>1 DEF EndsOf
    <3> QED BY <1>5, <3>1, <3>2
  <2> QED BY <1>1, <1>4, <2>1 DEF EndsJoined
<1>7. RulesInv'
  BY <1>1 DEF DomainInv, RulesInv, RulesFormed, Apart, AcceptedKept, LegsFormed
<1> QED BY <1>5, <1>6, <1>7 DEF DomainInv, GroupsInv

\* Every step keeps the invariant ...
LEMMA DomainSteps == DomainInv /\ Next => DomainInv'
<1> SUFFICES ASSUME DomainInv, Next PROVE DomainInv'
  OBVIOUS
<1>1. ASSUME NEW d \in PrefixDecls, DeclarePrefix(d[1], d[2], d[3]) PROVE DomainInv'
  BY <1>1, DeclarePrefixKeeps
<1>2. ASSUME NEW s \in Specs, RunTool(s) PROVE DomainInv'
  <2>1. legs' = LegsOf(s) /\ UNCHANGED <<rules, structs, ends, accepted>>
    BY <1>2 DEF RunTool
  <2>2. LegsFormed'
    BY <1>2, <2>1, LegsAreFormed DEF LegsFormed
  <2>3. Wrappers' = Wrappers /\ \A c : find_domain_rule(c)' = find_domain_rule(c)
    BY <2>1 DEF Wrappers, find_domain_rule
  <2> QED BY <2>1, <2>2, <2>3 DEF DomainInv, RulesInv, GroupsInv, RulesFormed, Apart, AcceptedKept,
                                  StructsFormed, StructsApart, GroupedByRule, EndsJoined
<1>3. ASSUME RegisterLeg PROVE DomainInv'
  BY <1>3, RegisterLegKeeps
<1>4. ASSUME NEW e \in Ends, NEW c \in Cells, NEW kind \in {"pub", "sub"}, Join(e, c, kind)
      PROVE  DomainInv'
  BY <1>4, JoinKeeps
<1>5. ASSUME NEW e \in Ends, NEW swept \in SUBSET Ends, NEW stays \in BOOLEAN, Leave(e, swept, stays)
      PROVE  DomainInv'
  BY <1>5, LeaveKeeps
<1> QED BY <1>1, <1>2, <1>3, <1>4, <1>5 DEF Next

\* ... and so does a step of another part.
LEMMA DomainStutters == DomainInv /\ UNCHANGED vars => DomainInv'
<1> SUFFICES ASSUME DomainInv, UNCHANGED vars PROVE DomainInv'
  OBVIOUS
<1>1. UNCHANGED <<rules, structs, ends, legs, accepted>>
  BY DEF vars
<1>2. Wrappers' = Wrappers /\ \A c : find_domain_rule(c)' = find_domain_rule(c)
  BY <1>1 DEF Wrappers, find_domain_rule
<1> QED BY <1>1, <1>2 DEF DomainInv, RulesInv, GroupsInv, RulesFormed, Apart, AcceptedKept, LegsFormed,
                          StructsFormed, StructsApart, GroupedByRule, EndsJoined

\* The invariant says what the run checks.
LEMMA DomainSays == DomainInv => RulesHold
<1> SUFFICES ASSUME DomainInv PROVE RulesHold
  OBVIOUS
<1>1. OneRulePerCell
  BY CellsAreCells DEF DomainInv, RulesInv, Apart, OneRulePerCell
<1>2. GroupedByRule
  BY DEF DomainInv, GroupsInv
<1>3. ASSUME NEW d \in accepted PROVE Outcome(d) = rules
  <2> DEFINE n == Canonical(d.from, d.to, d.prefix)
  <2>1. DeclFormed(d) /\ d.from.domain # d.to.domain
    BY DEF DomainInv, RulesInv, AcceptedKept
  <2>2. PICK r \in rules : Covers(r, d)
    BY DEF DomainInv, RulesInv, AcceptedKept
  <2>3. /\ RuleFormed(n) /\ n.prefix = d.prefix
        /\ (n.a = d.from /\ n.b = d.to) \/ (n.a = d.to /\ n.b = d.from)
    BY <2>1, CanonicalFormed
  <2>4. RuleFormed(r) /\ Pair(r) = Pair(n) /\ ~Enables(r, d.from, d.to)
    BY <2>2 DEF Covers, Enables, DomainInv, RulesInv, RulesFormed
  <2> HIDE DEF n
  <2>5. r.a = n.a /\ r.b = n.b /\ r.prefix = n.prefix
    BY <2>4 DEF Pair
  <2>6. d.from \in AnyCell /\ d.to \in AnyCell /\ r # None
    BY <2>1, <2>4, NoRuleIsNone DEF DeclFormed, AnyDecl, RuleFormed
  <2>7. CASE d.prefix
    <3>1. d.from = Cell(d.from.name, d.from.domain) /\ d.to = Cell(d.from.name, d.to.domain)
      BY <2>1, <2>7 DEF DeclFormed, AnyDecl, AnyCell, Cell
    <3>2. ASSUME NEW q \in rules, Overlaps(q, d.from.name, d.from.domain, d.to.domain) PROVE FALSE
      <4>1. r.a.name = d.from.name /\ {r.a.domain, r.b.domain} = {d.from.domain, d.to.domain}
        BY <2>1, <2>3, <2>5, <2>7 DEF DeclFormed
      <4>2. Overlaps(q, r.a.name, r.a.domain, r.b.domain)
        BY <3>2, <4>1 DEF Overlaps
      <4>3. RuleFormed(q)
        BY DEF DomainInv, RulesInv, RulesFormed
      <4>4. \E c \in AnyCell : Matches(q, c) /\ Matches(r, c)
        BY <2>3, <2>4, <2>5, <2>7, <4>2, <4>3, OverlapsMeet
      <4>5. q = r
        BY <4>4 DEF DomainInv, RulesInv, Apart
      <4> QED BY <2>3, <2>5, <2>7, <4>2, <4>5 DEF Overlaps
    <3>3. n = Canonical(Cell(d.from.name, d.from.domain), Cell(d.from.name, d.to.domain), TRUE)
      <4>1. d.prefix = TRUE
        BY <2>1, <2>7 DEF DeclFormed, AnyDecl
      <4> QED BY <3>1, <4>1 DEF n
    <3>4. Prefixed(d.from.name, d.from.domain, d.to.domain) = rules
      BY <2>4, <3>1, <3>2, <3>3 DEF Prefixed
    <3> QED BY <2>7, <3>4 DEF Outcome
  <2>8. CASE ~d.prefix
    <3>1. Matches(r, d.from) /\ Matches(r, d.to)
      BY <2>3, <2>5, <2>8 DEF Matches
    <3>2. find_domain_rule(d.from) = r /\ find_domain_rule(d.to) = r
      BY <2>6, <3>1, FindIs DEF DomainInv, RulesInv
    <3>3. Exact(d.from, d.to) = rules
      BY <2>3, <2>4, <2>5, <2>6, <2>8, <3>2 DEF Exact
    <3> QED BY <2>8, <3>3 DEF Outcome
  <2> QED BY <2>7, <2>8
<1> QED BY <1>1, <1>2, <1>3 DEF RulesHold, RedeclareAccepted

\* Endpoints that come and go change nothing for two others.
LEMMA SameReach ==
  ASSUME DomainInv, DomainInv', Follows, rules' = rules, NEW e \in Ends, NEW f \in Ends,
         ends[e] # None, ends'[e] = ends[e], ends[f] # None, ends'[f] = ends[f]
  PROVE  Allowed(ends[e], ends[f]) <=> Allowed(ends[e], ends[f])'
<1> DEFINE x == ends[e].cell
           y == ends[f].cell
<1>1. x \in Wrappers /\ y \in Wrappers /\ x \in Wrappers' /\ y \in Wrappers'
  BY DEF DomainInv, GroupsInv, EndsJoined
<1> HIDE DEF x, y
<1>2. PICK s \in structs : x \in s.cells
  BY <1>1, WrappersAre
<1>3. PICK t \in structs' : /\ x \in t.cells /\ t.rule = s.rule
                            /\ \A z \in Wrappers : z \in Wrappers' => (z \in s.cells <=> z \in t.cells)
  BY <1>1, <1>2 DEF Follows
<1>4. PICK v \in structs : y \in v.cells
  BY <1>1, WrappersAre
<1>5. PICK w \in structs' : y \in w.cells
  BY <1>1 DEF Wrappers
<1>6. StructOf(x) = s /\ StructOf(y) = v
  BY <1>2, <1>4, StructOfIs DEF DomainInv, GroupsInv
<1>7. (StructOf(ends[e].cell))' = t /\ (StructOf(ends[f].cell))' = w
  <2>1. \A u \in structs' : (x \in u.cells => u = t) /\ (y \in u.cells => u = w)
    BY <1>3, <1>5 DEF DomainInv, GroupsInv, StructsApart
  <2> QED BY <1>3, <1>5, <2>1 DEF StructOf, x, y
<1>8. s = v <=> y \in s.cells
  BY <1>2, <1>4 DEF DomainInv, GroupsInv, StructsApart
<1>9. t = w <=> y \in t.cells
  BY <1>3, <1>5 DEF DomainInv, GroupsInv, StructsApart
<1>10. s = v <=> t = w
  BY <1>1, <1>3, <1>8, <1>9
<1>11. RuleOf(s) = RuleOf(t)'
  BY <1>3 DEF RuleOf
<1> QED BY <1>3, <1>6, <1>7, <1>10, <1>11 DEF Allowed, x, y

\* Nor does a declaration, which may not touch a rule of a topic that is there.
LEMMA DeclareFixed ==
  ASSUME DomainInv, DomainInv', UNCHANGED <<structs, ends>>, NEW e \in Ends, NEW f \in Ends,
         \A c \in Wrappers : \A r : Matches(r, c) => (r \in rules <=> r \in rules'),
         ends[e] # None, ends[f] # None
  PROVE  Allowed(ends[e], ends[f]) <=> Allowed(ends[e], ends[f])'
<1> DEFINE x == ends[e].cell
<1>1. x \in Wrappers /\ x \in AnyCell
  BY WrappersCells DEF DomainInv, GroupsInv, EndsJoined
<1> HIDE DEF x
<1>2. PICK s \in structs : x \in s.cells
  BY <1>1, WrappersAre
<1>3. StructOf(x) = s
  BY <1>2, StructOfIs DEF DomainInv, GroupsInv
<1>4. \A c : StructOf(c) = StructOf(c)'
  BY DEF StructOf
<1>5. ASSUME s.rule # None PROVE RuleOf(s) = RuleOf(s)'
  <2> DEFINE r == find_domain_rule(x)
  <2>1. r # None /\ s.rule = Pair(r)
    BY <1>2, <1>5, GroupOf DEF DomainInv
  <2>2. r \in rules /\ Matches(r, x)
    BY <1>1, <2>1, FindIs DEF DomainInv, RulesInv
  <2> HIDE DEF r
  <2>3. r \in rules'
    BY <1>1, <2>2
  <2>4. r \in AnyRule
    BY <2>2 DEF DomainInv, RulesInv, RulesFormed, RuleFormed
  <2>5. ASSUME NEW q \in rules, Pair(q) = s.rule PROVE q = r
    <3>1. q \in AnyRule
      BY DEF DomainInv, RulesInv, RulesFormed, RuleFormed
    <3>2. Matches(q, x)
      BY <2>1, <2>2, <2>4, <2>5, <3>1, MatchesByPair
    <3> QED BY <1>1, <2>2, <3>2 DEF DomainInv, RulesInv, Apart
  <2>6. ASSUME NEW q \in rules', Pair(q) = s.rule PROVE q = r
    <3>1. q \in AnyRule
      BY DEF DomainInv, RulesInv, RulesFormed, RuleFormed
    <3>2. Matches(q, x)
      BY <2>1, <2>2, <2>4, <2>6, <3>1, MatchesByPair
    <3> QED BY <1>1, <2>2, <2>3, <3>2 DEF DomainInv, RulesInv, Apart
  <2>7. RuleOf(s) = r
    BY <2>1, <2>2, <2>5 DEF RuleOf
  <2>8. RuleOf(s)' = r
    BY <2>1, <2>3, <2>6 DEF RuleOf
  <2> QED BY <2>7, <2>8
<1> QED BY <1>3, <1>4, <1>5 DEF Allowed, x

\* No step settles anew who may be reached by whom.
Fixed ==
  \A e, f \in Ends :
    (/\ ends[e] # None /\ ends'[e] = ends[e] /\ ends[e].kind = "pub"
     /\ ends[f] # None /\ ends'[f] = ends[f] /\ ends[f].kind = "sub")
    => (Allowed(ends[e], ends[f]) <=> Allowed(ends[e], ends[f])')

\* No step of the rules or the endpoints opens or closes a direction.
LEMMA ReachSteps == DomainInv /\ Next => Fixed
<1> SUFFICES ASSUME DomainInv, Next, NEW e \in Ends, NEW f \in Ends,
                    ends[e] # None, ends'[e] = ends[e], ends[f] # None, ends'[f] = ends[f]
             PROVE  Allowed(ends[e], ends[f]) <=> Allowed(ends[e], ends[f])'
  BY DEF Fixed
<1>0. DomainInv'
  BY DomainSteps
<1>1. ASSUME NEW x \in PrefixDecls, DeclarePrefix(x[1], x[2], x[3])
      PROVE  Allowed(ends[e], ends[f]) <=> Allowed(ends[e], ends[f])'
  <2> DEFINE d == [from |-> Cell(x[1], x[2]), to |-> Cell(x[1], x[3]), prefix |-> TRUE]
  <2>1. x[1] \in Spelled /\ x[2] \in Domains /\ x[3] \in Domains
    BY <1>1, DomainRulesAssumption DEF Spelled
  <2>2. DeclFormed(d)
    BY <2>1 DEF DeclFormed, AnyDecl, AnyCell, Cell
  <2>3. Declare(d) /\ UNCHANGED <<structs, ends, legs>>
    BY <1>1 DEF DeclarePrefix
  <2> HIDE DEF d
  <2>4. \A c \in Wrappers : \A r : Matches(r, c) => (r \in rules <=> r \in rules')
    BY <2>2, <2>3, DeclareKeeps DEF DomainInv, RulesInv
  <2> QED BY <1>0, <2>3, <2>4, DeclareFixed
<1>2. ASSUME NEW s \in Specs, RunTool(s)
      PROVE  Allowed(ends[e], ends[f]) <=> Allowed(ends[e], ends[f])'
  BY <1>0, <1>2, DeclareFixed DEF RunTool
<1>3. ASSUME RegisterLeg
      PROVE  Allowed(ends[e], ends[f]) <=> Allowed(ends[e], ends[f])'
  <2> DEFINE D == {d \in AnyDecl : DeclFormed(d)}
  <2>1. legs \in Seq(D) /\ legs # <<>>
    BY <1>3 DEF DomainInv, RulesInv, LegsFormed, RegisterLeg
  <2>2. Head(legs) \in D
    <3> HIDE DEF D
    <3> QED BY <2>1
  <2>3. Declare(Head(legs)) /\ UNCHANGED <<structs, ends>>
    BY <1>3 DEF RegisterLeg
  <2>4. \A c \in Wrappers : \A r : Matches(r, c) => (r \in rules <=> r \in rules')
    BY <2>2, <2>3, DeclareKeeps DEF DomainInv, RulesInv
  <2> QED BY <1>0, <2>3, <2>4, DeclareFixed
<1>4. ASSUME NEW x \in Ends, NEW c \in Cells, NEW kind \in {"pub", "sub"}, Join(x, c, kind)
      PROVE  Allowed(ends[e], ends[f]) <=> Allowed(ends[e], ends[f])'
  <2>1. Follows /\ rules' = rules
    BY <1>4, JoinKeeps DEF Join
  <2> QED BY <1>0, <2>1, SameReach
<1>5. ASSUME NEW x \in Ends, NEW swept \in SUBSET Ends, NEW stays \in BOOLEAN, Leave(x, swept, stays)
      PROVE  Allowed(ends[e], ends[f]) <=> Allowed(ends[e], ends[f])'
  <2>1. Follows /\ rules' = rules
    BY <1>5, LeaveKeeps DEF Leave
  <2> QED BY <1>0, <2>1, SameReach
<1> QED BY <1>1, <1>2, <1>3, <1>4, <1>5 DEF Next

\* The variables of all the parts.
toolsVars == <<part, vars, agentVars, graphVars, configVars, systemVars>>

\* The invariant holds throughout.
LEMMA DomainHolds == ToolsSpec => []DomainInv
<1>1. ToolsInit => DomainInv
  BY DomainStarts DEF ToolsInit
<1>2. DomainInv /\ [ToolsNext]_toolsVars => DomainInv'
  BY DomainSteps, DomainStutters DEF ToolsNext, toolsVars
<1> QED BY <1>1, <1>2, PTL DEF ToolsSpec, toolsVars

\* However declarations of exact and prefix rules, the registration tool's legs and
\* endpoints that come and go interleave: find_domain_rule never has to choose, two
\* wrappers share a topic_struct exactly when the rules in force pair them, and running
\* the tool again succeeds (add_domain_rule, add_prefix_domain_rule, add_topic,
\* agnocast_release_topic_wrapper).
THEOREM DomainRulesHold == ToolsSpec => []RulesHold
BY DomainHolds, DomainSays, PTL

\* No step opens or closes a direction of delivery between a publisher and a subscriber
\* that both stay: what domain_delivery_allowed says of them was settled when the later
\* one joined.
THEOREM ReachSettled == ToolsSpec => ReachIsFixed
<1>1. DomainInv /\ [ToolsNext]_toolsVars => [Fixed]_vars
  BY ReachSteps DEF ToolsNext, toolsVars
<1>2. ToolsSpec => [][Fixed]_vars
  BY <1>1, DomainHolds, PTL DEF ToolsSpec, toolsVars
<1> QED BY <1>2 DEF ReachIsFixed, Fixed

-----------------------------------------------------------------------------
\* Types of endpoints

\* The file of a process.
FileRecords == [exists : BOOLEAN, lines : SUBSET T!Endpoints, torn : BOOLEAN, lost : BOOLEAN]

\* The types the argument needs.
RegistryTypes ==
  /\ alive \in [Pids -> {"new", "up", "dead"}]
  /\ making \in [Pids -> SUBSET T!Endpoints]
  /\ kernel \subseteq Pids \X T!Endpoints
  /\ files \in [Pids -> FileRecords]
  /\ pc \in {"idle", "rebuild", "sweep", "read", "published"}

\* The line of an endpoint was written before the kernel heard of it, or is lost; only the
\* files of dead processes are taken away.
LineFirst ==
  /\ \A p \in Pids : alive[p] # "dead" =>
       \A e \in T!Endpoints : (e \in making[p] \/ <<p, e>> \in kernel) /\ T!HasType(e) =>
         <<p, e>> \in unlucky \/ (files[p].exists /\ e \in files[p].lines)
  /\ \A p \in victim \cap Pids : alive[p] = "dead"

\* What is settled is in the kernel and of a live process.
SettledThere ==
  /\ \A x \in settled : x \in kernel /\ alive[x[1]] = "up"
  /\ pc = "idle" => settled = {}

\* The line of an endpoint must be in the table.
Lined(x) == x \notin unlucky /\ T!HasType(x[2])

\* The endpoint is in the snapshot as it should be.
Shown(x) == \E r \in report : r.end = x[2] /\ (Lined(x) => r.typed)

\* How far the tick has got with what is settled.
TickCovers ==
  \A x \in settled :
    /\ pc = "rebuild" /\ Lined(x) => x[1] \in todo \/ x[2] \in DOMAIN table
    /\ pc \in {"sweep", "read"} /\ Lined(x) => x[2] \in DOMAIN table
    /\ pc = "read" /\ T!IsReported(x) => <<x[2].topic, x[2].role>> \in todo \/ Shown(x)
    /\ pc = "published" /\ T!IsReported(x) => Shown(x)

\* The invariant of the type registry.
RegistryInv == RegistryTypes /\ LineFirst /\ SettledThere /\ TickCovers

\* Nothing runs at first.
LEMMA RegistryStarts == T!Init => RegistryInv
BY DEF T!Init, T!NoFile, T!Idle, FileRecords, RegistryInv, RegistryTypes, LineFirst, SettledThere, TickCovers, Lined, Shown

\* ... and as long as the agent rests.
LEMMA RegistryStutters == RegistryInv /\ UNCHANGED agentVars => RegistryInv'
BY DEF agentVars, RegistryInv, RegistryTypes, LineFirst, SettledThere, TickCovers, Lined, Shown

\* A process may do anything, as long as it keeps these promises.
LEMMA ProcessSteps ==
  ASSUME RegistryInv, RegistryTypes', LineFirst', UNCHANGED <<pc, todo, victim, table, report>>,
         settled' \ unlucky' \subseteq settled \ unlucky, settled' \subseteq settled,
         \A x \in settled' : x \in kernel' /\ alive'[x[1]] = "up"
  PROVE  RegistryInv'
BY DEF RegistryInv, SettledThere, TickCovers, Lined, Shown

\* A step of a process keeps the invariant.
LEMMA StartKeeps ==
  ASSUME RegistryInv, NEW p \in Pids, T!Start(p)
  PROVE  RegistryInv'
<1>1. RegistryTypes'
  BY DEF T!Start, T!agentVars, RegistryInv, RegistryTypes
<1>2. LineFirst'
  BY DEF T!Start, T!agentVars, RegistryInv, RegistryTypes, LineFirst
<1> QED BY <1>1, <1>2, ProcessSteps DEF T!Start, T!agentVars, RegistryInv, RegistryTypes, SettledThere

\* ... when it exits, its file goes or stays;
LEMMA ExitKeeps ==
  ASSUME RegistryInv, NEW p \in Pids, T!Exit(p)
  PROVE  RegistryInv'
<1>0. T!NoFile \in FileRecords
  BY DEF T!NoFile, FileRecords
<1>1. RegistryTypes'
  <2>1. CASE files' = files
    BY <2>1 DEF T!Exit, T!Idle, T!agentVars, RegistryInv, RegistryTypes
  <2>2. CASE files' = [files EXCEPT ![p] = T!NoFile]
    BY <1>0, <2>2 DEF T!Exit, T!Idle, T!agentVars, RegistryInv, RegistryTypes
  <2> QED BY <2>1, <2>2 DEF T!Exit
<1>2. LineFirst'
  BY DEF T!Exit, T!agentVars, T!NoFile, T!Idle, RegistryInv, RegistryTypes, LineFirst
<1> QED BY <1>1, <1>2, ProcessSteps DEF T!Exit, T!agentVars, RegistryInv, RegistryTypes, SettledThere

\* ... the kernel forgets its endpoints;
LEMMA CleanupKeeps ==
  ASSUME RegistryInv, NEW p \in Pids, T!Cleanup(p)
  PROVE  RegistryInv'
<1>1. RegistryTypes'
  BY DEF T!Cleanup, T!agentVars, RegistryInv, RegistryTypes
<1>2. LineFirst'
  BY DEF T!Cleanup, T!agentVars, RegistryInv, RegistryTypes, LineFirst
<1> QED BY <1>1, <1>2, ProcessSteps DEF T!Cleanup, T!agentVars, RegistryInv, RegistryTypes, SettledThere

\* ... it writes the line of an endpoint to come, or loses it;
LEMMA RegisterTypeKeeps ==
  ASSUME RegistryInv, NEW p \in Pids, NEW e \in T!Endpoints, T!RegisterType(p, e)
  PROVE  RegistryInv'
<1>0. /\ alive[p] = "up" /\ making[p] = {} /\ <<p, e>> \notin kernel
      /\ making' = [making EXCEPT ![p] = {e}]
      /\ UNCHANGED <<alive, kernel, pc, todo, victim, table, report, settled>>
  BY DEF T!RegisterType, T!Busy, T!Idle, T!agentVars
<1>1. /\ files' \in [Pids -> FileRecords]
      /\ \A q \in Pids \ {p} : files'[q] = files[q]
      /\ files[p].exists => files'[p].exists
      /\ files[p].lines \subseteq files'[p].lines
      /\ <<p, e>> \in unlucky' \/ (files'[p].exists /\ e \in files'[p].lines)
  <2>0. files \in [Pids -> FileRecords]
    BY DEF RegistryInv, RegistryTypes
  <2>1. CASE UNCHANGED files /\ <<p, e>> \in unlucky'
    BY <2>0, <2>1
  <2>2. ASSUME NEW partly \in BOOLEAN, <<p, e>> \in unlucky',
               files' = [files EXCEPT ![p].exists = TRUE, ![p].torn = @ \/ partly]
        PROVE  <1>1!:
    BY <2>0, <2>2 DEF FileRecords
  <2>3. CASE files' = [files EXCEPT ![p].lost = TRUE] /\ <<p, e>> \in unlucky'
    BY <2>0, <2>3 DEF FileRecords
  <2>4. CASE /\ files' = [files EXCEPT ![p].exists = TRUE, ![p].torn = FALSE,
                             ![p].lines = IF files[p].torn THEN @ ELSE @ \cup {e}]
             /\ unlucky' = IF files[p].torn THEN unlucky \cup {<<p, e>>} ELSE unlucky \ {<<p, e>>}
    BY <2>0, <2>4 DEF FileRecords
  <2> QED BY <2>1, <2>2, <2>3, <2>4 DEF T!RegisterType
<1>3. unlucky \ {<<p, e>>} \subseteq unlucky' /\ unlucky' \subseteq unlucky \cup {<<p, e>>}
  BY DEF T!RegisterType
<1>4. RegistryTypes'
  BY <1>0, <1>1 DEF RegistryInv, RegistryTypes
<1>5. LineFirst'
  <2>1. ASSUME NEW q \in Pids, alive'[q] # "dead", NEW f \in T!Endpoints,
               f \in making'[q] \/ <<q, f>> \in kernel', T!HasType(f)
        PROVE  <<q, f>> \in unlucky' \/ (files'[q].exists /\ f \in files'[q].lines)
    <3>1. CASE q = p /\ f = e
      BY <1>1, <3>1
    <3>2. CASE ~(q = p /\ f = e)
      <4>1. f \in making[q] \/ <<q, f>> \in kernel
        BY <1>0, <2>1, <3>2 DEF RegistryInv, RegistryTypes
      <4>2. <<q, f>> \in unlucky \/ (files[q].exists /\ f \in files[q].lines)
        BY <1>0, <2>1, <4>1 DEF RegistryInv, LineFirst
      <4>3. CASE q = p
        BY <1>1, <1>3, <3>2, <4>2, <4>3
      <4>4. CASE q # p
        BY <1>1, <1>3, <4>2, <4>4
      <4> QED BY <4>3, <4>4
    <3> QED BY <3>1, <3>2
  <2> QED BY <2>1, <1>0 DEF RegistryInv, LineFirst
<1>6. \A x \in settled : x \in kernel /\ x # <<p, e>>
  BY <1>0 DEF RegistryInv, SettledThere
<1> QED BY <1>0, <1>3, <1>4, <1>5, <1>6, ProcessSteps DEF RegistryInv, SettledThere

\* ... the kernel hears of the endpoint;
LEMMA AddEndpointKeeps ==
  ASSUME RegistryInv, NEW p \in Pids, NEW e \in T!Endpoints, T!AddEndpoint(p, e)
  PROVE  RegistryInv'
<1>1. RegistryTypes'
  BY DEF T!AddEndpoint, T!agentVars, T!Idle, RegistryInv, RegistryTypes
<1>2. LineFirst'
  BY DEF T!AddEndpoint, T!agentVars, T!Idle, RegistryInv, RegistryTypes, LineFirst
<1> QED BY <1>1, <1>2, ProcessSteps DEF T!AddEndpoint, T!agentVars, RegistryInv, SettledThere

\* ... it hears of one of a service, which needs no line;
LEMMA AddServiceEndpointKeeps ==
  ASSUME RegistryInv, NEW p \in Pids, NEW e \in T!Endpoints, T!AddServiceEndpoint(p, e)
  PROVE  RegistryInv'
<1>1. RegistryTypes'
  BY DEF T!AddServiceEndpoint, T!agentVars, RegistryInv, RegistryTypes
<1>2. LineFirst'
  BY DEF T!AddServiceEndpoint, T!agentVars, RegistryInv, RegistryTypes, LineFirst
<1> QED BY <1>1, <1>2, ProcessSteps DEF T!AddServiceEndpoint, T!agentVars, RegistryInv, SettledThere

\* ... the endpoint goes.
LEMMA RemoveEndpointKeeps ==
  ASSUME RegistryInv, NEW p \in Pids, NEW e \in T!Endpoints, T!RemoveEndpoint(p, e)
  PROVE  RegistryInv'
<1>1. RegistryTypes'
  BY DEF T!RemoveEndpoint, T!agentVars, RegistryInv, RegistryTypes
<1>2. LineFirst'
  BY DEF T!RemoveEndpoint, T!agentVars, RegistryInv, RegistryTypes, LineFirst
<1> QED BY <1>1, <1>2, ProcessSteps DEF T!RemoveEndpoint, T!agentVars, RegistryInv, SettledThere

\* A tick begins: the files of all that is settled are there to be read.
LEMMA RebuildKeeps ==
  ASSUME RegistryInv, T!Rebuild
  PROVE  RegistryInv'
<1>0. /\ pc' = "rebuild" /\ todo' = T!Existing
      /\ settled' = {x \in kernel : alive[x[1]] = "up"}
      /\ UNCHANGED <<alive, making, kernel, files, victim, unlucky>>
  BY DEF T!Rebuild, T!processVars
<1>1. \A x \in settled' : Lined(x)' => x[1] \in todo'
  <2> SUFFICES ASSUME NEW x \in kernel, alive[x[1]] = "up", Lined(x) PROVE x[1] \in todo'
    BY <1>0 DEF Lined
  <2>1. x \in Pids \X T!Endpoints /\ x = <<x[1], x[2]>>
    BY DEF RegistryInv, RegistryTypes
  <2>2. files[x[1]].exists
    BY <2>1 DEF RegistryInv, LineFirst, Lined
  <2> QED BY <1>0, <2>1, <2>2 DEF T!Existing
<1> QED BY <1>0, <1>1 DEF RegistryInv, RegistryTypes, LineFirst, SettledThere, TickCovers, Lined, Shown

\* A file that is read has the lines of what is settled in it.
LEMMA IngestFileKeeps ==
  ASSUME RegistryInv, NEW p \in Pids, T!IngestFile(p)
  PROVE  RegistryInv'
<1>0. /\ pc = "rebuild" /\ todo' = todo \ {p}
      /\ DOMAIN table' = files[p].lines \cup DOMAIN table
      /\ UNCHANGED <<alive, making, kernel, files, pc, victim, settled, unlucky>>
  BY DEF T!IngestFile, T!processVars
<1>1. ASSUME NEW x \in settled, Lined(x)
      PROVE  x[1] \in todo' \/ x[2] \in DOMAIN table'
  <2>1. x \in Pids \X T!Endpoints /\ x = <<x[1], x[2]>> /\ x \in kernel /\ alive[x[1]] = "up"
    BY DEF RegistryInv, RegistryTypes, SettledThere
  <2>2. x[2] \in files[x[1]].lines
    BY <1>1, <2>1 DEF RegistryInv, LineFirst, Lined
  <2> QED BY <1>0, <1>1, <2>2 DEF RegistryInv, TickCovers
<1> QED BY <1>0, <1>1 DEF RegistryInv, RegistryTypes, LineFirst, SettledThere, TickCovers, Lined, Shown

\* The steps of a tick that neither read nor remove anything.
LEMMA SweepKeeps ==
  ASSUME RegistryInv,
         T!StartSweep \/ T!Publish \/ T!EndTick \/ \E p \in Pids : T!CheckFile(p)
  PROVE  RegistryInv'
<1>1. CASE T!StartSweep
  BY <1>1 DEF T!StartSweep, T!processVars, RegistryInv, RegistryTypes, LineFirst, SettledThere, TickCovers, Lined, Shown
<1>2. CASE T!Publish
  BY <1>2 DEF T!Publish, T!processVars, RegistryInv, RegistryTypes, LineFirst, SettledThere, TickCovers, Lined, Shown
<1>3. CASE T!EndTick
  BY <1>3 DEF T!EndTick, T!processVars, RegistryInv, RegistryTypes, LineFirst, SettledThere, TickCovers, Lined, Shown
<1>4. ASSUME NEW p \in Pids, T!CheckFile(p) PROVE RegistryInv'
  BY <1>4 DEF T!CheckFile, T!Dead, T!processVars, RegistryInv, RegistryTypes, LineFirst, SettledThere, TickCovers, Lined, Shown
<1> QED BY <1>1, <1>2, <1>3, <1>4

\* A file that is removed was of a dead process.
LEMMA UnlinkFileKeeps ==
  ASSUME RegistryInv, NEW p \in Pids, T!UnlinkFile(p)
  PROVE  RegistryInv'
<1>0. alive[p] = "dead"
  BY DEF T!UnlinkFile, RegistryInv, LineFirst
<1>1. RegistryTypes'
  BY DEF T!UnlinkFile, T!NoFile, FileRecords, RegistryInv, RegistryTypes
<1>2. LineFirst'
  BY <1>0 DEF T!UnlinkFile, T!NoFile, RegistryInv, RegistryTypes, LineFirst
<1> QED BY <1>1, <1>2 DEF T!UnlinkFile, RegistryInv, SettledThere, TickCovers, Lined, Shown

\* What is settled is on a topic of the list, unless the kernel could not be asked.
LEMMA ListTopicsKeeps ==
  ASSUME RegistryInv, T!ListTopics
  PROVE  RegistryInv'
<1>0. /\ pc = "sweep" /\ pc' = "read"
      /\ UNCHANGED <<alive, making, kernel, files, victim, table, unlucky>>
      /\ settled' \subseteq settled
  BY DEF T!ListTopics, T!processVars
<1>1. ASSUME NEW x \in settled', T!IsReported(x) PROVE <<x[2].topic, x[2].role>> \in todo'
  <2>1. x \in kernel /\ x[2] \in T!Endpoints
    BY <1>0, <1>1 DEF RegistryInv, RegistryTypes, SettledThere
  <2>2. x[2].role \in {"pub", "sub"} /\ <<x[2].topic, OwnDomain>> \in T!get_topic_list
    BY <1>1, <2>1, RegistryAssumption DEF T!get_topic_list, T!IsReported
  <2>3. x[2].topic \in T!OwnTopics
    BY <2>2 DEF T!OwnTopics
  <2> QED BY <1>1, <2>2, <2>3 DEF T!ListTopics
<1> QED BY <1>0, <1>1 DEF RegistryInv, RegistryTypes, LineFirst, SettledThere, TickCovers, Lined, Shown

\* An endpoint that the table has is reported with its type.
LEMMA CollectKeeps ==
  ASSUME RegistryInv, NEW t \in {e.topic : e \in T!Endpoints} \X {"pub", "sub"}, T!CollectEndpoints(t)
  PROVE  RegistryInv'
<1>0. /\ pc = "read" /\ todo' = todo \ {t}
      /\ UNCHANGED <<alive, making, kernel, files, pc, victim, table, unlucky>>
      /\ settled' \subseteq settled
  BY DEF T!CollectEndpoints, T!processVars
<1>1. ASSUME NEW x \in settled', T!IsReported(x)
      PROVE  <<x[2].topic, x[2].role>> \in todo' \/ Shown(x)'
  <2>1. x \in kernel /\ (Lined(x) => x[2] \in DOMAIN table)
    BY <1>0, <1>1 DEF RegistryInv, SettledThere, TickCovers
  <2>2. CASE <<x[2].topic, x[2].role>> = t
    <3>1. x \in T!Of(t[1], t[2]) /\ t[2] \in {"pub", "sub"}
      BY <1>1, <2>1, <2>2 DEF T!Of, T!IsReported
    <3>2. x[2] \in T!Rows(t)
      BY <3>1 DEF T!Rows, T!get_topic_publisher_info, T!get_topic_subscriber_info
    <3>3. T!ToEndpoint(x[2]).end = x[2] /\ (Lined(x) => T!ToEndpoint(x[2]).typed)
      BY <2>1 DEF T!ToEndpoint
    <3>4. T!ToEndpoint(x[2]) \in report'
      BY <1>1, <2>2, <3>2 DEF T!CollectEndpoints
    <3> QED BY <1>0, <3>3, <3>4 DEF Shown, Lined
  <2>3. CASE <<x[2].topic, x[2].role>> # t
    <3>1. <<x[2].topic, x[2].role>> \in todo \/ Shown(x)
      BY <1>0, <1>1 DEF RegistryInv, TickCovers
    <3>2. report \subseteq report'
      BY DEF T!CollectEndpoints
    <3> QED BY <1>0, <2>3, <3>1, <3>2 DEF Shown, Lined
  <2> QED BY <2>2, <2>3
<1> QED BY <1>0, <1>1 DEF RegistryInv, RegistryTypes, LineFirst, SettledThere, TickCovers, Lined, Shown

\* Every step keeps the invariant.
LEMMA RegistrySteps == RegistryInv /\ T!Next => RegistryInv'
<1>1. \A p \in Pids : EndpointsOf[p] \subseteq T!Endpoints
  BY DEF T!Endpoints
<1> QED BY <1>1, StartKeeps, ExitKeeps, CleanupKeeps, RegisterTypeKeeps, AddEndpointKeeps,
           AddServiceEndpointKeeps, RemoveEndpointKeeps, RebuildKeeps, IngestFileKeeps, SweepKeeps,
           UnlinkFileKeeps, ListTopicsKeeps, CollectKeeps DEF T!Next

\* The invariant says of a snapshot what is promised.
LEMMA RegistrySays == RegistryInv => SettledIsReported
BY DEF RegistryInv, TickCovers, SettledIsReported, T!SettledIsReported, Lined, Shown

\* An endpoint of the agent's domain that the kernel knows of when a tick of the discovery
\* agent begins, and that stays, is in the snapshot unless a query failed, and with its type
\* unless its line was lost; endpoints of services have no type there, and response topics
\* are not listed.  Processes may register, exit and be swept at any step of the tick
\* (initialize_publisher, TypeRegistryWriter, rebuild, cleanup_dead_pids,
\* agnocast_ioctl_get_topic_list, read_local_topics, _collect_endpoints).
THEOREM SettledReported == ToolsSpec => []SettledIsReported
<1>1. ToolsInit => RegistryInv
  BY RegistryStarts DEF ToolsInit
<1>2. RegistryInv /\ [ToolsNext]_toolsVars => RegistryInv'
  BY RegistrySteps, RegistryStutters DEF ToolsNext, toolsVars
<1> QED BY <1>1, <1>2, RegistrySays, PTL DEF ToolsSpec, toolsVars

-----------------------------------------------------------------------------
\* Kernel threads and IRQs

\* Words, among them the ones of the model.
Words == STRING \cup {"OTHER", "FIFO", "DEADLINE", "eth", ""}

\* Threads whose tunable is in the range of their policy.
ThreadRecords ==
  {i \in [comm : Words, policy : Words, tunable : Int, affinity : SUBSET Int, fixed : BOOLEAN] :
     i.policy \in {"OTHER", "FIFO"} => i.tunable \in S!Tunables(i.policy)}
IrqRecords == [actions : Words, affinity : SUBSET Int, managed : BOOLEAN]

\* The numbers of an entry of the file are there or not.
Numbered(y) ==
  \A number \in {y.nice, y.priority, y.deadline} :
    number \subseteq Int /\ \A m, n \in number : m = n

\* Attributes that threads may be given.
Feasible(a) ==
  /\ a.affinity \subseteq Cpus
  /\ a.policy # S!Unset => /\ a.policy \in S!Policies /\ a.tunable \in Int
                           /\ a.policy \in {"OTHER", "FIFO"} => a.tunable \in S!Tunables(a.policy)

\* The types the argument needs.
SystemTypes ==
  /\ DOMAIN threads \subseteq Tids /\ threads \in [DOMAIN threads -> ThreadRecords]
  /\ DOMAIN scan \subseteq Tids /\ scan \in [DOMAIN scan -> ThreadRecords]
  /\ irqs \in [Irqs -> IrqRecords]
  /\ DOMAIN systemFile = {"threads", "irqs"} /\ DOMAIN systemFile.irqs \subseteq Irqs
  /\ \A c \in DOMAIN systemFile.threads : Numbered(systemFile.threads[c])
  /\ systemPc \in {"idle", "threads", "irqs", "done", "rejected"}
  /\ balance \in BOOLEAN /\ asDumped \in BOOLEAN
  /\ outcome \in [threads : SUBSET Nat, irqs : SUBSET Nat,
                  badThreads : SUBSET Nat, badIrqs : SUBSET Nat]
  /\ touched \in [threads : SUBSET Nat, irqs : SUBSET Nat]

Passing == {"threads", "irqs", "done"}

\* The entries of a pass come from a valid file, and what the pass has yet to visit is
\* as it was scanned.
InHand ==
  /\ \A c \in DOMAIN entries.threads : Feasible(entries.threads[c])
  /\ DOMAIN entries.irqs \subseteq Irqs
  /\ \A n \in DOMAIN entries.irqs : entries.irqs[n].affinity \subseteq Cpus
  /\ systemPc \in Passing =>
       /\ DOMAIN threads \subseteq DOMAIN scan
       /\ \A t \in DOMAIN threads : threads[t].comm = scan[t].comm
  /\ systemPc = "threads" =>
       /\ systemTodo \subseteq DOMAIN scan
       /\ \A t \in systemTodo : /\ scan[t].comm \in DOMAIN entries.threads
                                /\ t \in DOMAIN threads => threads[t] = scan[t]
  /\ systemPc = "irqs" => systemTodo \subseteq DOMAIN entries.irqs

\* What is reported so far holds.
EnsuredThread(t) ==
  LET a == entries.threads[threads[t].comm]
  IN  /\ a.policy # S!Unset => threads[t].policy = a.policy /\ threads[t].tunable = a.tunable
      /\ a.affinity # {} => S!Manageable(threads[t].affinity) = a.affinity
EnsuredIrq(n) ==
  S!SameDevice(n) /\ (balance \/ S!Manageable(irqs[n].affinity) = entries.irqs[n].affinity)
EnsuredSoFar ==
  /\ \A t \in outcome.threads \cap DOMAIN threads : EnsuredThread(t)
  /\ systemPc = "threads" => outcome.irqs = {} /\ outcome.threads \cap systemTodo = {}
  /\ systemPc \in {"irqs", "done"} => \A n \in outcome.irqs : n \in Irqs /\ EnsuredIrq(n)

\* The template of a scan.
TemplateOf(th) ==
  [c \in {th[t].comm : t \in DOMAIN th} |->
     S!EmitThread(th[S!Min({t \in DOMAIN th : th[t].comm = c})])]
DumpedIrqs == [n \in S!DeviceBacked |-> S!EmitIrq(irqs[n])]

\* The thread shares its name with one whose attributes differ.
Ambiguous(t) ==
  /\ t \in DOMAIN scan
  /\ \E u \in DOMAIN scan : /\ scan[u].comm = scan[t].comm
                            /\ S!EmitThread(scan[u]) # S!EmitThread(scan[t])

\* While file and system are as they were dumped, a pass changes only ambiguous threads.
StillDumped ==
  asDumped =>
    /\ systemPc \in {"idle", "rejected"} =>
         systemFile = [threads |-> TemplateOf(threads), irqs |-> DumpedIrqs]
    /\ systemPc \in Passing =>
         /\ systemFile = [threads |-> TemplateOf(scan), irqs |-> DumpedIrqs]
         /\ entries = S!Parsed(systemFile)
         /\ touched.irqs = {}
         /\ touched.threads = {} => threads = scan
         /\ \A t \in touched.threads : Ambiguous(t)

\* The invariant of the passes.
PassInv == SystemTypes /\ InHand /\ EnsuredSoFar /\ StillDumped

\* A set of thread ids or IRQ numbers has a least one,
LEMMA LeastIs ==
  ASSUME NEW N \in SUBSET Nat, N # {}
  PROVE  S!Min(N) \in N
<1>1. IsWellFoundedOn(OpToRel(<, Nat), Nat)
  BY NatLessThanWellFounded
<1>2. PICK k \in N : \A l \in N : <<l, k>> \notin OpToRel(<, Nat)
  BY <1>1, WFMin
<1>3. \A l \in N : l \in Nat /\ k \in Nat /\ ~(l < k)
  BY <1>2 DEF OpToRel
<1>4. \A l \in N : k <= l
  BY <1>3
<1> QED BY <1>4 DEF S!Min

\* ... and the number of an entry is its greatest.
LEMMA GreatestIs ==
  ASSUME NEW N \in SUBSET Int, N # {}, \A m, n \in N : m = n
  PROVE  S!Max(N) \in N
<1>1. PICK n \in N : TRUE
  OBVIOUS
<1>2. \A m \in N : n >= m
  BY <1>1
<1> QED BY <1>2 DEF S!Max

\* A thread's own line of the template is valid and asks for nothing.
LEMMA OwnLine ==
  ASSUME NEW i \in ThreadRecords
  PROVE  /\ S!ValidThread(S!EmitThread(i)) /\ Numbered(S!EmitThread(i))
         /\ S!InSync(S!Attrs(S!EmitThread(i)), i)
<1> DEFINE y == S!EmitThread(i)
<1>0. i.tunable \in Int /\ (i.policy \in {"OTHER", "FIFO"} => i.tunable \in S!Tunables(i.policy))
  BY DEF ThreadRecords
<1>1. Numbered(y)
  BY <1>0 DEF Numbered, S!EmitThread
<1>2. y.affinity \subseteq Cpus /\ (y.affinity # {} => S!Manageable(i.affinity) = y.affinity)
  BY DEF S!EmitThread, S!Manageable
<1>3. CASE S!Representable(i.policy)
  <2>1. /\ y.policy = i.policy /\ i.policy \in {"OTHER", "FIFO"} /\ S!Tunable(y) = {i.tunable}
    BY <1>3 DEF S!EmitThread, S!Representable, S!Policies, S!Tunable, S!IsCfs
  <2>2. S!Max({i.tunable}) = i.tunable
    BY <1>0, GreatestIs
  <2>3. i.policy # S!Unset /\ i.policy \in S!Policies
    BY <2>1 DEF S!Unset, S!Policies
  <2>4. S!ValidThread(y)
    BY <1>0, <1>2, <2>1, <2>3 DEF S!ValidThread, S!ValidAffinity
  <2>5. S!Attrs(y) = [policy |-> i.policy, tunable |-> i.tunable, affinity |-> y.affinity]
    BY <2>1, <2>2, <2>3 DEF S!Attrs
  <2>6. S!InSync(S!Attrs(y), i)
    BY <1>2, <2>1, <2>5 DEF S!InSync
  <2> QED BY <1>1, <2>4, <2>6
<1>4. CASE ~S!Representable(i.policy)
  <2>1. y.policy = S!Unset /\ y.nice = {} /\ y.priority = {} /\ y.deadline = {}
    BY <1>4 DEF S!EmitThread
  <2>2. S!ValidThread(y)
    BY <1>2, <2>1 DEF S!ValidThread, S!ValidAffinity
  <2>3. S!InSync(S!Attrs(y), i)
    BY <1>2, <2>1 DEF S!InSync, S!Attrs
  <2> QED BY <1>1, <2>2, <2>3
<1> QED BY <1>3, <1>4

\* What a valid entry of a file asks for is feasible.
LEMMA ValidFeasible ==
  ASSUME NEW y, S!ValidThread(y), Numbered(y)
  PROVE  Feasible(S!Attrs(y))
<1>1. S!Attrs(y).affinity \subseteq Cpus /\ S!Attrs(y).policy = y.policy
  BY DEF S!ValidThread, S!ValidAffinity, S!Attrs
<1>2. ASSUME y.policy # S!Unset
      PROVE  /\ y.policy \in S!Policies /\ S!Attrs(y).tunable \in Int
             /\ y.policy \in {"OTHER", "FIFO"} => S!Attrs(y).tunable \in S!Tunables(y.policy)
  <2>1. y.policy \in S!Policies /\ S!Tunable(y) # {}
        /\ (y.policy # "DEADLINE" => S!Tunable(y) \subseteq S!Tunables(y.policy))
    BY <1>2 DEF S!ValidThread
  <2>2. S!Tunable(y) \subseteq Int /\ \A m, n \in S!Tunable(y) : m = n
    BY DEF Numbered, S!Tunable
  <2>3. S!Max(S!Tunable(y)) \in S!Tunable(y)
    BY <2>1, <2>2, GreatestIs
  <2> QED BY <1>2, <2>1, <2>2, <2>3 DEF S!Attrs
<1> QED BY <1>1, <1>2 DEF Feasible

\* The template is a valid file.
LEMMA TemplateValid ==
  ASSUME NEW th, DOMAIN th \subseteq Tids, th \in [DOMAIN th -> ThreadRecords],
         irqs \in [Irqs -> IrqRecords]
  PROVE  LET f == [threads |-> TemplateOf(th), irqs |-> DumpedIrqs]
         IN  /\ S!ValidFile(f) /\ \A c \in DOMAIN f.threads : Numbered(f.threads[c])
             /\ DOMAIN f.irqs \subseteq Irqs
<1> DEFINE f == [threads |-> TemplateOf(th), irqs |-> DumpedIrqs]
<1>1. ASSUME NEW c \in DOMAIN f.threads
      PROVE  S!ValidThread(f.threads[c]) /\ Numbered(f.threads[c])
  <2> DEFINE same == {t \in DOMAIN th : th[t].comm = c}
  <2>1. same # {} /\ same \subseteq Nat
    BY SystemAssumption DEF TemplateOf
  <2>2. S!Min(same) \in same
    BY <2>1, LeastIs
  <2>3. f.threads[c] = S!EmitThread(th[S!Min(same)]) /\ th[S!Min(same)] \in ThreadRecords
    BY <2>2 DEF TemplateOf
  <2> QED BY <2>3, OwnLine
<1>2. ASSUME NEW n \in DOMAIN f.irqs PROVE S!ValidAffinity(f.irqs[n]) /\ n \in Irqs
  BY DEF DumpedIrqs, S!DeviceBacked, S!EmitIrq, S!ValidAffinity, S!Manageable
<1> QED BY <1>1, <1>2 DEF S!ValidFile

\* Nothing has been scanned at first.
LEMMA PassStarts == S!Init => PassInv
<1> SUFFICES ASSUME S!Init PROVE PassInv
  OBVIOUS
<1>1. /\ DOMAIN threads = Tids /\ threads \in [DOMAIN threads -> ThreadRecords]
      /\ irqs \in [Irqs -> IrqRecords] /\ scan = threads
  <2>1. ThreadStates \subseteq ThreadRecords
    BY SystemAssumption DEF ThreadRecords, Words
  <2>2. IrqStates \subseteq IrqRecords
    BY SystemAssumption DEF IrqRecords, Words
  <2> QED BY <2>1, <2>2 DEF S!Init
<1>2. systemFile = [threads |-> TemplateOf(threads), irqs |-> DumpedIrqs]
  BY DEF S!Init, S!Template, TemplateOf, DumpedIrqs, S!CommsRunning, S!Running
<1>3. /\ \A c \in DOMAIN systemFile.threads : Numbered(systemFile.threads[c])
      /\ DOMAIN systemFile.irqs \subseteq Irqs
  BY <1>1, <1>2, TemplateValid
<1>4. SystemTypes
  BY <1>1, <1>2, <1>3 DEF S!Init, S!Empty, SystemTypes
<1>5. InHand
  BY <1>1 DEF S!Init, InHand, Passing
<1>6. EnsuredSoFar
  BY DEF S!Init, S!Empty, EnsuredSoFar
<1>7. StillDumped
  BY <1>2 DEF S!Init, StillDumped, Passing
<1> QED BY <1>4, <1>5, <1>6, <1>7 DEF PassInv

\* ... and as long as the configurator rests.
LEMMA PassStutters == PassInv /\ UNCHANGED systemVars => PassInv'
<1> SUFFICES ASSUME PassInv, UNCHANGED systemVars PROVE PassInv'
  OBVIOUS
<1>0. UNCHANGED <<threads, irqs, balance, systemFile, entries, systemPc, scan, systemTodo,
                  outcome, touched, asDumped>>
  BY DEF systemVars
<1>1. SystemTypes'
  BY <1>0 DEF PassInv, SystemTypes
<1>2. InHand'
  BY <1>0 DEF PassInv, InHand
<1>3. EnsuredSoFar'
  BY <1>0 DEF PassInv, EnsuredSoFar, EnsuredThread, EnsuredIrq, S!SameDevice
<1>4. StillDumped'
  <2>1. /\ DumpedIrqs' = DumpedIrqs /\ TemplateOf(scan)' = TemplateOf(scan)
        /\ TemplateOf(threads)' = TemplateOf(threads)
        /\ S!Parsed(systemFile)' = S!Parsed(systemFile)
        /\ \A t : Ambiguous(t)' <=> Ambiguous(t)
    BY <1>0 DEF DumpedIrqs, S!DeviceBacked, TemplateOf, Ambiguous, S!Parsed
  <2> QED BY <1>0, <2>1 DEF PassInv, StillDumped
<1> QED BY <1>1, <1>2, <1>3, <1>4 DEF PassInv

\* A pass begins with a valid file and a fresh scan.
LEMMA StartPassKeeps ==
  ASSUME PassInv, S!StartPass
  PROVE  PassInv'
<1>0. /\ systemPc = "idle" /\ systemPc' = "threads" /\ S!ValidFile(systemFile)
      /\ entries' = S!Parsed(systemFile) /\ scan' = threads
      /\ systemTodo' = {t \in DOMAIN threads : /\ threads[t].comm \in DOMAIN entries'.threads
                                               /\ S!IsManaged(entries'.threads[threads[t].comm])}
      /\ outcome' = S!Empty /\ touched' = [threads |-> {}, irqs |-> {}]
      /\ UNCHANGED <<threads, irqs, balance, systemFile, asDumped>>
  BY DEF S!StartPass, S!Running
<1>1. SystemTypes'
  BY <1>0 DEF PassInv, SystemTypes, S!Empty
<1>2. InHand'
  <2>1. \A c \in DOMAIN entries'.threads : Feasible(entries'.threads[c])
    <3>1. ASSUME NEW c \in DOMAIN systemFile.threads PROVE Feasible(S!Attrs(systemFile.threads[c]))
      BY <1>0, ValidFeasible DEF S!ValidFile, PassInv, SystemTypes
    <3> QED BY <1>0, <3>1 DEF S!Parsed
  <2>2. DOMAIN entries'.irqs \subseteq Irqs /\ \A n \in DOMAIN entries'.irqs : entries'.irqs[n].affinity \subseteq Cpus
    BY <1>0 DEF S!Parsed, S!ValidFile, S!ValidAffinity, PassInv, SystemTypes
  <2> QED BY <1>0, <2>1, <2>2 DEF InHand
<1>3. EnsuredSoFar'
  BY <1>0 DEF EnsuredSoFar, S!Empty
<1>4. StillDumped'
  <2>1. DumpedIrqs' = DumpedIrqs /\ TemplateOf(scan)' = TemplateOf(threads)
    BY <1>0 DEF DumpedIrqs, S!DeviceBacked, TemplateOf
  <2> QED BY <1>0, <2>1 DEF PassInv, StillDumped, Passing, S!Parsed
<1> QED BY <1>1, <1>2, <1>3, <1>4 DEF PassInv

\* Steps that touch neither the threads nor the IRQs nor what was reported of them.
LEMMA QuietKeeps ==
  ASSUME PassInv, S!Reject \/ S!StartIrqs \/ S!EndPass \/ S!Respond
  PROVE  PassInv'
<1>0. UNCHANGED <<threads, irqs, balance, systemFile, entries, scan, outcome, touched>>
  BY DEF S!Reject, S!StartIrqs, S!EndPass, S!Respond
<1>1. SystemTypes'
  BY <1>0 DEF S!Reject, S!StartIrqs, S!EndPass, S!Respond, PassInv, SystemTypes
<1>2. InHand'
  BY <1>0 DEF S!Reject, S!StartIrqs, S!EndPass, S!Respond, PassInv, InHand, Passing
<1>3. EnsuredSoFar'
  <2>1. (\A t \in DOMAIN threads : EnsuredThread(t)' <=> EnsuredThread(t))
        /\ (\A n : EnsuredIrq(n)' <=> EnsuredIrq(n))
    BY <1>0 DEF EnsuredThread, EnsuredIrq, S!SameDevice
  <2> QED BY <1>0, <2>1 DEF S!Reject, S!StartIrqs, S!EndPass, S!Respond, PassInv, EnsuredSoFar
<1>4. StillDumped'
  <2>1. /\ DumpedIrqs' = DumpedIrqs /\ TemplateOf(scan)' = TemplateOf(scan)
        /\ TemplateOf(threads)' = TemplateOf(threads)
        /\ \A t : Ambiguous(t)' <=> Ambiguous(t)
    BY <1>0 DEF DumpedIrqs, S!DeviceBacked, TemplateOf, Ambiguous
  <2>2. CASE S!Respond
    <3>1. SUFFICES ASSUME asDumped'
                   PROVE  systemFile = [threads |-> TemplateOf(threads), irqs |-> DumpedIrqs]
      BY <1>0, <2>1, <2>2 DEF S!Respond, StillDumped, Passing
    <3>2. CASE systemPc = "rejected"
      BY <2>2, <3>1, <3>2 DEF S!Respond, PassInv, StillDumped
    <3>3. CASE systemPc = "done"
      <4>1. asDumped' = (asDumped /\ (systemPc = "rejected" \/ touched = [threads |-> {}, irqs |-> {}]))
        BY <2>2 DEF S!Respond
      <4>2. asDumped /\ touched = [threads |-> {}, irqs |-> {}]
        BY <3>1, <3>3, <4>1, Zenon
      <4> QED BY <3>3, <4>2 DEF PassInv, StillDumped, Passing
    <3> QED BY <2>2, <3>2, <3>3 DEF S!Respond
  <2>3. CASE ~S!Respond
    BY <1>0, <2>1, <2>3 DEF S!Reject, S!StartIrqs, S!EndPass, PassInv, StillDumped, Passing, S!Parsed
  <2> QED BY <2>2, <2>3
<1> QED BY <1>1, <1>2, <1>3, <1>4 DEF PassInv

\* Policy and tunable are set together, and leave the rest alone.
LEMMA PolicyGiven ==
  ASSUME NEW a, NEW i \in ThreadRecords, Feasible(a)
  PROVE  LET k == S!WithPolicy(a, i)
         IN  /\ k \in ThreadRecords /\ k.comm = i.comm /\ k.affinity = i.affinity /\ k.fixed = i.fixed
             /\ a.policy # S!Unset => k.policy = a.policy /\ k.tunable = a.tunable
<1>1. CASE a.policy = S!Unset
  BY <1>1 DEF S!WithPolicy
<1>2. CASE a.policy # S!Unset
  <2> DEFINE Shape == [comm : Words, policy : Words, tunable : Int, affinity : SUBSET Int, fixed : BOOLEAN]
             k == [i EXCEPT !.policy = a.policy, !.tunable = a.tunable]
  <2>1. a.policy \in Words /\ a.tunable \in Int
        /\ (a.policy \in {"OTHER", "FIFO"} => a.tunable \in S!Tunables(a.policy))
    <3>1. a.policy \in {"OTHER", "FIFO", "DEADLINE"}
      BY <1>2 DEF Feasible, S!Policies
    <3>2. a.policy \in Words
      BY <3>1 DEF Words
    <3>3. a.tunable \in Int /\ (a.policy \in {"OTHER", "FIFO"} => a.tunable \in S!Tunables(a.policy))
      BY <1>2 DEF Feasible
    <3> QED BY <3>2, <3>3
  <2>2. i \in Shape
    BY DEF ThreadRecords
  <2>3. /\ k \in Shape /\ k.comm = i.comm /\ k.affinity = i.affinity /\ k.fixed = i.fixed
        /\ k.policy = a.policy /\ k.tunable = a.tunable
    BY <2>1, <2>2
  <2>4. S!WithPolicy(a, i) = k
    BY <1>2 DEF S!WithPolicy
  <2> HIDE DEF k
  <2>5. k.policy \in {"OTHER", "FIFO"} => k.tunable \in S!Tunables(k.policy)
    BY <2>1, <2>3
  <2>6. k \in ThreadRecords
    BY <2>3, <2>5 DEF ThreadRecords
  <2> QED BY <2>3, <2>4, <2>6
<1> QED BY <1>1, <1>2

\* A thread that is given its attributes has them.
LEMMA GivenHas ==
  ASSUME NEW a, NEW i \in ThreadRecords, Feasible(a), ~S!Impossible(a, i)
  PROVE  LET j == S!WithAll(a, i)
         IN  /\ j \in ThreadRecords /\ j.comm = i.comm
             /\ a.policy # S!Unset => j.policy = a.policy /\ j.tunable = a.tunable
             /\ a.affinity # {} => S!Manageable(j.affinity) = a.affinity
<1> DEFINE k == S!WithPolicy(a, i)
           j == S!WithAll(a, i)
<1>1. /\ k \in ThreadRecords /\ k.comm = i.comm /\ k.affinity = i.affinity /\ k.fixed = i.fixed
      /\ a.policy # S!Unset => k.policy = a.policy /\ k.tunable = a.tunable
  BY PolicyGiven
<1>2. CASE a.affinity = {} \/ S!OnFixed(a, i)
  <2>1. j = k
    BY <1>2 DEF S!WithAll
  <2>2. a.affinity # {} => S!Manageable(i.affinity) = a.affinity
    BY <1>2 DEF S!Impossible
  <2> QED BY <1>1, <2>1, <2>2
<1>3. CASE ~(a.affinity = {} \/ S!OnFixed(a, i))
  <2>1. j = [k EXCEPT !.affinity = a.affinity]
    BY <1>3 DEF S!WithAll
  <2>2. a.affinity \subseteq Int /\ S!Manageable(a.affinity) = a.affinity
    BY SystemAssumption DEF Feasible, S!Manageable
  <2> QED BY <1>1, <2>1, <2>2 DEF ThreadRecords
<1> QED BY <1>2, <1>3

\* A thread that is reported has what its entry asks for.
LEMMA ApplyThreadKeeps ==
  ASSUME PassInv, S!ApplyThread
  PROVE  PassInv'
<1> DEFINE t == S!Min(systemTodo)
           i == scan[t]
           a == entries.threads[i.comm]
<1>0. /\ systemPc = "threads" /\ systemTodo # {} /\ systemTodo' = systemTodo \ {t}
      /\ UNCHANGED <<irqs, balance, systemFile, entries, systemPc, scan, balanceSeen, asDumped>>
  BY DEF S!ApplyThread
<1>1. /\ t \in systemTodo /\ t \in DOMAIN scan /\ i \in ThreadRecords /\ t \in Nat
      /\ Feasible(a) /\ (t \in DOMAIN threads => threads[t] = i)
  <2>1. t \in systemTodo
    BY <1>0, LeastIs, SystemAssumption DEF PassInv, InHand, SystemTypes
  <2> QED BY <1>0, <2>1, SystemAssumption DEF PassInv, InHand, SystemTypes
\* What the step does to the thread and to the report.
<1>2. \/ threads' = threads
      \/ t \in DOMAIN threads /\ \E j \in ThreadRecords :
           j.comm = i.comm /\ threads' = [threads EXCEPT ![t] = j]
  <2>1. CASE t \in DOMAIN threads /\ ~S!Impossible(a, i) /\ threads' = [threads EXCEPT ![t] = S!WithAll(a, i)]
    BY <1>1, <2>1, GivenHas
  <2>2. CASE t \in DOMAIN threads /\ threads' = [threads EXCEPT ![t] = S!WithPolicy(a, i)]
    BY <1>1, <2>2, PolicyGiven
  <2> QED BY <2>1, <2>2 DEF S!ApplyThread, S!Running
<1>3. /\ DOMAIN threads' = DOMAIN threads
      /\ threads' \in [DOMAIN threads -> ThreadRecords]
      /\ \A u \in DOMAIN threads : threads'[u].comm = threads[u].comm
      /\ \A u \in DOMAIN threads \ {t} : threads'[u] = threads[u]
  BY <1>1, <1>2 DEF PassInv, SystemTypes
<1>4. /\ outcome' \in [threads : SUBSET Nat, irqs : SUBSET Nat,
                       badThreads : SUBSET Nat, badIrqs : SUBSET Nat]
      /\ outcome'.threads \subseteq outcome.threads \cup {t}
      /\ outcome'.irqs = outcome.irqs
      /\ touched' \in [threads : SUBSET Nat, irqs : SUBSET Nat]
      /\ touched'.irqs = touched.irqs
  BY <1>1 DEF S!ApplyThread, PassInv, SystemTypes
<1>5. SystemTypes'
  BY <1>0, <1>3, <1>4 DEF PassInv, SystemTypes
<1>6. InHand'
  BY <1>0, <1>3 DEF PassInv, InHand
<1>7. t \in outcome'.threads /\ t \in DOMAIN threads =>
         /\ a.policy # S!Unset => threads'[t].policy = a.policy /\ threads'[t].tunable = a.tunable
         /\ a.affinity # {} => S!Manageable(threads'[t].affinity) = a.affinity
  <2> SUFFICES ASSUME t \in outcome'.threads, t \in DOMAIN threads
               PROVE  /\ a.policy # S!Unset => threads'[t].policy = a.policy /\ threads'[t].tunable = a.tunable
                      /\ a.affinity # {} => S!Manageable(threads'[t].affinity) = a.affinity
    OBVIOUS
  <2>1. CASE S!InSync(a, i) /\ UNCHANGED threads
    BY <1>1, <2>1 DEF S!InSync
  <2>2. CASE ~S!Impossible(a, i) /\ threads' = [threads EXCEPT ![t] = S!WithAll(a, i)]
    <3>1. threads'[t] = S!WithAll(a, i)
      BY <2>2
    <3> QED BY <1>1, <2>2, <3>1, GivenHas
  <2>3. CASE t \in outcome.threads
    BY <1>0, <1>1, <2>3 DEF PassInv, EnsuredSoFar
  <2>4. outcome'.threads = outcome.threads \/ (S!InSync(a, i) /\ UNCHANGED threads)
        \/ (~S!Impossible(a, i) /\ threads' = [threads EXCEPT ![t] = S!WithAll(a, i)])
    BY DEF S!ApplyThread, PassInv, SystemTypes
  <2> QED BY <2>1, <2>2, <2>3, <2>4
<1>8. EnsuredSoFar'
  <2>1. ASSUME NEW u \in outcome'.threads \cap DOMAIN threads' PROVE EnsuredThread(u)'
    <3>1. CASE u = t
      BY <1>0, <1>1, <1>3, <1>7, <2>1, <3>1 DEF EnsuredThread
    <3>2. CASE u # t
      <4>1. EnsuredThread(u) /\ threads'[u] = threads[u]
        BY <1>3, <1>4, <2>1, <3>2 DEF PassInv, EnsuredSoFar
      <4> QED BY <1>0, <4>1 DEF EnsuredThread
    <3> QED BY <3>1, <3>2
  <2> QED BY <1>0, <1>4, <2>1 DEF PassInv, EnsuredSoFar
<1>9. StillDumped'
  <2> SUFFICES ASSUME asDumped PROVE StillDumped'
    BY <1>0 DEF StillDumped
  <2>0. /\ systemFile = [threads |-> TemplateOf(scan), irqs |-> DumpedIrqs]
        /\ entries = S!Parsed(systemFile) /\ touched.irqs = {}
        /\ touched.threads = {} => threads = scan
        /\ \A u \in touched.threads : Ambiguous(u)
    BY <1>0 DEF PassInv, StillDumped, Passing
  <2>1. touched'.threads = {} => threads' = scan
    BY <2>0 DEF S!ApplyThread, PassInv, SystemTypes
  <2>2. touched'.threads \subseteq touched.threads \cup {t} /\ (S!InSync(a, i) => touched' = touched)
    BY DEF S!ApplyThread, PassInv, SystemTypes
  <2>3. S!InSync(a, i) \/ Ambiguous(t)
    <3> DEFINE same == {u \in DOMAIN scan : scan[u].comm = i.comm}
               m == S!Min(same)
    <3>1. t \in same /\ same \subseteq Nat
      BY <1>1, SystemAssumption DEF PassInv, SystemTypes
    <3>2. m \in same
      BY <3>1, LeastIs
    <3>3. a = S!Attrs(S!EmitThread(scan[m]))
      <4>1. i.comm \in {scan[u].comm : u \in DOMAIN scan}
        BY <1>1
      <4>2. systemFile.threads = TemplateOf(scan) /\ i.comm \in DOMAIN TemplateOf(scan)
            /\ TemplateOf(scan)[i.comm] = S!EmitThread(scan[m])
        BY <2>0, <4>1 DEF TemplateOf
      <4>3. entries.threads = [c \in DOMAIN systemFile.threads |-> S!Attrs(systemFile.threads[c])]
        BY <2>0 DEF S!Parsed
      <4> QED BY <4>2, <4>3
    <3>4. S!EmitThread(scan[m]) = S!EmitThread(i) => S!InSync(a, i)
      BY <1>1, <3>3, OwnLine
    <3> HIDE DEF a, i, m
    <3> QED BY <1>1, <3>2, <3>4 DEF Ambiguous, i
  <2>4. /\ DumpedIrqs' = DumpedIrqs /\ TemplateOf(scan)' = TemplateOf(scan)
        /\ S!Parsed(systemFile)' = S!Parsed(systemFile)
        /\ \A u : Ambiguous(u)' <=> Ambiguous(u)
    BY <1>0 DEF DumpedIrqs, S!DeviceBacked, TemplateOf, Ambiguous, S!Parsed
  <2> QED BY <1>0, <1>4, <2>0, <2>1, <2>2, <2>3, <2>4 DEF StillDumped, Passing
<1> QED BY <1>5, <1>6, <1>8, <1>9 DEF PassInv

\* An IRQ is reported when its CPUs are the ones asked for, and written only when they
\* are not.
LEMMA ApplyIrqKeeps ==
  ASSUME PassInv, S!ApplyIrq
  PROVE  PassInv'
<1> DEFINE n == S!Min(systemTodo)
           wanted == entries.irqs[n].affinity
<1>0. /\ systemPc = "irqs" /\ systemTodo # {} /\ systemTodo' = systemTodo \ {n}
      /\ UNCHANGED <<threads, balance, systemFile, entries, systemPc, scan, asDumped>>
  BY DEF S!ApplyIrq
<1>1. n \in systemTodo /\ n \in DOMAIN entries.irqs /\ n \in Irqs /\ n \in Nat /\ wanted \subseteq Cpus
  <2>1. n \in systemTodo
    BY <1>0, LeastIs, SystemAssumption DEF PassInv, InHand
  <2> QED BY <1>0, <2>1, SystemAssumption DEF PassInv, InHand
<1>2. \/ irqs' = irqs
      \/ /\ S!SameDevice(n) /\ irqs' = [irqs EXCEPT ![n].affinity = wanted]
         /\ touched' = [touched EXCEPT !.irqs = @ \cup {n}]
  BY DEF S!ApplyIrq
<1>3. /\ irqs' \in [Irqs -> IrqRecords]
      /\ \A m \in Irqs : irqs'[m].actions = irqs[m].actions
      /\ \A m \in Irqs \ {n} : irqs'[m] = irqs[m]
  <2>1. wanted \subseteq Int
    BY <1>1, SystemAssumption
  <2> QED BY <1>1, <1>2, <2>1 DEF PassInv, SystemTypes, IrqRecords
<1>4. /\ outcome' \in [threads : SUBSET Nat, irqs : SUBSET Nat,
                       badThreads : SUBSET Nat, badIrqs : SUBSET Nat]
      /\ outcome'.irqs \subseteq outcome.irqs \cup {n}
      /\ outcome'.threads = outcome.threads
      /\ touched' \in [threads : SUBSET Nat, irqs : SUBSET Nat]
      /\ touched'.threads = touched.threads
  BY <1>1 DEF S!ApplyIrq, PassInv, SystemTypes
<1>5. SystemTypes'
  BY <1>0, <1>3, <1>4 DEF PassInv, SystemTypes
<1>6. InHand'
  BY <1>0 DEF PassInv, InHand, Passing
<1>7. n \in outcome'.irqs => S!SameDevice(n) /\ (balance \/ S!Manageable(irqs'[n].affinity) = wanted)
  <2>1. S!Manageable(wanted) = wanted
    BY <1>1 DEF S!Manageable
  <2>2. CASE outcome'.irqs = outcome.irqs
    <3>1. CASE irqs' = irqs
      BY <1>0, <2>2, <3>1 DEF PassInv, EnsuredSoFar, EnsuredIrq
    <3>2. CASE irqs' = [irqs EXCEPT ![n].affinity = wanted] /\ S!SameDevice(n)
      BY <1>1, <2>1, <3>2 DEF PassInv, SystemTypes, IrqRecords
    <3> QED BY <1>2, <3>1, <3>2
  <2>3. CASE S!SameDevice(n) /\ S!Manageable(irqs[n].affinity) = wanted /\ irqs' = irqs
    BY <2>3
  <2>4. CASE S!SameDevice(n) /\ irqs' = [irqs EXCEPT ![n].affinity = wanted]
    BY <1>1, <2>1, <2>4 DEF PassInv, SystemTypes, IrqRecords
  <2> QED BY <2>2, <2>3, <2>4 DEF S!ApplyIrq, PassInv, SystemTypes
<1>8. EnsuredSoFar'
  <2>1. ASSUME NEW m \in outcome'.irqs PROVE m \in Irqs /\ EnsuredIrq(m)'
    <3>1. CASE m = n
      BY <1>0, <1>1, <1>3, <1>7, <3>1 DEF EnsuredIrq, S!SameDevice
    <3>2. CASE m # n
      <4>1. m \in Irqs /\ EnsuredIrq(m)
        BY <1>0, <1>4, <3>2 DEF PassInv, EnsuredSoFar
      <4>2. irqs'[m] = irqs[m]
        BY <1>3, <3>2, <4>1
      <4> QED BY <1>0, <4>1, <4>2 DEF EnsuredIrq, S!SameDevice
    <3> QED BY <3>1, <3>2
  <2>2. \A t \in outcome'.threads \cap DOMAIN threads' : EnsuredThread(t)'
    BY <1>0, <1>4 DEF PassInv, EnsuredSoFar, EnsuredThread
  <2> QED BY <1>0, <2>1, <2>2 DEF EnsuredSoFar
<1>9. StillDumped'
  <2> SUFFICES ASSUME asDumped PROVE StillDumped'
    BY <1>0 DEF StillDumped
  <2>0. /\ systemFile = [threads |-> TemplateOf(scan), irqs |-> DumpedIrqs]
        /\ entries = S!Parsed(systemFile) /\ touched.irqs = {}
        /\ touched.threads = {} => threads = scan
        /\ \A u \in touched.threads : Ambiguous(u)
    BY <1>0 DEF PassInv, StillDumped, Passing
  <2>1. S!Manageable(irqs[n].affinity) = wanted
    <3>1. entries.irqs = DumpedIrqs
      BY <2>0 DEF S!Parsed
    <3> QED BY <1>1, <3>1 DEF DumpedIrqs, S!EmitIrq
  <2>2. irqs' = irqs /\ touched' = touched
    BY <2>1 DEF S!ApplyIrq
  <2>3. /\ DumpedIrqs' = DumpedIrqs /\ TemplateOf(scan)' = TemplateOf(scan)
        /\ S!Parsed(systemFile)' = S!Parsed(systemFile)
        /\ \A u : Ambiguous(u)' <=> Ambiguous(u)
    BY <1>0, <2>2 DEF DumpedIrqs, S!DeviceBacked, TemplateOf, Ambiguous, S!Parsed
  <2> QED BY <1>0, <2>0, <2>2, <2>3 DEF StillDumped, Passing
<1> QED BY <1>5, <1>6, <1>8, <1>9 DEF PassInv

\* A new template says what is running.
LEMMA DumpKeeps ==
  ASSUME PassInv, S!Dump
  PROVE  PassInv'
<1>0. /\ systemPc = "idle" /\ asDumped'
      /\ UNCHANGED <<threads, irqs, balance, entries, systemPc, scan, systemTodo, outcome, touched>>
  BY DEF S!Dump
<1>1. systemFile' = [threads |-> TemplateOf(threads), irqs |-> DumpedIrqs]
  BY DEF S!Dump, S!Template, TemplateOf, DumpedIrqs, S!CommsRunning, S!Running
<1>2. /\ \A c \in DOMAIN systemFile'.threads : Numbered(systemFile'.threads[c])
      /\ DOMAIN systemFile'.irqs \subseteq Irqs
  BY <1>1, TemplateValid DEF PassInv, SystemTypes
<1>3. SystemTypes'
  <2>1. asDumped' \in BOOLEAN
    BY DEF S!Dump
  <2>2. DOMAIN systemFile' = {"threads", "irqs"}
    BY <1>1
  <2> QED BY <1>0, <1>2, <2>1, <2>2 DEF PassInv, SystemTypes
<1>4. InHand'
  BY <1>0 DEF PassInv, InHand, Passing
<1>5. EnsuredSoFar'
  BY <1>0 DEF PassInv, EnsuredSoFar, EnsuredThread
<1>6. StillDumped'
  <2>1. DumpedIrqs' = DumpedIrqs /\ TemplateOf(threads)' = TemplateOf(threads)
    BY <1>0 DEF DumpedIrqs, S!DeviceBacked, TemplateOf
  <2> QED BY <1>0, <1>1, <2>1 DEF StillDumped, Passing
<1> QED BY <1>3, <1>4, <1>5, <1>6 DEF PassInv

\* The user edits between passes.
LEMMA EditKeeps ==
  ASSUME PassInv, NEW c \in DOMAIN systemFile.threads, NEW y \in Edits, S!EditEntry(c, y)
  PROVE  PassInv'
<1>0. /\ systemPc = "idle" /\ asDumped' = FALSE
      /\ systemFile' = [systemFile EXCEPT !.threads[c] = y]
      /\ UNCHANGED <<threads, irqs, balance, entries, systemPc, scan, systemTodo, outcome, touched>>
  BY DEF S!EditEntry
<1>1. Numbered(y)
  BY SystemAssumption DEF Numbered
<1>2. SystemTypes'
  <2>1. /\ DOMAIN systemFile' = {"threads", "irqs"} /\ DOMAIN systemFile'.irqs \subseteq Irqs
        /\ \A d \in DOMAIN systemFile'.threads : Numbered(systemFile'.threads[d])
    BY <1>0, <1>1 DEF PassInv, SystemTypes
  <2> QED BY <1>0, <2>1 DEF PassInv, SystemTypes
<1>3. InHand'
  BY <1>0 DEF PassInv, InHand, Passing
<1>4. EnsuredSoFar'
  BY <1>0 DEF PassInv, EnsuredSoFar, EnsuredThread
<1>5. StillDumped'
  BY <1>0 DEF StillDumped
<1> QED BY <1>2, <1>3, <1>4, <1>5 DEF PassInv

\* A thread that is gone has nothing more to hold.
LEMMA ExitThreadKeeps ==
  ASSUME PassInv, NEW t \in Tids, S!Exit(t)
  PROVE  PassInv'
<1>0. /\ threads' = [u \in DOMAIN threads \ {t} |-> threads[u]] /\ asDumped' = FALSE
      /\ UNCHANGED <<irqs, balance, systemFile, entries, systemPc, scan, systemTodo, outcome, touched>>
  BY DEF S!Exit, S!Running
<1>1. SystemTypes'
  BY <1>0 DEF PassInv, SystemTypes
<1>2. InHand'
  BY <1>0 DEF PassInv, InHand, Passing
<1>3. EnsuredSoFar'
  <2>1. \A m : EnsuredIrq(m)' <=> EnsuredIrq(m)
    BY <1>0 DEF EnsuredIrq, S!SameDevice
  <2>2. \A u \in DOMAIN threads' : EnsuredThread(u)' <=> EnsuredThread(u)
    BY <1>0 DEF EnsuredThread
  <2> QED BY <1>0, <2>1, <2>2 DEF PassInv, EnsuredSoFar
<1>4. StillDumped'
  BY <1>0 DEF StillDumped
<1> QED BY <1>1, <1>2, <1>3, <1>4 DEF PassInv

\* irqbalance does not stop in the middle of a pass.
LEMMA ToggleKeeps ==
  ASSUME PassInv, S!Toggle
  PROVE  PassInv'
<1>0. /\ balance' = ~balance /\ (~balance \/ systemPc = "idle")
      /\ UNCHANGED <<threads, irqs, systemFile, entries, systemPc, scan, systemTodo, outcome,
                     touched, asDumped>>
  BY DEF S!Toggle
<1>1. SystemTypes'
  BY <1>0 DEF PassInv, SystemTypes
<1>2. InHand'
  BY <1>0 DEF PassInv, InHand, Passing
<1>3. EnsuredSoFar'
  <2>1. systemPc \in {"irqs", "done"} => \A m : EnsuredIrq(m) => EnsuredIrq(m)'
    BY <1>0 DEF EnsuredIrq, S!SameDevice
  <2>2. \A u : EnsuredThread(u)' <=> EnsuredThread(u)
    BY <1>0 DEF EnsuredThread
  <2> QED BY <1>0, <2>1, <2>2 DEF PassInv, EnsuredSoFar
<1>4. StillDumped'
  <2>1. /\ DumpedIrqs' = DumpedIrqs /\ TemplateOf(scan)' = TemplateOf(scan)
        /\ TemplateOf(threads)' = TemplateOf(threads)
        /\ S!Parsed(systemFile)' = S!Parsed(systemFile)
        /\ \A u : Ambiguous(u)' <=> Ambiguous(u)
    BY <1>0 DEF DumpedIrqs, S!DeviceBacked, TemplateOf, Ambiguous, S!Parsed
  <2> QED BY <1>0, <2>1 DEF PassInv, StillDumped
<1> QED BY <1>1, <1>2, <1>3, <1>4 DEF PassInv

\* While it runs, irqbalance may move what was ensured; a number changes hands only
\* between passes.
LEMMA ChangeIrqKeeps ==
  ASSUME PassInv, NEW n \in Irqs, S!ChangeIrq(n)
  PROVE  PassInv'
<1>0. /\ asDumped' = FALSE
      /\ UNCHANGED <<threads, balance, systemFile, entries, systemPc, scan, systemTodo, outcome,
                     touched>>
  BY DEF S!ChangeIrq
<1>1. /\ irqs' \in [Irqs -> IrqRecords]
      /\ systemPc = "idle" \/ (balance /\ \A m \in Irqs : irqs'[m].actions = irqs[m].actions)
  <2>0. irqs \in [Irqs -> IrqRecords]
    BY DEF PassInv, SystemTypes
  <2>1. ASSUME NEW c \in Cpus, irqs' = [irqs EXCEPT ![n].affinity = {c}], balance PROVE <1>1!:
    <3>1. {c} \subseteq Int
      BY SystemAssumption
    <3> QED BY <2>0, <2>1, <3>1 DEF IrqRecords
  <2>2. CASE systemPc = "idle" /\ irqs' = [irqs EXCEPT ![n].actions = IF @ = "" THEN "eth" ELSE ""]
    <3> DEFINE w == IF irqs[n].actions = "" THEN "eth" ELSE ""
    <3>1. w \in Words
      BY DEF Words
    <3>2. irqs' = [irqs EXCEPT ![n].actions = w]
      BY <2>2
    <3> HIDE DEF w
    <3> QED BY <2>0, <2>2, <3>1, <3>2 DEF IrqRecords
  <2> QED BY <2>1, <2>2 DEF S!ChangeIrq
<1>2. SystemTypes'
  BY <1>0, <1>1 DEF PassInv, SystemTypes
<1>3. InHand'
  BY <1>0 DEF PassInv, InHand
<1>4. EnsuredSoFar'
  <2>1. systemPc # "idle" => \A m \in Irqs : EnsuredIrq(m) => EnsuredIrq(m)'
    BY <1>0, <1>1 DEF EnsuredIrq, S!SameDevice
  <2>2. \A u : EnsuredThread(u)' <=> EnsuredThread(u)
    BY <1>0 DEF EnsuredThread
  <2> QED BY <1>0, <2>1, <2>2 DEF PassInv, EnsuredSoFar
<1>5. StillDumped'
  BY <1>0 DEF StillDumped
<1> QED BY <1>2, <1>3, <1>4, <1>5 DEF PassInv

\* Every step keeps the invariant.
LEMMA PassSteps == PassInv /\ S!Next => PassInv'
BY StartPassKeeps, QuietKeeps, ApplyThreadKeeps, ApplyIrqKeeps, DumpKeeps, EditKeeps,
   ExitThreadKeeps, ToggleKeeps, ChangeIrqKeeps DEF S!Next

\* The invariant says what a pass reports, and what a pass over the template changes.
LEMMA PassSays == PassInv => PassHonest
<1> SUFFICES ASSUME PassInv PROVE PassHonest
  OBVIOUS
<1>1. S!AppliedIsEnsured
  BY DEF PassInv, EnsuredSoFar, EnsuredThread, EnsuredIrq, S!AppliedIsEnsured, S!Running
<1>2. asDumped => S!ValidFile(systemFile)
  BY TemplateValid DEF PassInv, SystemTypes, StillDumped, Passing
<1>3. S!TemplateIsNoOp
  BY <1>2 DEF PassInv, StillDumped, Passing, Ambiguous, S!TemplateIsNoOp
<1> QED BY <1>1, <1>3 DEF PassHonest

\* Whatever the user edits and whatever exits, starts or fails during a pass: what it
\* reports as applied holds when it ends, the template of the prerun node is a valid file,
\* and a pass over the unedited template changes no IRQ and no thread but one whose name
\* another thread with other attributes shares (apply_kernel_thread_configs,
\* apply_irq_configs, dump_yaml_config).
THEOREM PassesHonest == ToolsSpec => []PassHonest
<1>1. ToolsInit => PassInv
  BY PassStarts DEF ToolsInit
<1>2. PassInv /\ [ToolsNext]_toolsVars => PassInv'
  BY PassSteps, PassStutters DEF ToolsNext, toolsVars
<1> QED BY <1>1, <1>2, PassSays, PTL DEF ToolsSpec, toolsVars

-----------------------------------------------------------------------------
\* Announced threads

\* The threads an entry knows of.
On(e) == ({e.tid} \ {C!None}) \cup {e.matched[g] : g \in DOMAIN e.matched}

\* An entry of a configuration.
IsEntry(e) ==
  /\ DOMAIN e = {"attrs", "tid", "matched", "applied"}
  /\ e.tid \in {C!None} \cup 1 .. lastTid /\ e.applied \in BOOLEAN
  /\ DOMAIN e.matched \subseteq Groups
  /\ \A g \in DOMAIN e.matched : e.matched[g] \in 1 .. lastTid
IsConfig(f) == IsFiniteSet(DOMAIN f) /\ \A k \in DOMAIN f : IsEntry(f[k])
IsFresh(e) == e.tid = C!None /\ DOMAIN e.matched = {} /\ ~e.applied

\* The types the argument needs.
ConfigTypes ==
  /\ lastTid \in Nat /\ unapplied \in Int
  /\ file \in Files \cup {First}
  /\ configPc \in {"idle", "swap", "groups"}
  /\ thread \in [Groups \cup ThreadNames -> {C!None} \cup 1 .. lastTid]
  /\ known \in [Groups \cup ThreadNames -> {C!None} \cup 1 .. lastTid]
  /\ DOMAIN sched = 1 .. lastTid
  /\ topic \in Seq([who : Groups, tid : Int]) /\ \A i \in DOMAIN topic : topic[i].tid \in 1 .. lastTid
  /\ socket \in Seq([who : ThreadNames, tid : Int]) /\ \A i \in DOMAIN socket : socket[i].tid \in 1 .. lastTid
  /\ IsConfig(cb) /\ IsConfig(nrt)
  /\ configPc = "swap" => IsConfig(parsed) /\ \A n \in DOMAIN parsed : IsFresh(parsed[n])
  /\ configPc = "groups" => configTodo \subseteq DOMAIN cb

\* A thread id has one owner, and is on record where its owner's belong.
Owned(owner) ==
  /\ \A x \in Groups \cup ThreadNames :
       /\ thread[x] # C!None => owner[thread[x]] = x
       /\ known[x] # C!None => owner[known[x]] = x
  /\ \A i \in DOMAIN topic : owner[topic[i].tid] = topic[i].who
  /\ \A i \in DOMAIN socket : owner[socket[i].tid] = socket[i].who
  /\ \A k \in DOMAIN cb :
       /\ cb[k].tid # C!None => owner[cb[k].tid] \in Groups /\ k = <<"id", owner[cb[k].tid]>>
       /\ \A g \in DOMAIN cb[k].matched : owner[cb[k].matched[g]] = g /\ k = <<"node", NodeOf[g]>>
  /\ \A n \in DOMAIN nrt :
       /\ nrt[n].tid # C!None => owner[nrt[n].tid] = n /\ n \in ThreadNames
       /\ DOMAIN nrt[n].matched = {}

\* A group is on record in one place, and the last announcement is on record.
Recorded ==
  /\ \A g \in Groups : <<"id", g>> \in DOMAIN cb /\ cb[<<"id", g>>].tid # C!None =>
       \A k \in DOMAIN cb : g \notin DOMAIN cb[k].matched
  /\ \A n \in ThreadNames : known[n] # C!None => n \in DOMAIN nrt /\ nrt[n].tid = known[n]
  /\ \A g \in Groups : known[g] # C!None => \E k \in DOMAIN cb : known[g] \in On(cb[k])

\* The count, and what a reapply has yet to count.
Counted ==
  /\ configPc # "swap" => unapplied = C!Unapplied(cb) + C!Unapplied(nrt)
  /\ configPc = "swap" => \A k \in DOMAIN cb : ~cb[k].applied
  /\ configPc = "groups" => \A k \in configTodo : ~cb[k].applied

\* The live threads of an entry run with its attributes, once a reapply has been there.
Obeys(e) == \A t \in On(e) \ refused : C!Alive(t) => sched[t] = e.attrs
Obeyed ==
  /\ configPc = "idle" => (\A k \in DOMAIN cb : Obeys(cb[k])) /\ \A n \in DOMAIN nrt : Obeys(nrt[n])
  /\ configPc = "groups" => \A k \in DOMAIN cb \ configTodo : Obeys(cb[k])

\* The invariant of the announcements.
ConfigInv(owner) == ConfigTypes /\ Owned(owner) /\ Recorded /\ Counted /\ Obeyed

\* What jobs are.
LEMMA JobsAre ==
  ASSUME NEW e
  PROVE  /\ DOMAIN C!Jobs(e) = On(e)
         /\ \A t \in On(e) : C!Jobs(e)[t] = e.attrs
BY DEF C!Jobs, C!Range, On

\* The configurator counts as sets are counted.
LEMMA CardinalityIs == \A N : C!Cardinality(N) = Cardinality(N)
BY DEF C!Cardinality, Cardinality

\* An entry of a file that was just read.
LEMMA FreshIs ==
  ASSUME NEW f, lastTid \in Nat
  PROVE  /\ DOMAIN C!Fresh(f) = DOMAIN f
         /\ \A k \in DOMAIN f : IsEntry(C!Fresh(f)[k]) /\ IsFresh(C!Fresh(f)[k])
<1>1. DOMAIN C!Fresh(f) = DOMAIN f
  BY DEF C!Fresh
<1>2. ASSUME NEW k \in DOMAIN f
      PROVE  IsEntry(C!Fresh(f)[k]) /\ IsFresh(C!Fresh(f)[k])
  <2> DEFINE e == [attrs |-> f[k], tid |-> C!None, matched |-> <<>>, applied |-> FALSE]
  <2>1. C!Fresh(f)[k] = e
    BY DEF C!Fresh
  <2>2. DOMAIN e = {"attrs", "tid", "matched", "applied"} /\ e.tid = C!None /\ e.applied = FALSE /\ e.matched = <<>>
    OBVIOUS
  <2>3. DOMAIN <<>> = {}
    OBVIOUS
  <2> HIDE DEF e
  <2>4. DOMAIN e.matched = {} /\ e.applied \in BOOLEAN
    BY <2>2, <2>3
  <2>5. IsFresh(e)
    BY <2>2, <2>4 DEF IsFresh
  <2>6. IsEntry(e)
    BY <2>2, <2>4 DEF IsEntry
  <2> QED BY <2>1, <2>5, <2>6
<1> QED BY <1>1, <1>2

\* A count is a number.
LEMMA CountType == ASSUME NEW f, IsFiniteSet(DOMAIN f) PROVE C!Unapplied(f) \in Nat
<1>1. IsFiniteSet({j \in DOMAIN f : ~f[j].applied})
  BY FS_Subset
<1> QED BY <1>1, CardinalityIs, FS_CardinalityType DEF C!Unapplied

\* An applied entry is counted off.
LEMMA CountOne ==
  ASSUME NEW f, NEW h, IsFiniteSet(DOMAIN f), DOMAIN h = DOMAIN f, NEW k \in DOMAIN f,
         \A j \in DOMAIN f \ {k} : h[j].applied = f[j].applied, ~f[k].applied, h[k].applied
  PROVE  C!Unapplied(h) = C!Unapplied(f) - 1 /\ C!Unapplied(f) \in Nat
<1> DEFINE A == {j \in DOMAIN f : ~f[j].applied}
           B == {j \in DOMAIN f : ~h[j].applied}
<1>1. IsFiniteSet(A)
  BY FS_Subset
<1>2. B = A \ {k} /\ k \in A
  OBVIOUS
<1>3. C!Unapplied(h) = Cardinality(B) /\ C!Unapplied(f) = Cardinality(A)
  BY CardinalityIs DEF C!Unapplied
<1> HIDE DEF A, B
<1>4. Cardinality(A \ {k}) = Cardinality(A) - 1
  BY <1>1, <1>2, FS_RemoveElement
<1> QED BY <1>1, <1>2, <1>3, <1>4, FS_CardinalityType

\* ... and otherwise the count stays.
LEMMA CountSame ==
  ASSUME NEW f, NEW h, DOMAIN h = DOMAIN f, \A j \in DOMAIN f : h[j].applied = f[j].applied
  PROVE  C!Unapplied(h) = C!Unapplied(f)
<1>1. {j \in DOMAIN h : ~h[j].applied} = {j \in DOMAIN f : ~f[j].applied}
  OBVIOUS
<1> QED BY <1>1 DEF C!Unapplied

\* The system calls set the threads they are for, unless they are refused.
LEMMA CallsSet ==
  ASSUME NEW jobs, NEW Failing, Failing \subseteq DOMAIN jobs, C!IssueSyscalls(jobs, Failing)
  PROVE  /\ DOMAIN sched' = DOMAIN sched
         /\ \A t \in DOMAIN sched \ DOMAIN jobs : sched'[t] = sched[t] /\ (t \in refused' <=> t \in refused)
         /\ \A t \in DOMAIN sched \cap DOMAIN jobs : t \in refused' \/ sched'[t] = jobs[t]
<1>1. PICK partly \in SUBSET {t \in Failing : C!Alive(t)} :
        sched' = [t \in DOMAIN sched |->
                    IF t \in DOMAIN jobs \ Failing THEN jobs[t]
                    ELSE IF t \in partly THEN "mixed" ELSE sched[t]]
  BY DEF C!IssueSyscalls
<1>2. refused' = (refused \ DOMAIN jobs) \cup Failing
  BY DEF C!IssueSyscalls
<1> QED BY <1>1, <1>2

\* Nothing has been announced at first.
LEMMA ConfigStarts == C!Init => \E owner : ConfigInv(owner)
<1> SUFFICES ASSUME C!Init, NEW owner PROVE ConfigInv(owner)
  OBVIOUS
<1>0. First \in (Files \cup {First}) \ {Invalid}
  BY ConfigAssumption
<1>1. /\ DOMAIN cb = DOMAIN First.cb /\ \A k \in DOMAIN cb : IsEntry(cb[k]) /\ IsFresh(cb[k])
      /\ DOMAIN nrt = DOMAIN First.nrt /\ \A k \in DOMAIN nrt : IsEntry(nrt[k]) /\ IsFresh(nrt[k])
  BY FreshIs DEF C!Init
<1>2. ConfigTypes
  <2>1. IsConfig(cb) /\ IsConfig(nrt)
    BY <1>0, <1>1, ConfigAssumption DEF IsConfig
  <2>2. unapplied \in Int
    BY <1>0, ConfigAssumption, FS_CardinalityType DEF C!Init
  <2>3. DOMAIN sched = 1 .. lastTid
    BY DEF C!Init
  <2>4. /\ topic \in Seq([who : Groups, tid : Int]) /\ socket \in Seq([who : ThreadNames, tid : Int])
        /\ DOMAIN topic = {} /\ DOMAIN socket = {}
    BY DEF C!Init
  <2> QED BY <2>1, <2>2, <2>3, <2>4 DEF C!Init, ConfigTypes
<1>3. Owned(owner)
  BY <1>1 DEF C!Init, Owned, IsFresh
<1>4. Recorded
  BY <1>1 DEF C!Init, Recorded, IsFresh
<1>5. Counted
  <2>1. {k \in DOMAIN cb : ~cb[k].applied} = DOMAIN First.cb /\ {k \in DOMAIN nrt : ~nrt[k].applied} = DOMAIN First.nrt
    BY <1>1 DEF IsFresh
  <2> QED BY <2>1 DEF C!Init, Counted, C!Unapplied
<1>6. Obeyed
  BY <1>1 DEF C!Init, Obeyed, Obeys, On, IsFresh
<1> QED BY <1>2, <1>3, <1>4, <1>5, <1>6 DEF ConfigInv

\* ... and as long as the configurator rests.
LEMMA ConfigStutters ==
  ASSUME NEW owner, ConfigInv(owner), UNCHANGED configVars
  PROVE  ConfigInv(owner)'
<1>0. UNCHANGED <<file, cb, nrt, unapplied, configPc, parsed, configTodo, thread, sched, topic,
                  socket, lastTid, known, refused>>
  BY DEF configVars
<1>1. ConfigTypes'
  BY <1>0 DEF ConfigInv, ConfigTypes, IsConfig, IsEntry, IsFresh
<1>2. Owned(owner)' /\ Recorded'
  BY <1>0 DEF ConfigInv, Owned, Recorded, On
<1>3. Counted' /\ Obeyed'
  BY <1>0 DEF ConfigInv, Counted, Obeyed, Obeys, On, C!Alive, C!Unapplied
<1> QED BY <1>1, <1>2, <1>3 DEF ConfigInv

\* An announcement joins the queue of those under way.
LEMMA QueueGrows ==
  ASSUME NEW W, NEW q \in Seq([who : W, tid : Int]), NEW w \in W, NEW t \in Int
  PROVE  LET r == Append(q, [who |-> w, tid |-> t]) IN
         /\ r \in Seq([who : W, tid : Int])
         /\ \A i \in DOMAIN r :
              (i \in DOMAIN q /\ r[i] = q[i]) \/ (r[i].who = w /\ r[i].tid = t)
<1> DEFINE a == [who |-> w, tid |-> t]
<1>1. a \in [who : W, tid : Int] /\ a.who = w /\ a.tid = t
  OBVIOUS
<1> HIDE DEF a
<1> QED BY <1>1

\* ... and leaves it.
LEMMA QueueShrinks ==
  ASSUME NEW W, NEW q \in Seq([who : W, tid : Int]), q # <<>>
  PROVE  /\ 1 \in DOMAIN q /\ Head(q) = q[1] /\ Head(q).who \in W
         /\ Tail(q) \in Seq([who : W, tid : Int])
         /\ \A i \in DOMAIN Tail(q) : i + 1 \in DOMAIN q /\ Tail(q)[i] = q[i + 1]
<1> DEFINE R == [who : W, tid : Int]
<1>1. \A r \in R : r.who \in W
  OBVIOUS
<1>0. q \in Seq(R)
  OBVIOUS
<1> HIDE DEF R
<1>2. Len(q) \in Nat /\ Len(q) # 0 /\ DOMAIN q = 1 .. Len(q) /\ Tail(q) \in Seq(R)
  BY <1>0
<1>3. 1 \in DOMAIN q /\ Head(q) = q[1] /\ q[1] \in R
  BY <1>0, <1>2
<1>4. \A i \in DOMAIN Tail(q) : i + 1 \in DOMAIN q /\ Tail(q)[i] = q[i + 1]
  BY <1>0, <1>2
<1> QED BY <1>1, <1>2, <1>3, <1>4 DEF R

\* A thread that starts is unheard of.
LEMMA ThreadStartKeeps ==
  ASSUME NEW owner, ConfigInv(owner), NEW x \in Groups \cup ThreadNames, C!Start(x),
         \/ UNCHANGED topic
         \/ x \in Groups /\ topic' = Append(topic, [who |-> x, tid |-> lastTid']),
         \/ UNCHANGED socket
         \/ x \in ThreadNames /\ socket' = Append(socket, [who |-> x, tid |-> lastTid'])
  PROVE  \E o : ConfigInv(o)'
<1>0. /\ lastTid' = lastTid + 1
      /\ thread' = [thread EXCEPT ![x] = lastTid + 1]
      /\ sched' = [t \in 1 .. lastTid + 1 |-> IF t = lastTid + 1 THEN "default" ELSE sched[t]]
      /\ UNCHANGED <<file, cb, nrt, unapplied, configPc, parsed, configTodo, known, refused>>
  BY DEF C!Start
<1>1. /\ lastTid \in Nat /\ thread \in [Groups \cup ThreadNames -> {C!None} \cup 1 .. lastTid]
      /\ known \in [Groups \cup ThreadNames -> {C!None} \cup 1 .. lastTid]
      /\ DOMAIN sched = 1 .. lastTid
      /\ topic \in Seq([who : Groups, tid : Int]) /\ \A i \in DOMAIN topic : topic[i].tid \in 1 .. lastTid
      /\ socket \in Seq([who : ThreadNames, tid : Int])
      /\ \A i \in DOMAIN socket : socket[i].tid \in 1 .. lastTid
  BY DEF ConfigInv, ConfigTypes
<1>2. /\ thread'[x] = lastTid + 1
      /\ \A y \in Groups \cup ThreadNames : y # x => thread'[y] = thread[y]
      /\ DOMAIN thread' = Groups \cup ThreadNames
  BY <1>0, <1>1
<1>3. \A e : IsEntry(e) => IsEntry(e)' /\ On(e) \subseteq 1 .. lastTid
  <2>1. 1 .. lastTid \subseteq 1 .. lastTid + 1
    BY <1>1
  <2> QED BY <1>0, <2>1 DEF IsEntry, On
<1>4. PICK o : o = [t \in Int |-> IF t = lastTid + 1 THEN x ELSE owner[t]]
  OBVIOUS
<1>5. o[lastTid + 1] = x /\ \A t \in 1 .. lastTid : o[t] = owner[t]
  BY <1>1, <1>4
<1>6. ConfigTypes'
  <2>1. \A f : IsConfig(f) => IsConfig(f)'
    BY <1>3 DEF IsConfig
  <2>2. /\ topic' \in Seq([who : Groups, tid : Int])
        /\ \A i \in DOMAIN topic' : topic'[i].tid \in 1 .. lastTid + 1
    <3>1. CASE UNCHANGED topic
      BY <1>1, <3>1
    <3>2. CASE x \in Groups /\ topic' = Append(topic, [who |-> x, tid |-> lastTid + 1])
      BY <1>1, <3>2, QueueGrows
    <3> QED BY <1>0, <3>1, <3>2
  <2>3. /\ socket' \in Seq([who : ThreadNames, tid : Int])
        /\ \A i \in DOMAIN socket' : socket'[i].tid \in 1 .. lastTid + 1
    <3>1. CASE UNCHANGED socket
      BY <1>1, <3>1
    <3>2. CASE x \in ThreadNames /\ socket' = Append(socket, [who |-> x, tid |-> lastTid + 1])
      BY <1>1, <3>2, QueueGrows
    <3> QED BY <1>0, <3>1, <3>2
  <2>4. /\ thread' \in [Groups \cup ThreadNames -> {C!None} \cup 1 .. lastTid + 1]
        /\ known' \in [Groups \cup ThreadNames -> {C!None} \cup 1 .. lastTid + 1]
    BY <1>0, <1>1
  <2>5. DOMAIN sched' = 1 .. lastTid + 1 /\ lastTid + 1 \in Nat
    BY <1>0, <1>1
  <2>6. /\ unapplied \in Int /\ file \in Files \cup {First}
        /\ configPc \in {"idle", "swap", "groups"} /\ IsConfig(cb) /\ IsConfig(nrt)
        /\ configPc = "swap" => IsConfig(parsed) /\ \A n \in DOMAIN parsed : IsFresh(parsed[n])
        /\ configPc = "groups" => configTodo \subseteq DOMAIN cb
    BY DEF ConfigInv, ConfigTypes
  <2>7. IsConfig(cb)' /\ IsConfig(nrt)'
    BY <1>0, <1>3, <2>6 DEF IsConfig
  <2>8. configPc = "swap" => IsConfig(parsed)' /\ \A n \in DOMAIN parsed : IsFresh(parsed[n])
    BY <1>0, <1>3, <2>6 DEF IsConfig
  <2> HIDE DEF C!None
  <2> QED BY <1>0, <2>2, <2>3, <2>4, <2>5, <2>6, <2>7, <2>8 DEF ConfigTypes, IsFresh
<1>7. Owned(o)'
  <2>1. Owned(owner) /\ IsConfig(cb) /\ IsConfig(nrt)
    BY DEF ConfigInv, ConfigTypes
  <2>2. \A y \in Groups \cup ThreadNames :
          /\ thread'[y] # C!None => o[thread'[y]] = y
          /\ known[y] # C!None => o[known[y]] = y
    BY <1>1, <1>2, <1>5, <2>1 DEF Owned
  <2>3. \A i \in DOMAIN topic' : o[topic'[i].tid] = topic'[i].who
    <3>1. \A i \in DOMAIN topic : o[topic[i].tid] = topic[i].who
      BY <1>1, <1>5, <2>1 DEF Owned
    <3>2. CASE x \in Groups /\ topic' = Append(topic, [who |-> x, tid |-> lastTid + 1])
      BY <1>1, <1>5, <3>1, <3>2, QueueGrows
    <3> QED BY <1>0, <3>1, <3>2
  <2>4. \A i \in DOMAIN socket' : o[socket'[i].tid] = socket'[i].who
    <3>1. \A i \in DOMAIN socket : o[socket[i].tid] = socket[i].who
      BY <1>1, <1>5, <2>1 DEF Owned
    <3>2. CASE x \in ThreadNames /\ socket' = Append(socket, [who |-> x, tid |-> lastTid + 1])
      BY <1>1, <1>5, <3>1, <3>2, QueueGrows
    <3> QED BY <1>0, <3>1, <3>2
  <2>5. \A k \in DOMAIN cb :
          /\ cb[k].tid # C!None => o[cb[k].tid] \in Groups /\ k = <<"id", o[cb[k].tid]>>
          /\ \A g \in DOMAIN cb[k].matched : o[cb[k].matched[g]] = g /\ k = <<"node", NodeOf[g]>>
    BY <1>5, <2>1 DEF Owned, IsConfig, IsEntry
  <2>6. \A n \in DOMAIN nrt :
          /\ nrt[n].tid # C!None => o[nrt[n].tid] = n /\ n \in ThreadNames
          /\ DOMAIN nrt[n].matched = {}
    BY <1>5, <2>1 DEF Owned, IsConfig, IsEntry
  <2> QED BY <1>0, <2>2, <2>3, <2>4, <2>5, <2>6 DEF Owned
<1>8. Recorded' /\ Counted'
  BY <1>0 DEF ConfigInv, Recorded, Counted, On, C!Unapplied
<1>9. Obeyed'
  <2>1. \A e : IsEntry(e) /\ Obeys(e) => Obeys(e)'
    <3> SUFFICES ASSUME NEW e, IsEntry(e), Obeys(e), NEW t \in On(e) \ refused, C!Alive(t)'
                 PROVE  sched'[t] = e.attrs
      BY <1>0 DEF Obeys, On
    <3>1. t \in 1 .. lastTid
      BY <1>3
    <3>2. C!Alive(t)
      BY <1>1, <1>2, <3>1 DEF C!Alive
    <3>3. sched[t] = e.attrs
      BY <3>2 DEF Obeys
    <3> QED BY <1>0, <1>1, <3>1, <3>3
  <2>2. IsConfig(cb) /\ IsConfig(nrt) /\ Obeyed
    BY DEF ConfigInv, ConfigTypes
  <2> QED BY <1>0, <2>1, <2>2 DEF Obeyed, IsConfig
<1> QED BY <1>6, <1>7, <1>8, <1>9 DEF ConfigInv

\* The file changes under the configurator's hands.
LEMMA EditFileKeeps ==
  ASSUME NEW owner, ConfigInv(owner), NEW f \in Files, C!EditFile(f)
  PROVE  ConfigInv(owner)'
<1>0. file' = f /\ UNCHANGED <<cb, nrt, unapplied, configPc, parsed, configTodo, thread, sched, topic,
                  socket, lastTid, known, refused>>
  BY DEF C!EditFile
<1>1. ConfigTypes'
  BY <1>0 DEF ConfigInv, ConfigTypes, IsConfig, IsEntry, IsFresh
<1>2. Owned(owner)' /\ Recorded'
  BY <1>0 DEF ConfigInv, Owned, Recorded, On
<1>3. Counted' /\ Obeyed'
  BY <1>0 DEF ConfigInv, Counted, Obeyed, Obeys, On, C!Alive, C!Unapplied
<1> QED BY <1>1, <1>2, <1>3 DEF ConfigInv

\* What holds of the threads of an entry after system calls.
LEMMA CallsObeyed ==
  ASSUME NEW jobs, NEW Failing, Failing \subseteq DOMAIN jobs, C!IssueSyscalls(jobs, Failing),
         UNCHANGED thread, NEW e, On(e) \subseteq DOMAIN sched,
         \A t \in On(e) :
            \/ t \in DOMAIN jobs /\ jobs[t] = e.attrs
            \/ t \notin DOMAIN jobs /\ (t \in refused \/ (C!Alive(t) => sched[t] = e.attrs))
  PROVE  \A t \in On(e) \ refused' : C!Alive(t) => sched'[t] = e.attrs
<1> SUFFICES ASSUME NEW t \in On(e) \ refused', C!Alive(t) PROVE sched'[t] = e.attrs
  OBVIOUS
<1>1. CASE t \in DOMAIN jobs /\ jobs[t] = e.attrs
  BY <1>1, CallsSet
<1>2. CASE t \notin DOMAIN jobs /\ (t \in refused \/ (C!Alive(t) => sched[t] = e.attrs))
  BY <1>2, CallsSet
<1> QED BY <1>1, <1>2

\* A thread is on record in one callback-group entry, or in one of the other entries.
LEMMA OneRecord ==
  ASSUME NEW owner, ConfigTypes, Owned(owner), Recorded
  PROVE  /\ \A j, k \in DOMAIN cb : j # k => On(cb[j]) \cap On(cb[k]) = {}
         /\ \A k \in DOMAIN cb : \A n \in DOMAIN nrt : On(cb[k]) \cap On(nrt[n]) = {}
         /\ \A n \in DOMAIN nrt : On(nrt[n]) = {nrt[n].tid} \ {C!None}
         /\ \A k \in DOMAIN cb : On(cb[k]) \subseteq 1 .. lastTid
         /\ \A n \in DOMAIN nrt : On(nrt[n]) \subseteq 1 .. lastTid
<1>0. \A k \in DOMAIN cb : IsEntry(cb[k])
  BY DEF ConfigTypes, IsConfig
<1>1. \A k \in DOMAIN cb : \A t \in On(cb[k]) :
         /\ t \in 1 .. lastTid /\ owner[t] \in Groups
         /\ \/ k = <<"id", owner[t]>> /\ cb[k].tid = t /\ t # C!None
            \/ k = <<"node", NodeOf[owner[t]]>> /\ owner[t] \in DOMAIN cb[k].matched
  <2> SUFFICES ASSUME NEW k \in DOMAIN cb, NEW t \in On(cb[k]) PROVE <1>1!(k)!(t)
    OBVIOUS
  <2>1. IsEntry(cb[k])
    BY <1>0
  <2>2. CASE t = cb[k].tid /\ t # C!None
    BY <2>1, <2>2 DEF IsEntry, Owned
  <2>3. ASSUME NEW g \in DOMAIN cb[k].matched, t = cb[k].matched[g] PROVE <1>1!(k)!(t)
    BY <2>1, <2>3 DEF IsEntry, Owned
  <2> QED BY <2>2, <2>3 DEF On
<1>2. \A n \in DOMAIN nrt :
         /\ On(nrt[n]) = {nrt[n].tid} \ {C!None} /\ On(nrt[n]) \subseteq 1 .. lastTid
         /\ \A t \in On(nrt[n]) : owner[t] \in ThreadNames
  BY DEF ConfigTypes, IsConfig, IsEntry, Owned, On
<1>3. ASSUME NEW j \in DOMAIN cb, NEW k \in DOMAIN cb, NEW t \in On(cb[j]) \cap On(cb[k]) PROVE j = k
  <2>1. <<"id", owner[t]>> # <<"node", NodeOf[owner[t]]>>
    OBVIOUS
  <2>2. ~(/\ j = <<"id", owner[t]>> /\ cb[j].tid = t /\ t # C!None
          /\ owner[t] \in DOMAIN cb[k].matched)
    BY <1>1 DEF Recorded
  <2>3. ~(/\ k = <<"id", owner[t]>> /\ cb[k].tid = t /\ t # C!None
          /\ owner[t] \in DOMAIN cb[j].matched)
    BY <1>1 DEF Recorded
  <2> QED BY <1>1, <2>1, <2>2, <2>3
<1>4. \A k \in DOMAIN cb : \A n \in DOMAIN nrt : On(cb[k]) \cap On(nrt[n]) = {}
  BY <1>1, <1>2, ConfigAssumption
<1> QED BY <1>1, <1>2, <1>3, <1>4

\* The datagram of a thread of its own: the listener keeps the thread id, whatever the
\* reapply is doing.
LEMMA NonRosKeeps ==
  ASSUME NEW owner, ConfigInv(owner), NEW Failing, C!NonRosThreadCallback(Failing)
  PROVE  ConfigInv(owner)'
<1> PICK n, t : n = Head(socket).who /\ t = Head(socket).tid
  OBVIOUS
<1>0. /\ socket # <<>> /\ socket' = Tail(socket)
      /\ UNCHANGED <<file, cb, configPc, parsed, configTodo, thread, topic, lastTid>>
  BY DEF C!NonRosThreadCallback
<1>1. /\ n \in ThreadNames /\ t \in 1 .. lastTid /\ owner[t] = n
      /\ socket' \in Seq([who : ThreadNames, tid : Int])
      /\ \A i \in DOMAIN socket' : i + 1 \in DOMAIN socket /\ socket'[i] = socket[i + 1]
  <2>1. /\ socket \in Seq([who : ThreadNames, tid : Int])
        /\ \A i \in DOMAIN socket : socket[i].tid \in 1 .. lastTid /\ owner[socket[i].tid] = socket[i].who
    BY DEF ConfigInv, ConfigTypes, Owned
  <2> QED BY <1>0, <2>1, QueueShrinks
<1>2. ConfigTypes /\ Owned(owner) /\ Recorded /\ Counted /\ Obeyed
  BY DEF ConfigInv
<1>3. CASE n \notin DOMAIN nrt
  <2>1. UNCHANGED <<nrt, unapplied, sched, known, refused>>
    BY <1>3 DEF C!NonRosThreadCallback, C!NextDatagram
  <2>2. ConfigTypes'
    BY <1>0, <1>1, <1>2, <2>1 DEF ConfigTypes, IsConfig, IsEntry, IsFresh
  <2>3. Owned(owner)' /\ Recorded'
    BY <1>0, <1>1, <1>2, <2>1 DEF Owned, Recorded, On
  <2>4. Counted' /\ Obeyed'
    BY <1>0, <1>2, <2>1 DEF Counted, Obeyed, Obeys, On, C!Alive, C!Unapplied
  <2> QED BY <2>2, <2>3, <2>4 DEF ConfigInv
<1>4. CASE n \in DOMAIN nrt
  <2> DEFINE jobs == [u \in {t} |-> nrt[n].attrs]
  <2>1. /\ Failing \subseteq {t} /\ C!IssueSyscalls(jobs, Failing)
        /\ nrt' = [nrt EXCEPT ![n].tid = t, ![n].applied = @ \/ Failing = {}]
        /\ unapplied' = IF Failing = {} /\ ~nrt[n].applied THEN unapplied - 1 ELSE unapplied
        /\ known' = [known EXCEPT ![n] = t]
    BY <1>4 DEF C!NonRosThreadCallback, C!NextDatagram
  <2>2. DOMAIN jobs = {t} /\ jobs[t] = nrt[n].attrs
    OBVIOUS
  <2> HIDE DEF jobs
  <2>3. /\ DOMAIN nrt' = DOMAIN nrt
        /\ \A m \in DOMAIN nrt \ {n} : nrt'[m] = nrt[m]
        /\ IsEntry(nrt[n]) /\ DOMAIN nrt'[n] = DOMAIN nrt[n]
        /\ nrt'[n].attrs = nrt[n].attrs /\ nrt'[n].matched = nrt[n].matched /\ nrt'[n].tid = t
        /\ nrt'[n].applied = (nrt[n].applied \/ Failing = {})
    <3>1. IsEntry(nrt[n])
      BY <1>2, <1>4 DEF ConfigTypes, IsConfig
    <3>2. nrt'[n] = [nrt[n] EXCEPT !.tid = t, !.applied = @ \/ Failing = {}]
      BY <1>4, <2>1
    <3>3. /\ DOMAIN nrt'[n] = DOMAIN nrt[n]
          /\ nrt'[n].attrs = nrt[n].attrs /\ nrt'[n].matched = nrt[n].matched /\ nrt'[n].tid = t
          /\ nrt'[n].applied = (nrt[n].applied \/ Failing = {})
      BY <3>1, <3>2 DEF IsEntry
    <3> QED BY <1>4, <2>1, <3>1, <3>3
  <2>4. DOMAIN sched' = DOMAIN sched /\ DOMAIN sched = 1 .. lastTid
    BY <1>2, <2>1, <2>2, CallsSet DEF ConfigTypes
  <2>5. ConfigTypes'
    <3>1. IsEntry(nrt'[n])
      BY <1>1, <2>3 DEF IsEntry
    <3>2. IsConfig(nrt)'
      BY <1>0, <1>2, <2>3, <3>1 DEF ConfigTypes, IsConfig, IsEntry
    <3>3. known' \in [Groups \cup ThreadNames -> {C!None} \cup 1 .. lastTid]
      BY <1>1, <1>2, <2>1 DEF ConfigTypes
    <3>4. unapplied' \in Int
      BY <1>2, <2>1 DEF ConfigTypes
    <3> QED BY <1>0, <1>1, <1>2, <2>4, <3>2, <3>3, <3>4 DEF ConfigTypes, IsConfig, IsEntry, IsFresh
  <2>6. Owned(owner)'
    <3>1. \A x \in Groups \cup ThreadNames : known'[x] # C!None => owner[known'[x]] = x
      BY <1>1, <1>2, <2>1 DEF Owned, ConfigTypes
    <3>2. \A i \in DOMAIN socket' : owner[socket'[i].tid] = socket'[i].who
      BY <1>1, <1>2 DEF Owned
    <3>3. \A m \in DOMAIN nrt' :
            /\ nrt'[m].tid # C!None => owner[nrt'[m].tid] = m /\ m \in ThreadNames
            /\ DOMAIN nrt'[m].matched = {}
      BY <1>1, <1>2, <1>4, <2>3 DEF Owned
    <3> QED BY <1>0, <1>2, <3>1, <3>2, <3>3 DEF Owned
  <2>7. Recorded'
    <3>1. n \notin Groups
      BY <1>1, ConfigAssumption
    <3>2. known'[n] = t /\ \A x \in Groups \cup ThreadNames : x # n => known'[x] = known[x]
      BY <1>1, <1>2, <2>1 DEF ConfigTypes
    <3> QED BY <1>0, <1>2, <1>4, <2>3, <3>1, <3>2 DEF Recorded, On
  <2>8. Counted'
    <3>1. IsFiniteSet(DOMAIN nrt)
      BY <1>2 DEF ConfigTypes, IsConfig
    <3>2. CASE Failing = {} /\ ~nrt[n].applied
      <4>1. C!Unapplied(nrt') = C!Unapplied(nrt) - 1 /\ C!Unapplied(nrt) \in Nat
        BY <1>4, <2>3, <3>1, <3>2, CountOne
      <4>2. IsFiniteSet(DOMAIN cb)
        BY <1>2 DEF ConfigTypes, IsConfig
      <4>3. C!Unapplied(cb) \in Nat
        BY <4>2, CountType
      <4> QED BY <1>0, <1>2, <2>1, <3>2, <4>1, <4>3 DEF Counted
    <3>3. CASE ~(Failing = {} /\ ~nrt[n].applied)
      <4>1. \A m \in DOMAIN nrt : nrt'[m].applied = nrt[m].applied
        <5>1. nrt[n].applied \in BOOLEAN
          BY <2>3 DEF IsEntry
        <5> QED BY <2>3, <3>3, <5>1
      <4>2. C!Unapplied(nrt') = C!Unapplied(nrt)
        BY <2>3, <4>1, CountSame
      <4> QED BY <1>0, <1>2, <2>1, <3>3, <4>2 DEF Counted
    <3> QED BY <3>2, <3>3
  <2>9. Obeyed'
    <3>1. \A k \in DOMAIN cb : t \notin On(cb[k])
      BY <1>1, <1>2, ConfigAssumption DEF Owned, On, ConfigTypes, IsConfig, IsEntry
    <3>2. \A m \in DOMAIN nrt \ {n} : t \notin On(nrt[m])
      BY <1>1, <1>2 DEF Owned, On
    <3>3. ASSUME NEW k \in DOMAIN cb, Obeys(cb[k]) PROVE Obeys(cb[k])'
      <4>1. \A u \in On(cb[k]) : u \notin DOMAIN jobs /\ (u \in refused \/ (C!Alive(u) => sched[u] = cb[k].attrs))
        BY <2>2, <3>1, <3>3 DEF Obeys
      <4>2. On(cb[k]) \subseteq DOMAIN sched
        BY <1>2, <2>4, OneRecord
      <4>3. \A u \in On(cb[k]) \ refused' : C!Alive(u) => sched'[u] = cb[k].attrs
        BY <1>0, <2>1, <2>2, <4>1, <4>2, CallsObeyed
      <4> QED BY <1>0, <4>3 DEF Obeys, On, C!Alive
    <3>4. ASSUME NEW m \in DOMAIN nrt \ {n}, Obeys(nrt[m]) PROVE Obeys(nrt[m])'
      <4>1. \A u \in On(nrt[m]) : u \notin DOMAIN jobs /\ (u \in refused \/ (C!Alive(u) => sched[u] = nrt[m].attrs))
        BY <2>2, <3>2, <3>4 DEF Obeys
      <4>2. On(nrt[m]) \subseteq DOMAIN sched
        BY <1>2, <2>4, OneRecord
      <4>3. \A u \in On(nrt[m]) \ refused' : C!Alive(u) => sched'[u] = nrt[m].attrs
        BY <1>0, <2>1, <2>2, <4>1, <4>2, CallsObeyed
      <4> QED BY <1>0, <2>3, <4>3 DEF Obeys, On, C!Alive
    <3>5. Obeys(nrt[n])'
      <4>1. On(nrt'[n]) \subseteq {t}
        BY <1>2, <1>4, <2>3 DEF On, Owned
      <4>2. PICK e : e = nrt'[n]
        OBVIOUS
      <4>3. On(e) \subseteq DOMAIN sched /\ \A u \in On(e) : u \in DOMAIN jobs /\ jobs[u] = e.attrs
        BY <1>1, <2>2, <2>3, <2>4, <4>1, <4>2
      <4>4. \A u \in On(e) \ refused' : C!Alive(u) => sched'[u] = e.attrs
        BY <1>0, <2>1, <2>2, <4>3, CallsObeyed
      <4>5. \A u : C!Alive(u)' <=> C!Alive(u)
        BY <1>0 DEF C!Alive
      <4> QED BY <4>2, <4>4, <4>5 DEF Obeys, On
    <3> QED BY <1>0, <1>2, <2>3, <3>3, <3>4, <3>5 DEF Obeyed
  <2> QED BY <2>5, <2>6, <2>7, <2>8, <2>9 DEF ConfigInv
<1> QED BY <1>3, <1>4

\* What a reapply carries over.
LEMMA CarriedIs ==
  ASSUME NEW new, NEW old,
         \A k \in DOMAIN new : IsEntry(new[k]) /\ IsFresh(new[k]), \A k \in DOMAIN old : IsEntry(old[k])
  PROVE  /\ DOMAIN C!CarryOver(new, old) = DOMAIN new
         /\ \A k \in DOMAIN new :
              /\ IsEntry(C!CarryOver(new, old)[k]) /\ C!CarryOver(new, old)[k].applied = FALSE
              /\ IF k \in DOMAIN old
                 THEN /\ C!CarryOver(new, old)[k].tid = old[k].tid
                      /\ C!CarryOver(new, old)[k].matched = old[k].matched
                 ELSE IsFresh(C!CarryOver(new, old)[k])
<1>1. DOMAIN C!CarryOver(new, old) = DOMAIN new
  BY DEF C!CarryOver
<1>2. ASSUME NEW k \in DOMAIN new \cap DOMAIN old, NEW e, e = C!CarryOver(new, old)[k]
      PROVE  /\ IsEntry(e) /\ e.applied = FALSE
             /\ e.tid = old[k].tid /\ e.matched = old[k].matched
  <2>1. e = [new[k] EXCEPT !.tid = old[k].tid, !.matched = old[k].matched]
    BY <1>2 DEF C!CarryOver
  <2>2. IsEntry(new[k]) /\ IsFresh(new[k]) /\ IsEntry(old[k])
    OBVIOUS
  <2>3. /\ DOMAIN e = DOMAIN new[k] /\ e.applied = new[k].applied
        /\ e.tid = old[k].tid /\ e.matched = old[k].matched
    BY <2>1, <2>2 DEF IsEntry
  <2>4. e.applied = FALSE
    BY <2>2, <2>3 DEF IsEntry, IsFresh
  <2> QED BY <2>2, <2>3, <2>4 DEF IsEntry
<1>3. ASSUME NEW k \in DOMAIN new \ DOMAIN old, NEW e, e = C!CarryOver(new, old)[k]
      PROVE  IsEntry(e) /\ e.applied = FALSE /\ IsFresh(e)
  <2>1. e = new[k]
    BY <1>3 DEF C!CarryOver
  <2> QED BY <2>1 DEF IsEntry, IsFresh
<1> QED BY <1>1, <1>2, <1>3

\* The entries of the groups are replaced: what they know of the threads stays.
LEMMA ReapplyLoadKeeps ==
  ASSUME NEW owner, ConfigInv(owner), C!ReapplyLoad
  PROVE  ConfigInv(owner)'
<1>0. /\ configPc = "idle"
      /\ UNCHANGED <<file, nrt, unapplied, configTodo, thread, sched, topic, socket, lastTid, refused>>
  BY DEF C!ReapplyLoad
<1>1. ConfigTypes /\ Owned(owner) /\ Recorded /\ Counted /\ Obeyed /\ lastTid \in Nat
  BY DEF ConfigInv, ConfigTypes
<1>2. CASE file = Invalid
  <2>1. UNCHANGED configVars \/ UNCHANGED <<cb, configPc, parsed, known>>
    BY <1>2 DEF C!ReapplyLoad
  <2>2. UNCHANGED <<cb, configPc, parsed, known>>
    BY <2>1 DEF configVars
  <2>3. ConfigTypes'
    BY <1>0, <1>1, <2>2 DEF ConfigTypes, IsConfig, IsEntry, IsFresh
  <2>4. Owned(owner)' /\ Recorded'
    BY <1>0, <1>1, <2>2 DEF Owned, Recorded, On
  <2>5. Counted' /\ Obeyed'
    BY <1>0, <1>1, <2>2 DEF Counted, Obeyed, Obeys, On, C!Alive, C!Unapplied
  <2> QED BY <2>3, <2>4, <2>5 DEF ConfigInv
<1>3. CASE file # Invalid
  <2>1. /\ cb' = C!CarryOver(C!Fresh(file.cb), cb) /\ parsed' = C!Fresh(file.nrt) /\ configPc' = "swap"
        /\ known' = [x \in DOMAIN known |->
                       IF x \in Groups /\ \A e \in DOMAIN cb' :
                             cb'[e].tid # known[x] /\ known[x] \notin C!Range(cb'[e].matched)
                       THEN C!None ELSE known[x]]
    BY <1>3 DEF C!ReapplyLoad
  <2>2. /\ IsFiniteSet(DOMAIN file.cb) /\ IsFiniteSet(DOMAIN file.nrt)
    BY <1>1, <1>3, ConfigAssumption DEF ConfigTypes
  <2>3. /\ DOMAIN cb' = DOMAIN file.cb
        /\ \A k \in DOMAIN cb' : IsEntry(cb'[k]) /\ cb'[k].applied = FALSE
        /\ \A k \in DOMAIN cb' \cap DOMAIN cb : cb'[k].tid = cb[k].tid /\ cb'[k].matched = cb[k].matched
        /\ \A k \in DOMAIN cb' \ DOMAIN cb : IsFresh(cb'[k])
    <3>1. DOMAIN C!Fresh(file.cb) = DOMAIN file.cb
          /\ \A k \in DOMAIN C!Fresh(file.cb) : IsEntry(C!Fresh(file.cb)[k]) /\ IsFresh(C!Fresh(file.cb)[k])
      BY <1>1, FreshIs
    <3>2. \A k \in DOMAIN cb : IsEntry(cb[k])
      BY <1>1 DEF ConfigTypes, IsConfig
    <3>3. PICK new : new = C!Fresh(file.cb)
      OBVIOUS
    <3>4. \A k \in DOMAIN new : IsEntry(new[k]) /\ IsFresh(new[k])
      BY <3>1, <3>3
    <3>5. cb' = C!CarryOver(new, cb)
      BY <2>1, <3>3
    <3>6. /\ DOMAIN C!CarryOver(new, cb) = DOMAIN new
          /\ \A k \in DOMAIN new :
               /\ IsEntry(C!CarryOver(new, cb)[k]) /\ C!CarryOver(new, cb)[k].applied = FALSE
               /\ IF k \in DOMAIN cb
                  THEN /\ C!CarryOver(new, cb)[k].tid = cb[k].tid
                       /\ C!CarryOver(new, cb)[k].matched = cb[k].matched
                  ELSE IsFresh(C!CarryOver(new, cb)[k])
      BY <3>2, <3>4, CarriedIs
    <3> QED BY <3>1, <3>3, <3>5, <3>6
  <2>4. DOMAIN parsed' = DOMAIN file.nrt /\ \A k \in DOMAIN parsed' : IsEntry(parsed'[k]) /\ IsFresh(parsed'[k])
    BY <1>1, <2>1, FreshIs
  <2>5. ASSUME NEW x \in Groups \cup ThreadNames
        PROVE  /\ known'[x] = known[x] \/ known'[x] = C!None
               /\ x \in ThreadNames => known'[x] = known[x]
               /\ x \in Groups /\ known'[x] # C!None => \E k \in DOMAIN cb' : known'[x] \in On(cb'[k])
    <3>1. DOMAIN known = Groups \cup ThreadNames
      BY <1>1 DEF ConfigTypes
    <3>2. ASSUME x \in Groups, known'[x] # C!None PROVE \E k \in DOMAIN cb' : known'[x] \in On(cb'[k])
      <4>1. PICK k \in DOMAIN cb' : cb'[k].tid = known[x] \/ known[x] \in C!Range(cb'[k].matched)
        BY <2>1, <3>1, <3>2
      <4>2. known'[x] = known[x]
        BY <2>1, <3>1, <3>2
      <4>3. known[x] \in On(cb'[k])
        BY <3>2, <4>1, <4>2 DEF On, C!Range
      <4> QED BY <4>2, <4>3
    <3> QED BY <2>1, <3>1, <3>2, ConfigAssumption
  <2>6. ConfigTypes'
    <3>1. IsConfig(cb)' /\ IsConfig(parsed)' /\ \A n \in DOMAIN parsed' : IsFresh(parsed'[n])
      BY <1>0, <2>2, <2>3, <2>4 DEF IsConfig, IsEntry
    <3>2. known' \in [Groups \cup ThreadNames -> {C!None} \cup 1 .. lastTid]
      <4>1. DOMAIN known' = Groups \cup ThreadNames
        BY <1>1, <2>1 DEF ConfigTypes
      <4>2. known' = [x \in DOMAIN known |-> known'[x]]
        BY <2>1
      <4>3. \A x \in DOMAIN known : known'[x] \in {C!None} \cup 1 .. lastTid
        BY <1>1, <2>5 DEF ConfigTypes
      <4> QED BY <1>1, <4>2, <4>3 DEF ConfigTypes
    <3>3. IsConfig(nrt)'
      BY <1>0, <1>1 DEF ConfigTypes, IsConfig, IsEntry
    <3> QED BY <1>0, <1>1, <2>1, <3>1, <3>2, <3>3 DEF ConfigTypes, IsFresh
  <2>7. Owned(owner)'
    <3>1. \A x \in Groups \cup ThreadNames : known'[x] # C!None => owner[known'[x]] = x
      BY <1>1, <2>5 DEF Owned
    <3>2. ASSUME NEW k \in DOMAIN cb'
          PROVE  /\ cb'[k].tid # C!None => owner[cb'[k].tid] \in Groups /\ k = <<"id", owner[cb'[k].tid]>>
                 /\ \A g \in DOMAIN cb'[k].matched :
                       owner[cb'[k].matched[g]] = g /\ k = <<"node", NodeOf[g]>>
      <4>1. CASE k \in DOMAIN cb
        BY <1>1, <2>3, <4>1 DEF Owned
      <4>2. CASE k \notin DOMAIN cb
        BY <2>3, <4>2 DEF IsFresh
      <4> QED BY <4>1, <4>2
    <3> QED BY <1>0, <1>1, <3>1, <3>2 DEF Owned
  <2>8. Recorded'
    <3>1. ASSUME NEW g \in Groups, <<"id", g>> \in DOMAIN cb', cb'[<<"id", g>>].tid # C!None, NEW k \in DOMAIN cb'
          PROVE  g \notin DOMAIN cb'[k].matched
      <4>1. <<"id", g>> \in DOMAIN cb /\ cb[<<"id", g>>].tid # C!None
        BY <2>3, <3>1 DEF IsFresh
      <4>2. CASE k \in DOMAIN cb
        BY <1>1, <2>3, <4>1, <4>2 DEF Recorded
      <4>3. CASE k \notin DOMAIN cb
        BY <2>3, <4>3 DEF IsFresh
      <4> QED BY <4>2, <4>3
    <3>2. \A n \in ThreadNames : known'[n] # C!None => n \in DOMAIN nrt /\ nrt[n].tid = known'[n]
      BY <1>1, <2>5 DEF Recorded
    <3> QED BY <1>0, <2>5, <3>1, <3>2 DEF Recorded
  <2>9. Counted' /\ Obeyed'
    BY <2>1, <2>3 DEF Counted, Obeyed
  <2> QED BY <2>6, <2>7, <2>8, <2>9 DEF ConfigInv
<1> QED BY <1>2, <1>3

\* The other entries are replaced, and everything is counted anew.
LEMMA ReapplySwapKeeps ==
  ASSUME NEW owner, ConfigInv(owner), C!ReapplySwapNonRos
  PROVE  ConfigInv(owner)'
<1>0. /\ configPc = "swap" /\ configPc' = "groups" /\ configTodo' = DOMAIN cb
      /\ nrt' = C!CarryOver(parsed, nrt)
      /\ unapplied' = C!Cardinality(DOMAIN cb) + C!Cardinality(DOMAIN parsed)
      /\ known' = [x \in DOMAIN known |->
                     IF x \in ThreadNames \ (DOMAIN parsed \cap DOMAIN nrt) THEN C!None ELSE known[x]]
      /\ UNCHANGED <<file, cb, parsed, thread, sched, topic, socket, lastTid, refused>>
  BY DEF C!ReapplySwapNonRos
<1>1. /\ ConfigTypes /\ Owned(owner) /\ Recorded /\ Counted /\ lastTid \in Nat
      /\ IsConfig(parsed) /\ IsConfig(nrt) /\ IsConfig(cb) /\ \A n \in DOMAIN parsed : IsFresh(parsed[n])
      /\ DOMAIN known = Groups \cup ThreadNames
  BY <1>0 DEF ConfigInv, ConfigTypes
<1>2. /\ DOMAIN nrt' = DOMAIN parsed
      /\ \A k \in DOMAIN nrt' : IsEntry(nrt'[k]) /\ nrt'[k].applied = FALSE
      /\ \A k \in DOMAIN nrt' \cap DOMAIN nrt : nrt'[k].tid = nrt[k].tid /\ nrt'[k].matched = nrt[k].matched
      /\ \A k \in DOMAIN nrt' \ DOMAIN nrt : IsFresh(nrt'[k])
  <2>1. /\ \A k \in DOMAIN parsed : IsEntry(parsed[k]) /\ IsFresh(parsed[k])
        /\ \A k \in DOMAIN nrt : IsEntry(nrt[k])
    BY <1>1 DEF IsConfig
  <2>2. /\ DOMAIN C!CarryOver(parsed, nrt) = DOMAIN parsed
        /\ \A k \in DOMAIN parsed :
             /\ IsEntry(C!CarryOver(parsed, nrt)[k]) /\ C!CarryOver(parsed, nrt)[k].applied = FALSE
             /\ IF k \in DOMAIN nrt
                THEN /\ C!CarryOver(parsed, nrt)[k].tid = nrt[k].tid
                     /\ C!CarryOver(parsed, nrt)[k].matched = nrt[k].matched
                ELSE IsFresh(C!CarryOver(parsed, nrt)[k])
    BY <2>1, CarriedIs
  <2>3. nrt' = C!CarryOver(parsed, nrt)
    BY <1>0
  <2> QED BY <2>2, <2>3
<1>3. \A x \in Groups \cup ThreadNames :
        /\ known'[x] = known[x] \/ known'[x] = C!None
        /\ x \in Groups => known'[x] = known[x]
        /\ x \in ThreadNames /\ known'[x] # C!None =>
              known'[x] = known[x] /\ x \in DOMAIN parsed /\ x \in DOMAIN nrt
  BY <1>0, <1>1, ConfigAssumption
<1>4. ConfigTypes'
  <2>1. IsConfig(nrt)' /\ IsConfig(cb)'
    BY <1>0, <1>1, <1>2 DEF IsConfig, IsEntry
  <2>2. known' \in [Groups \cup ThreadNames -> {C!None} \cup 1 .. lastTid]
    <3>1. known' = [x \in DOMAIN known |-> known'[x]]
      BY <1>0
    <3>2. \A x \in DOMAIN known : known'[x] \in {C!None} \cup 1 .. lastTid
      BY <1>1, <1>3 DEF ConfigTypes
    <3> QED BY <1>1, <3>1, <3>2
  <2>3. unapplied' \in Int
    BY <1>0, <1>1, CardinalityIs, FS_CardinalityType DEF IsConfig
  <2> QED BY <1>0, <1>1, <2>1, <2>2, <2>3 DEF ConfigTypes
<1>5. Owned(owner)'
  <2>1. \A x \in Groups \cup ThreadNames : known'[x] # C!None => owner[known'[x]] = x
    BY <1>1, <1>3 DEF Owned
  <2>2. ASSUME NEW n \in DOMAIN nrt'
        PROVE  /\ nrt'[n].tid # C!None => owner[nrt'[n].tid] = n /\ n \in ThreadNames
               /\ DOMAIN nrt'[n].matched = {}
    <3>1. CASE n \in DOMAIN nrt
      BY <1>1, <1>2, <3>1 DEF Owned
    <3>2. CASE n \notin DOMAIN nrt
      BY <1>2, <3>2 DEF IsFresh
    <3> QED BY <3>1, <3>2
  <2> QED BY <1>0, <1>1, <2>1, <2>2 DEF Owned
<1>6. Recorded'
  <2>1. \A n \in ThreadNames : known'[n] # C!None => n \in DOMAIN nrt' /\ nrt'[n].tid = known'[n]
    BY <1>1, <1>2, <1>3 DEF Recorded
  <2>2. \A g \in Groups : known'[g] # C!None => \E k \in DOMAIN cb : known'[g] \in On(cb[k])
    BY <1>1, <1>3 DEF Recorded
  <2>3. \A g \in Groups : <<"id", g>> \in DOMAIN cb /\ cb[<<"id", g>>].tid # C!None =>
          \A k \in DOMAIN cb : g \notin DOMAIN cb[k].matched
    BY <1>1 DEF Recorded
  <2> QED BY <1>0, <2>1, <2>2, <2>3 DEF Recorded, On
<1>7. Counted'
  <2>1. \A k \in DOMAIN cb : ~cb[k].applied
    BY <1>0, <1>1 DEF Counted
  <2>2. {k \in DOMAIN cb : ~cb[k].applied} = DOMAIN cb
    BY <2>1
  <2>3. {k \in DOMAIN nrt' : ~nrt'[k].applied} = DOMAIN parsed
    BY <1>2
  <2> QED BY <1>0, <2>1, <2>2, <2>3 DEF Counted, C!Unapplied
<1>8. Obeyed'
  BY <1>0 DEF Obeyed
<1> QED BY <1>4, <1>5, <1>6, <1>7, <1>8 DEF ConfigInv

\* One more entry of the groups is retried.
LEMMA ReapplyGroupKeeps ==
  ASSUME NEW owner, ConfigInv(owner), NEW Failing, C!ReapplyGroup(Failing)
  PROVE  ConfigInv(owner)'
<1> PICK k : k = CHOOSE x \in configTodo : TRUE
  OBVIOUS
<1> DEFINE some == DOMAIN C!Jobs(cb[k]) \ Failing # {}
<1>0. /\ configPc = "groups" /\ k \in configTodo /\ configTodo' = configTodo \ {k}
      /\ Failing \subseteq DOMAIN C!Jobs(cb[k]) /\ C!IssueSyscalls(C!Jobs(cb[k]), Failing)
      /\ cb' = [cb EXCEPT ![k].applied = some]
      /\ unapplied' = IF some THEN unapplied - 1 ELSE unapplied
      /\ UNCHANGED <<file, nrt, configPc, parsed, thread, topic, socket, lastTid, known>>
  BY DEF C!ReapplyGroup
<1>1. /\ ConfigTypes /\ Owned(owner) /\ Recorded /\ Counted /\ Obeyed /\ lastTid \in Nat
      /\ IsConfig(cb) /\ IsConfig(nrt) /\ k \in DOMAIN cb /\ configTodo \subseteq DOMAIN cb
      /\ ~cb[k].applied
  BY <1>0 DEF ConfigInv, ConfigTypes, Counted
<1>2. some \in BOOLEAN
  OBVIOUS
<1> HIDE DEF some
<1>3. /\ DOMAIN cb' = DOMAIN cb /\ \A j \in DOMAIN cb \ {k} : cb'[j] = cb[j]
      /\ DOMAIN cb'[k] = DOMAIN cb[k] /\ cb'[k].attrs = cb[k].attrs
      /\ cb'[k].tid = cb[k].tid /\ cb'[k].matched = cb[k].matched /\ cb'[k].applied = some
  <2>1. IsEntry(cb[k])
    BY <1>1 DEF IsConfig
  <2>2. cb'[k] = [cb[k] EXCEPT !.applied = some]
    BY <1>0, <1>1
  <2>3. /\ DOMAIN cb'[k] = DOMAIN cb[k] /\ cb'[k].attrs = cb[k].attrs
        /\ cb'[k].tid = cb[k].tid /\ cb'[k].matched = cb[k].matched /\ cb'[k].applied = some
    BY <2>1, <2>2 DEF IsEntry
  <2> QED BY <1>0, <1>1, <2>3
<1>4. DOMAIN C!Jobs(cb[k]) = On(cb[k]) /\ \A t \in On(cb[k]) : C!Jobs(cb[k])[t] = cb[k].attrs
  BY JobsAre
<1>5. DOMAIN sched' = DOMAIN sched /\ DOMAIN sched = 1 .. lastTid
  BY <1>0, <1>1, CallsSet DEF ConfigTypes
<1>6. ConfigTypes'
  <2>1. IsEntry(cb'[k])
    BY <1>1, <1>2, <1>3 DEF IsConfig, IsEntry
  <2>2. IsConfig(cb)' /\ IsConfig(nrt)'
    BY <1>0, <1>1, <1>3, <2>1 DEF IsConfig, IsEntry
  <2>3. unapplied' \in Int
    BY <1>0, <1>1 DEF ConfigTypes
  <2> QED BY <1>0, <1>1, <1>3, <1>5, <2>2, <2>3 DEF ConfigTypes
<1>7. \A j \in DOMAIN cb : cb'[j].tid = cb[j].tid /\ cb'[j].matched = cb[j].matched
  BY <1>1, <1>3
<1>8. Owned(owner)' /\ Recorded'
  <2>1. Owned(owner)'
    BY <1>0, <1>1, <1>3, <1>7 DEF Owned
  <2>2. Recorded'
    <3>1. \A j \in DOMAIN cb : On(cb'[j]) = On(cb[j])
      BY <1>7 DEF On
    <3>2. \A g \in Groups : known'[g] # C!None => \E j \in DOMAIN cb' : known'[g] \in On(cb'[j])
      BY <1>0, <1>1, <1>3, <3>1 DEF Recorded
    <3>3. \A g \in Groups : <<"id", g>> \in DOMAIN cb /\ cb'[<<"id", g>>].tid # C!None =>
            \A j \in DOMAIN cb : g \notin DOMAIN cb'[j].matched
      BY <1>1, <1>7 DEF Recorded
    <3>4. \A n \in ThreadNames : known[n] # C!None => n \in DOMAIN nrt /\ nrt[n].tid = known[n]
      BY <1>1 DEF Recorded
    <3>5. DOMAIN cb' = DOMAIN cb /\ UNCHANGED <<nrt, known>>
      BY <1>0, <1>3
    <3> QED BY <3>2, <3>3, <3>4, <3>5 DEF Recorded
  <2> QED BY <2>1, <2>2
<1>9. Counted'
  <2>0. IsFiniteSet(DOMAIN cb) /\ IsFiniteSet(DOMAIN nrt)
    BY <1>1 DEF IsConfig
  <2>1. C!Unapplied(cb) \in Nat /\ C!Unapplied(nrt) \in Nat /\ unapplied = C!Unapplied(cb) + C!Unapplied(nrt)
    BY <1>0, <1>1, <2>0, CountType DEF Counted
  <2>2. unapplied' = C!Unapplied(cb') + C!Unapplied(nrt)
    <3>1. CASE some
      <4>1. C!Unapplied(cb') = C!Unapplied(cb) - 1
        BY <1>1, <1>3, <2>0, <3>1, CountOne
      <4> QED BY <1>0, <2>1, <3>1, <4>1
    <3>2. CASE ~some
      <4>0. some = FALSE /\ cb[k].applied = FALSE
        BY <1>1, <1>2, <3>2 DEF IsConfig, IsEntry
      <4>1. C!Unapplied(cb') = C!Unapplied(cb)
        BY <1>1, <1>3, <4>0, CountSame
      <4> QED BY <1>0, <2>1, <3>2, <4>1
    <3> QED BY <3>1, <3>2
  <2>3. \A j \in configTodo \ {k} : ~cb'[j].applied
    BY <1>0, <1>1, <1>3 DEF Counted
  <2> QED BY <1>0, <2>2, <2>3 DEF Counted
<1>10. Obeyed'
  <2>0. \A u : C!Alive(u)' <=> C!Alive(u)
    BY <1>0 DEF C!Alive
  <2>1. ASSUME NEW j \in DOMAIN cb \ (configTodo \ {k}) PROVE Obeys(cb[j])'
    <3>1. \A t \in On(cb[j]) :
            \/ t \in DOMAIN C!Jobs(cb[k]) /\ C!Jobs(cb[k])[t] = cb[j].attrs
            \/ t \notin DOMAIN C!Jobs(cb[k]) /\ (t \in refused \/ (C!Alive(t) => sched[t] = cb[j].attrs))
      <4>1. CASE j = k
        BY <1>4, <4>1
      <4>2. CASE j # k
        <5>1. Obeys(cb[j])
          BY <1>0, <1>1, <4>2 DEF Obeyed
        <5>2. On(cb[j]) \cap On(cb[k]) = {}
          BY <1>1, <4>2, OneRecord
        <5> QED BY <1>4, <5>1, <5>2 DEF Obeys
      <4> QED BY <4>1, <4>2
    <3>2. On(cb[j]) \subseteq DOMAIN sched
      BY <1>1, <1>5, OneRecord
    <3>3. \A u \in On(cb[j]) \ refused' : C!Alive(u) => sched'[u] = cb[j].attrs
      BY <1>0, <3>1, <3>2, CallsObeyed
    <3>4. cb'[j].attrs = cb[j].attrs /\ cb'[j].tid = cb[j].tid /\ cb'[j].matched = cb[j].matched
      BY <1>3
    <3> QED BY <2>0, <3>3, <3>4 DEF Obeys, On
  <2> QED BY <1>0, <1>3, <2>1 DEF Obeyed
<1> QED BY <1>6, <1>8, <1>9, <1>10 DEF ConfigInv

\* The other entries are retried, all at once, and the reapply is over.
LEMMA ReapplyNonRosKeeps ==
  ASSUME NEW owner, ConfigInv(owner), NEW Failing, C!ReapplyNonRos(Failing)
  PROVE  ConfigInv(owner)'
<1> DEFINE tracked == {n \in DOMAIN nrt : nrt[n].tid # C!None}
           jobs == [t \in {nrt[n].tid : n \in tracked} |->
                      nrt[CHOOSE n \in tracked : nrt[n].tid = t].attrs]
           ok == {n \in tracked : nrt[n].tid \notin Failing}
<1>0. /\ configPc = "groups" /\ configTodo = {} /\ configPc' = "idle"
      /\ Failing \subseteq DOMAIN jobs /\ C!IssueSyscalls(jobs, Failing)
      /\ nrt' = [n \in DOMAIN nrt |-> [nrt[n] EXCEPT !.applied = @ \/ n \in ok]]
      /\ unapplied' = unapplied - C!Cardinality(C!Newly(ok))
      /\ UNCHANGED <<file, cb, parsed, configTodo, thread, topic, socket, lastTid, known>>
  BY DEF C!ReapplyNonRos
<1>a. /\ configPc' = "idle" /\ configTodo' = {}
      /\ UNCHANGED <<file, cb, parsed, configTodo, thread, topic, socket, lastTid, known>>
  BY <1>0
<1>1. /\ ConfigTypes /\ Owned(owner) /\ Recorded /\ Counted /\ Obeyed /\ lastTid \in Nat
      /\ IsConfig(cb) /\ IsConfig(nrt)
  BY DEF ConfigInv, ConfigTypes
<1>2. \A n \in tracked : nrt[n].tid \in DOMAIN jobs /\ jobs[nrt[n].tid] = nrt[n].attrs
  <2>1. \A m, n \in tracked : nrt[m].tid = nrt[n].tid => m = n
    BY <1>1 DEF Owned
  <2> SUFFICES ASSUME NEW n \in tracked PROVE jobs[nrt[n].tid] = nrt[n].attrs
    OBVIOUS
  <2>2. (CHOOSE m \in tracked : nrt[m].tid = nrt[n].tid) = n
    <3> HIDE DEF tracked
    <3> QED BY <2>1
  <2> QED BY <2>2
<1>3. DOMAIN jobs = {nrt[n].tid : n \in tracked} /\ ok \subseteq DOMAIN nrt
  OBVIOUS
<1>4. \A n \in DOMAIN nrt : n \in tracked <=> nrt[n].tid # C!None
  OBVIOUS
<1> PICK done : done = ok
  OBVIOUS
<1> HIDE DEF jobs, tracked, ok
<1>5. /\ DOMAIN nrt' = DOMAIN nrt
      /\ \A n \in DOMAIN nrt :
            /\ DOMAIN nrt'[n] = DOMAIN nrt[n] /\ nrt'[n].attrs = nrt[n].attrs
            /\ nrt'[n].tid = nrt[n].tid /\ nrt'[n].matched = nrt[n].matched
            /\ nrt'[n].applied = (nrt[n].applied \/ n \in done)
  <2>1. ASSUME NEW n \in DOMAIN nrt
        PROVE  /\ DOMAIN nrt'[n] = DOMAIN nrt[n] /\ nrt'[n].attrs = nrt[n].attrs
               /\ nrt'[n].tid = nrt[n].tid /\ nrt'[n].matched = nrt[n].matched
               /\ nrt'[n].applied = (nrt[n].applied \/ n \in done)
    <3>1. IsEntry(nrt[n])
      BY <1>1 DEF IsConfig
    <3>2. nrt'[n] = [nrt[n] EXCEPT !.applied = @ \/ n \in done]
      BY <1>0
    <3> QED BY <3>1, <3>2 DEF IsEntry
  <2> QED BY <1>0, <2>1
<1>6. DOMAIN sched' = DOMAIN sched /\ DOMAIN sched = 1 .. lastTid
  BY <1>0, <1>1, CallsSet DEF ConfigTypes
<1>7. Counted' /\ unapplied' \in Int
  <2> DEFINE A == {n \in DOMAIN nrt : ~nrt[n].applied}
             B == {n \in done : ~nrt[n].applied}
  <2>0. IsFiniteSet(DOMAIN cb) /\ IsFiniteSet(DOMAIN nrt)
    BY <1>1 DEF IsConfig
  <2>1. C!Unapplied(cb) \in Nat /\ unapplied = C!Unapplied(cb) + C!Unapplied(nrt)
    BY <1>0, <1>1, <2>0, CountType DEF Counted
  <2>2. IsFiniteSet(A) /\ C!Unapplied(nrt) = Cardinality(A)
    BY <2>0, FS_Subset, CardinalityIs DEF C!Unapplied
  <2>3. {n \in DOMAIN nrt' : ~nrt'[n].applied} = A \ B /\ A \cap B = B
    BY <1>3, <1>5
  <2>4. C!Unapplied(nrt') = Cardinality(A \ B)
    BY <2>3, CardinalityIs DEF C!Unapplied
  <2>5. C!Cardinality(C!Newly(ok)) = Cardinality(B)
    BY CardinalityIs DEF C!Newly
  <2> HIDE DEF A, B
  <2>6. IsFiniteSet(B) /\ Cardinality(B) \in Nat /\ Cardinality(A) \in Nat
    <3>1. B \in SUBSET A
      BY <2>3
    <3> QED BY <2>2, <3>1, FS_Subset, FS_CardinalityType
  <2>7. Cardinality(A \ B) = Cardinality(A) - Cardinality(B)
    <3>1. Cardinality(A \ B) = Cardinality(A) - Cardinality(A \cap B)
      BY <2>2, FS_Difference
    <3> QED BY <2>3, <3>1
  <2>8. unapplied' = C!Unapplied(cb) + C!Unapplied(nrt') /\ unapplied' \in Int
    BY <1>0, <2>1, <2>2, <2>4, <2>5, <2>6, <2>7
  <2> QED BY <1>a, <2>8 DEF Counted
<1>8. ConfigTypes'
  <2>1. IsConfig(cb)' /\ IsConfig(nrt)'
    <3>1. \A n \in DOMAIN nrt : IsEntry(nrt[n])
      BY <1>1 DEF IsConfig
    <3>2. \A n \in DOMAIN nrt : nrt'[n].applied \in BOOLEAN
      BY <1>5
    <3>3. IsConfig(nrt)'
      BY <1>a, <1>1, <1>5, <3>1, <3>2 DEF IsConfig, IsEntry
    <3>4. IsConfig(cb)'
      BY <1>a, <1>1 DEF IsConfig, IsEntry
    <3> QED BY <3>3, <3>4
  <2>2. configTodo \subseteq DOMAIN cb
    BY <1>0
  <2>3. /\ thread' \in [Groups \cup ThreadNames -> {C!None} \cup 1 .. lastTid']
        /\ known' \in [Groups \cup ThreadNames -> {C!None} \cup 1 .. lastTid']
        /\ topic' \in Seq([who : Groups, tid : Int])
        /\ socket' \in Seq([who : ThreadNames, tid : Int])
    BY <1>a, <1>1 DEF ConfigTypes
  <2>4. /\ \A i \in DOMAIN topic' : topic'[i].tid \in 1 .. lastTid'
        /\ \A i \in DOMAIN socket' : socket'[i].tid \in 1 .. lastTid'
    BY <1>a, <1>1 DEF ConfigTypes
  <2>5. lastTid' \in Nat /\ unapplied' \in Int /\ file' \in Files \cup {First} /\ DOMAIN sched' = 1 .. lastTid'
    BY <1>a, <1>1, <1>6, <1>7 DEF ConfigTypes
  <2> QED BY <1>a, <2>1, <2>3, <2>4, <2>5 DEF ConfigTypes
<1>9. Owned(owner)' /\ Recorded'
  <2>1. Owned(owner)'
    BY <1>a, <1>1, <1>5 DEF Owned
  <2>2. Recorded'
    <3>1. \A n \in ThreadNames : known[n] # C!None => n \in DOMAIN nrt' /\ nrt'[n].tid = known[n]
      BY <1>1, <1>5 DEF Recorded
    <3>2. /\ \A g \in Groups : <<"id", g>> \in DOMAIN cb /\ cb[<<"id", g>>].tid # C!None =>
               \A k \in DOMAIN cb : g \notin DOMAIN cb[k].matched
          /\ \A g \in Groups : known[g] # C!None => \E k \in DOMAIN cb : known[g] \in On(cb[k])
      BY <1>1 DEF Recorded
    <3> QED BY <1>a, <3>1, <3>2 DEF Recorded, On
  <2> QED BY <2>1, <2>2
<1>10. Obeyed'
  <2>0. \A u : C!Alive(u)' <=> C!Alive(u)
    BY <1>0 DEF C!Alive
  <2>1. ASSUME NEW k \in DOMAIN cb PROVE Obeys(cb[k])'
    <3>1. Obeys(cb[k])
      BY <1>0, <1>1 DEF Obeyed
    <3>2. \A n \in tracked : n \in DOMAIN nrt /\ nrt[n].tid \in On(nrt[n])
      BY <1>4 DEF tracked, On
    <3>3. On(cb[k]) \cap DOMAIN jobs = {}
      BY <1>1, <1>3, <3>2, OneRecord
    <3>4. On(cb[k]) \subseteq DOMAIN sched
      BY <1>1, <1>6, OneRecord
    <3>5. \A t \in On(cb[k]) : t \notin DOMAIN jobs /\ (t \in refused \/ (C!Alive(t) => sched[t] = cb[k].attrs))
      BY <3>1, <3>3 DEF Obeys
    <3>6. \A u \in On(cb[k]) \ refused' : C!Alive(u) => sched'[u] = cb[k].attrs
      BY <1>0, <3>4, <3>5, CallsObeyed
    <3> QED BY <1>0, <2>0, <3>6 DEF Obeys, On
  <2>2. ASSUME NEW n \in DOMAIN nrt PROVE Obeys(nrt[n])'
    <3>1. On(nrt[n]) = {nrt[n].tid} \ {C!None}
      BY <1>1, OneRecord
    <3>2. \A t \in On(nrt[n]) : t \in DOMAIN jobs /\ jobs[t] = nrt[n].attrs
      BY <1>2, <1>4, <3>1
    <3>3. On(nrt[n]) \subseteq DOMAIN sched
      BY <1>1, <1>6, OneRecord
    <3>4. \A u \in On(nrt[n]) \ refused' : C!Alive(u) => sched'[u] = nrt[n].attrs
      BY <1>0, <3>2, <3>3, CallsObeyed
    <3>5. nrt'[n].attrs = nrt[n].attrs /\ nrt'[n].tid = nrt[n].tid /\ nrt'[n].matched = nrt[n].matched
      BY <1>5
    <3> QED BY <2>0, <3>4, <3>5 DEF Obeys, On
  <2> QED BY <1>0, <1>5, <2>1, <2>2 DEF Obeyed
<1> QED BY <1>7, <1>8, <1>9, <1>10 DEF ConfigInv

\* The entries once the one in charge of a group has its thread.
Announced(k, g, t, done) ==
  LET u == C!Untracked(k, g)[k]
      e == IF k[1] = "node" THEN [u EXCEPT !.matched = C!Matched(@, g, t)]
                            ELSE [u EXCEPT !.tid = t]
  IN  [C!Untracked(k, g) EXCEPT ![k] = [e EXCEPT !.applied = @ \/ done]]

\* What is different about them then.
Taken(f, h, g, t, k, done) ==
  /\ DOMAIN h = DOMAIN f
  /\ \A j \in DOMAIN f :
       /\ IsEntry(h[j]) /\ h[j].attrs = f[j].attrs
       /\ h[j].applied = (f[j].applied \/ (j = k /\ done))
       /\ h[j].tid = IF j = k /\ k = <<"id", g>> THEN t ELSE f[j].tid
       /\ \A x \in Groups \ {g} :
             /\ x \in DOMAIN h[j].matched <=> x \in DOMAIN f[j].matched
             /\ x \in DOMAIN f[j].matched => h[j].matched[x] = f[j].matched[x]
       /\ g \in DOMAIN h[j].matched =>
             j = k /\ k = <<"node", NodeOf[g]>> /\ h[j].matched[g] = t
       /\ j = k /\ k = <<"node", NodeOf[g]>> => g \in DOMAIN h[j].matched

\* What the callback of the topic makes of the entries: the one in charge of the group has
\* the thread, and no other has any of the group's.
LEMMA AnnouncedIs ==
  ASSUME NEW owner, ConfigTypes, Owned(owner), NEW g \in Groups, NEW t \in 1 .. lastTid, NEW k,
         k = C!EntryFor(g), k \in DOMAIN cb, NEW done \in BOOLEAN,
         cb' = Announced(k, g, t, done)
  PROVE  Taken(cb, cb', g, t, k, done)
<1>1. \A j \in DOMAIN cb : /\ IsEntry(cb[j]) /\ cb[j].applied \in BOOLEAN
                           /\ g \in DOMAIN cb[j].matched => j = <<"node", NodeOf[g]>>
  BY DEF ConfigTypes, IsConfig, IsEntry, Owned
<1>2. DOMAIN C!Untracked(k, g) = DOMAIN cb
  BY DEF C!Untracked
<1>3. DOMAIN cb' = DOMAIN cb
  BY <1>2 DEF Announced
<1>4. CASE k = <<"id", g>>
  <2>1. k[1] = "id" /\ k # <<"node", NodeOf[g]>>
    BY <1>4
  <2>2. /\ C!Untracked(k, g)[k] = cb[k]
        /\ cb'[k] = [[cb[k] EXCEPT !.tid = t] EXCEPT !.applied = @ \/ done]
    <3>1. C!Untracked(k, g)[k] = cb[k]
      BY <2>1 DEF C!Untracked
    <3> QED BY <1>2, <2>1, <3>1 DEF Announced
  <2>3. /\ DOMAIN cb'[k] = DOMAIN cb[k] /\ cb'[k].attrs = cb[k].attrs /\ cb'[k].tid = t
        /\ cb'[k].matched = cb[k].matched /\ cb'[k].applied = (cb[k].applied \/ done)
    <3>1. PICK e : e = [cb[k] EXCEPT !.tid = t]
      OBVIOUS
    <3>2. /\ DOMAIN e = DOMAIN cb[k] /\ DOMAIN e = {"attrs", "tid", "matched", "applied"}
          /\ e.attrs = cb[k].attrs /\ e.tid = t /\ e.matched = cb[k].matched /\ e.applied = cb[k].applied
      BY <1>1, <3>1 DEF IsEntry
    <3>3. cb'[k] = [e EXCEPT !.applied = @ \/ done]
      BY <2>2, <3>1
    <3> QED BY <3>2, <3>3
  <2>4. ASSUME NEW j \in DOMAIN cb, j # k, j # <<"node", NodeOf[g]>> PROVE cb'[j] = cb[j]
    <3>1. C!Untracked(k, g)[j] = cb[j]
      BY <2>4 DEF C!Untracked
    <3> QED BY <1>2, <2>4, <3>1 DEF Announced
  <2>5. ASSUME NEW j \in DOMAIN cb, j = <<"node", NodeOf[g]>>
        PROVE  /\ DOMAIN cb'[j] = DOMAIN cb[j] /\ cb'[j].attrs = cb[j].attrs /\ cb'[j].tid = cb[j].tid
               /\ cb'[j].applied = cb[j].applied
               /\ DOMAIN cb'[j].matched = DOMAIN cb[j].matched \ {g}
               /\ \A h \in DOMAIN cb[j].matched \ {g} : cb'[j].matched[h] = cb[j].matched[h]
    <3>1. C!Untracked(k, g)[j] = [cb[j] EXCEPT !.matched = C!Restrict(@, DOMAIN @ \ {g})]
      BY <2>1, <2>5 DEF C!Untracked
    <3>2. cb'[j] = [cb[j] EXCEPT !.matched = C!Restrict(cb[j].matched, DOMAIN cb[j].matched \ {g})]
      BY <1>2, <2>1, <2>5, <3>1 DEF Announced
    <3>3. /\ DOMAIN C!Restrict(cb[j].matched, DOMAIN cb[j].matched \ {g}) = DOMAIN cb[j].matched \ {g}
          /\ \A h \in DOMAIN cb[j].matched \ {g} :
                C!Restrict(cb[j].matched, DOMAIN cb[j].matched \ {g})[h] = cb[j].matched[h]
      BY DEF C!Restrict
    <3>4. IsEntry(cb[j])
      BY <1>1
    <3> QED BY <3>2, <3>3, <3>4 DEF IsEntry
  <2>6. ASSUME NEW j \in DOMAIN cb
        PROVE  /\ DOMAIN cb'[j] = DOMAIN cb[j] /\ cb'[j].attrs = cb[j].attrs
               /\ cb'[j].applied = (cb[j].applied \/ (j = k /\ done))
               /\ cb'[j].tid = IF j = k THEN t ELSE cb[j].tid
               /\ DOMAIN cb'[j].matched = DOMAIN cb[j].matched \ {g}
               /\ \A h \in DOMAIN cb[j].matched \ {g} : cb'[j].matched[h] = cb[j].matched[h]
    <3>1. CASE j = k
      BY <1>1, <2>1, <2>3, <3>1
    <3>2. CASE j # k /\ j = <<"node", NodeOf[g]>>
      BY <1>1, <2>5, <3>2
    <3>3. CASE j # k /\ j # <<"node", NodeOf[g]>>
      BY <1>1, <2>4, <3>3
    <3> QED BY <3>1, <3>2, <3>3
  <2>7. \A j \in DOMAIN cb : IsEntry(cb'[j])
    <3>1. t \in 1 .. lastTid
      OBVIOUS
    <3>2. ASSUME NEW j \in DOMAIN cb PROVE cb'[j].applied \in BOOLEAN
      <4>1. cb'[j].applied = (cb[j].applied \/ (j = k /\ done))
        BY <2>6
      <4> QED BY <4>1
    <3> QED BY <1>1, <2>6, <3>1, <3>2 DEF IsEntry
  <2> QED BY <1>3, <1>4, <2>1, <2>6, <2>7 DEF Taken
<1>5. CASE k = <<"node", NodeOf[g]>>
  <2>1. k[1] = "node" /\ k # <<"id", g>>
    BY <1>5
  <2>2. \A j \in DOMAIN cb : C!Untracked(k, g)[j] = cb[j]
    BY <2>1 DEF C!Untracked
  <2>3. /\ \A j \in DOMAIN cb \ {k} : cb'[j] = cb[j]
        /\ cb'[k] = [[cb[k] EXCEPT !.matched = C!Matched(cb[k].matched, g, t)] EXCEPT !.applied = @ \/ done]
    BY <1>2, <2>1, <2>2 DEF Announced
  <2>4. /\ DOMAIN C!Matched(cb[k].matched, g, t) = DOMAIN cb[k].matched \cup {g}
        /\ C!Matched(cb[k].matched, g, t)[g] = t
        /\ \A h \in DOMAIN cb[k].matched \ {g} : C!Matched(cb[k].matched, g, t)[h] = cb[k].matched[h]
    BY DEF C!Matched
  <2>5. /\ DOMAIN cb'[k] = DOMAIN cb[k] /\ cb'[k].attrs = cb[k].attrs /\ cb'[k].tid = cb[k].tid
        /\ cb'[k].matched = C!Matched(cb[k].matched, g, t) /\ cb'[k].applied = (cb[k].applied \/ done)
    <3>1. PICK m : m = C!Matched(cb[k].matched, g, t)
      OBVIOUS
    <3>2. PICK e : e = [cb[k] EXCEPT !.matched = m]
      OBVIOUS
    <3>3. /\ DOMAIN e = DOMAIN cb[k] /\ DOMAIN e = {"attrs", "tid", "matched", "applied"}
          /\ e.attrs = cb[k].attrs /\ e.tid = cb[k].tid /\ e.matched = m /\ e.applied = cb[k].applied
      BY <1>1, <3>2 DEF IsEntry
    <3>4. cb'[k] = [e EXCEPT !.applied = @ \/ done]
      BY <2>3, <3>1, <3>2
    <3> QED BY <3>1, <3>3, <3>4
  <2>6. IsEntry(cb'[k])
    BY <1>1, <2>4, <2>5 DEF IsEntry
  <2>7. ASSUME NEW j \in DOMAIN cb, j # k
        PROVE  /\ IsEntry(cb'[j]) /\ cb'[j] = cb[j] /\ g \notin DOMAIN cb'[j].matched
    BY <1>1, <1>5, <2>3, <2>7
  <2>8. ASSUME NEW h \in Groups \ {g}
        PROVE  /\ h \in DOMAIN cb'[k].matched <=> h \in DOMAIN cb[k].matched
               /\ h \in DOMAIN cb[k].matched => cb'[k].matched[h] = cb[k].matched[h]
    BY <2>4, <2>5
  <2>9. g \in DOMAIN cb'[k].matched /\ cb'[k].matched[g] = t
    BY <2>4, <2>5
  <2>10. ASSUME NEW j \in DOMAIN cb
         PROVE  /\ IsEntry(cb'[j]) /\ cb'[j].attrs = cb[j].attrs
                /\ cb'[j].applied = (cb[j].applied \/ (j = k /\ done))
                /\ cb'[j].tid = cb[j].tid
                /\ \A h \in Groups \ {g} :
                      /\ h \in DOMAIN cb'[j].matched <=> h \in DOMAIN cb[j].matched
                      /\ h \in DOMAIN cb[j].matched => cb'[j].matched[h] = cb[j].matched[h]
                /\ g \in DOMAIN cb'[j].matched => j = k /\ cb'[j].matched[g] = t
                /\ j = k => g \in DOMAIN cb'[j].matched
    <3>1. CASE j = k
      BY <2>5, <2>6, <2>8, <2>9, <3>1
    <3>2. CASE j # k
      BY <1>1, <2>7, <3>2
    <3> QED BY <3>1, <3>2
  <2> QED BY <1>3, <1>5, <2>1, <2>10 DEF Taken
<1> QED BY <1>4, <1>5 DEF C!EntryFor

\* The callback of the topic: the entry in charge of the group has the thread.
LEMMA CallbackGroupKeeps ==
  ASSUME NEW owner, ConfigInv(owner), NEW Failing, C!CallbackGroupCallback(Failing)
  PROVE  ConfigInv(owner)'
<1> PICK g, t, k : g = Head(topic).who /\ t = Head(topic).tid /\ k = C!EntryFor(g)
  OBVIOUS
<1>0. /\ configPc = "idle" /\ topic # <<>> /\ topic' = Tail(topic)
      /\ UNCHANGED <<file, nrt, configPc, parsed, configTodo, thread, socket, lastTid>>
  BY DEF C!CallbackGroupCallback
<1>1. /\ ConfigTypes /\ Owned(owner) /\ Recorded /\ Counted /\ Obeyed /\ lastTid \in Nat
      /\ IsConfig(cb) /\ IsConfig(nrt)
  BY DEF ConfigInv, ConfigTypes
<1>2. /\ g \in Groups /\ t \in 1 .. lastTid /\ owner[t] = g
      /\ topic' \in Seq([who : Groups, tid : Int])
      /\ \A i \in DOMAIN topic' : i + 1 \in DOMAIN topic /\ topic'[i] = topic[i + 1]
  <2>1. /\ topic \in Seq([who : Groups, tid : Int])
        /\ \A i \in DOMAIN topic : topic[i].tid \in 1 .. lastTid /\ owner[topic[i].tid] = topic[i].who
    BY DEF ConfigInv, ConfigTypes, Owned
  <2> QED BY <1>0, <2>1, QueueShrinks
<1>3. /\ \A i \in DOMAIN topic' : topic'[i].tid \in 1 .. lastTid /\ owner[topic'[i].tid] = topic'[i].who
  BY <1>1, <1>2 DEF ConfigTypes, Owned
<1>4. CASE k \notin DOMAIN cb
  <2>1. UNCHANGED <<cb, unapplied, sched, known, refused>>
    BY <1>4 DEF C!CallbackGroupCallback
  <2>2. ConfigTypes'
    BY <1>0, <1>1, <1>2, <1>3, <2>1 DEF ConfigTypes, IsConfig, IsEntry, IsFresh
  <2>3. Owned(owner)' /\ Recorded'
    BY <1>0, <1>1, <1>3, <2>1 DEF Owned, Recorded, On
  <2>4. Counted' /\ Obeyed'
    BY <1>0, <1>1, <2>1 DEF Counted, Obeyed, Obeys, On, C!Alive, C!Unapplied
  <2> QED BY <2>2, <2>3, <2>4 DEF ConfigInv
<1>5. CASE k \in DOMAIN cb
  <2> DEFINE jobs == [u \in {t} |-> cb[k].attrs]
  <2> PICK done : done = (Failing = {})
    OBVIOUS
  <2>1. /\ Failing \subseteq {t} /\ C!IssueSyscalls(jobs, Failing)
        /\ cb' = Announced(k, g, t, done)
        /\ unapplied' = IF done /\ ~cb[k].applied THEN unapplied - 1 ELSE unapplied
        /\ known' = [known EXCEPT ![g] = t]
    BY <1>5 DEF C!CallbackGroupCallback, Announced
  <2>2. DOMAIN jobs = {t} /\ jobs[t] = cb[k].attrs
    OBVIOUS
  <2> HIDE DEF jobs
  <2>3. /\ DOMAIN cb' = DOMAIN cb
        /\ \A j \in DOMAIN cb :
              /\ IsEntry(cb'[j]) /\ cb'[j].attrs = cb[j].attrs
              /\ cb'[j].applied = (cb[j].applied \/ (j = k /\ done))
              /\ cb'[j].tid = IF j = k /\ k = <<"id", g>> THEN t ELSE cb[j].tid
              /\ \A h \in Groups \ {g} :
                    /\ h \in DOMAIN cb'[j].matched <=> h \in DOMAIN cb[j].matched
                    /\ h \in DOMAIN cb[j].matched => cb'[j].matched[h] = cb[j].matched[h]
              /\ g \in DOMAIN cb'[j].matched =>
                    j = k /\ k = <<"node", NodeOf[g]>> /\ cb'[j].matched[g] = t
              /\ j = k /\ k = <<"node", NodeOf[g]>> => g \in DOMAIN cb'[j].matched
    <3>1. done \in BOOLEAN
      OBVIOUS
    <3>2. cb' = Announced(k, g, t, done)
      BY <2>1
    <3>3. Taken(cb, cb', g, t, k, done)
      BY <1>1, <1>2, <1>5, <3>1, <3>2, AnnouncedIs
    <3> QED BY <3>3 DEF Taken
  <2>4. (k = <<"id", g>> \/ (k = <<"node", NodeOf[g]>> /\ <<"id", g>> \notin DOMAIN cb))
    BY DEF C!EntryFor
  <2>5. \A j \in DOMAIN cb : IsEntry(cb[j])
    BY <1>1 DEF IsConfig
  <2>6. \A j \in DOMAIN cb :
          /\ cb[j].tid # C!None => owner[cb[j].tid] \in Groups /\ j = <<"id", owner[cb[j].tid]>>
          /\ \A h \in DOMAIN cb[j].matched : owner[cb[j].matched[h]] = h /\ j = <<"node", NodeOf[h]>>
    BY <1>1 DEF Owned
  <2>7. t \in On(cb'[k])
    <3>1. t # C!None
      BY <1>1, <1>2 DEF C!None
    <3> QED BY <1>5, <2>3, <2>4, <3>1 DEF On
  <2>8. ASSUME NEW j \in DOMAIN cb, NEW u \in On(cb'[j])
        PROVE  (u = t /\ j = k) \/ (u # t /\ u \in On(cb[j]))
    <3>1. CASE u = cb'[j].tid /\ u # C!None
      <4>1. CASE j = k /\ k = <<"id", g>>
        BY <2>3, <3>1, <4>1
      <4>2. CASE ~(j = k /\ k = <<"id", g>>)
        <5>1. u = cb[j].tid
          BY <2>3, <3>1, <4>2
        <5>2. j = <<"id", owner[u]>>
          BY <2>6, <3>1, <5>1
        <5>3. u # t
          BY <1>2, <2>4, <4>2, <5>2
        <5> QED BY <3>1, <5>1, <5>3 DEF On
      <4> QED BY <4>1, <4>2
    <3>2. ASSUME NEW h \in DOMAIN cb'[j].matched, u = cb'[j].matched[h]
          PROVE  (u = t /\ j = k) \/ (u # t /\ u \in On(cb[j]))
      <4>1. h \in Groups
        BY <2>3 DEF IsEntry
      <4>2. CASE h = g
        BY <2>3, <3>2, <4>2
      <4>3. CASE h # g
        <5>1. h \in DOMAIN cb[j].matched /\ u = cb[j].matched[h]
          BY <2>3, <3>2, <4>1, <4>3
        <5>2. owner[u] = h
          BY <2>6, <5>1
        <5> QED BY <1>2, <4>3, <5>1, <5>2 DEF On
      <4> QED BY <4>2, <4>3
    <3> QED BY <3>1, <3>2 DEF On
  <2>9. ASSUME NEW j \in DOMAIN cb, NEW u \in On(cb[j]), owner[u] # g
        PROVE  u \in On(cb'[j])
    <3>1. CASE u = cb[j].tid /\ u # C!None
      BY <2>3, <2>6, <2>9, <3>1 DEF On
    <3>2. ASSUME NEW h \in DOMAIN cb[j].matched, u = cb[j].matched[h] PROVE u \in On(cb'[j])
      <4>1. h \in Groups \ {g}
        BY <2>5, <2>6, <2>9, <3>2 DEF IsEntry
      <4>2. h \in DOMAIN cb'[j].matched /\ cb'[j].matched[h] = u
        BY <2>3, <3>2, <4>1
      <4> QED BY <4>2 DEF On
    <3> QED BY <3>1, <3>2 DEF On
  <2>10. DOMAIN sched' = DOMAIN sched /\ DOMAIN sched = 1 .. lastTid
    BY <1>1, <2>1, <2>2, CallsSet DEF ConfigTypes
  <2>11. /\ known' \in [Groups \cup ThreadNames -> {C!None} \cup 1 .. lastTid]
         /\ known'[g] = t /\ \A x \in Groups \cup ThreadNames : x # g => known'[x] = known[x]
    BY <1>1, <1>2, <2>1 DEF ConfigTypes
  <2>12. ConfigTypes'
    <3>1. IsConfig(cb)' /\ IsConfig(nrt)'
      BY <1>0, <1>1, <2>3 DEF IsConfig, IsEntry
    <3>2. unapplied' \in Int
      BY <1>1, <2>1 DEF ConfigTypes
    <3> QED BY <1>0, <1>1, <1>2, <1>3, <2>10, <2>11, <3>1, <3>2 DEF ConfigTypes
  <2>13. Owned(owner)'
    <3>1. \A x \in Groups \cup ThreadNames : known'[x] # C!None => owner[known'[x]] = x
      BY <1>1, <1>2, <2>11 DEF Owned
    <3>2. ASSUME NEW j \in DOMAIN cb, cb'[j].tid # C!None
          PROVE  owner[cb'[j].tid] \in Groups /\ j = <<"id", owner[cb'[j].tid]>>
      BY <1>2, <2>3, <2>6, <3>2
    <3>3. ASSUME NEW j \in DOMAIN cb, NEW h \in DOMAIN cb'[j].matched
          PROVE  owner[cb'[j].matched[h]] = h /\ j = <<"node", NodeOf[h]>>
      <4>1. h \in Groups
        BY <2>3 DEF IsEntry
      <4>2. CASE h = g
        BY <1>2, <2>3, <4>2
      <4>3. CASE h # g
        BY <2>3, <2>6, <4>1, <4>3
      <4> QED BY <4>2, <4>3
    <3> QED BY <1>0, <1>1, <1>3, <2>3, <3>1, <3>2, <3>3 DEF Owned
  <2>14. Recorded'
    <3>1. ASSUME NEW h \in Groups, <<"id", h>> \in DOMAIN cb, cb'[<<"id", h>>].tid # C!None, NEW j \in DOMAIN cb
          PROVE  h \notin DOMAIN cb'[j].matched
      <4>1. CASE h = g
        BY <2>3, <2>4, <3>1, <4>1
      <4>2. CASE h # g
        <5>1. cb[<<"id", h>>].tid # C!None
          BY <2>3, <3>1, <4>2
        <5>2. h \notin DOMAIN cb[j].matched
          BY <1>1, <3>1, <5>1 DEF Recorded
        <5> QED BY <2>3, <4>2, <5>2
      <4> QED BY <4>1, <4>2
    <3>2. ASSUME NEW h \in Groups, known'[h] # C!None PROVE \E j \in DOMAIN cb' : known'[h] \in On(cb'[j])
      <4>1. CASE h = g
        BY <1>5, <2>3, <2>7, <2>11, <4>1
      <4>2. CASE h # g
        <5>1. known'[h] = known[h] /\ owner[known[h]] = h
          BY <1>1, <2>11, <3>2, <4>2 DEF Owned
        <5>2. PICK j \in DOMAIN cb : known[h] \in On(cb[j])
          BY <1>1, <3>2, <5>1 DEF Recorded
        <5> QED BY <2>3, <2>9, <4>2, <5>1, <5>2
      <4> QED BY <4>1, <4>2
    <3>3. \A n \in ThreadNames : known'[n] # C!None => n \in DOMAIN nrt /\ nrt[n].tid = known'[n]
      BY <1>1, <1>2, <2>11, ConfigAssumption DEF Recorded
    <3> QED BY <1>0, <2>3, <3>1, <3>2, <3>3 DEF Recorded
  <2>15. Counted'
    <3>0. IsFiniteSet(DOMAIN cb) /\ IsFiniteSet(DOMAIN nrt)
      BY <1>1 DEF IsConfig
    <3>1. /\ C!Unapplied(cb) \in Nat /\ C!Unapplied(nrt) \in Nat
          /\ unapplied = C!Unapplied(cb) + C!Unapplied(nrt)
      BY <1>0, <1>1, <3>0, CountType DEF Counted
    <3>2. unapplied' = C!Unapplied(cb') + C!Unapplied(nrt)
      <4>1. CASE done /\ ~cb[k].applied
        <5>1. cb'[k].applied /\ \A j \in DOMAIN cb \ {k} : cb'[j].applied = cb[j].applied
          BY <1>5, <2>3, <2>5, <4>1 DEF IsEntry
        <5>2. C!Unapplied(cb') = C!Unapplied(cb) - 1
          BY <1>5, <2>3, <3>0, <4>1, <5>1, CountOne
        <5> QED BY <5>2, <2>1, <3>1, <4>1, <5>1
      <4>2. CASE ~(done /\ ~cb[k].applied)
        <5>1. \A j \in DOMAIN cb : cb'[j].applied = cb[j].applied
          BY <2>3, <2>5, <4>2 DEF IsEntry
        <5>2. C!Unapplied(cb') = C!Unapplied(cb)
          BY <2>3, <5>1, CountSame
        <5> QED BY <2>1, <3>1, <4>2, <5>2
      <4> QED BY <4>1, <4>2
    <3> QED BY <1>0, <3>2 DEF Counted
  <2>16. Obeyed'
    <3>0. \A u : C!Alive(u)' <=> C!Alive(u)
      BY <1>0 DEF C!Alive
    <3>1. ASSUME NEW j \in DOMAIN cb PROVE Obeys(cb[j])'
      <4>1. PICK e : e = cb'[j]
        OBVIOUS
      <4>2. Obeys(cb[j]) /\ On(cb[j]) \subseteq 1 .. lastTid
        BY <1>0, <1>1, OneRecord DEF Obeyed
      <4>3. \A u \in On(e) :
              \/ u \in DOMAIN jobs /\ jobs[u] = e.attrs
              \/ u \notin DOMAIN jobs /\ (u \in refused \/ (C!Alive(u) => sched[u] = e.attrs))
        BY <2>2, <2>3, <2>8, <4>1, <4>2 DEF Obeys
      <4>4. On(e) \subseteq DOMAIN sched
        BY <1>2, <2>8, <2>10, <4>1, <4>2
      <4>5. Failing \subseteq DOMAIN jobs /\ UNCHANGED thread
        BY <1>0, <2>1, <2>2
      <4>6. \A u \in On(e) \ refused' : C!Alive(u) => sched'[u] = e.attrs
        BY <2>1, <4>3, <4>4, <4>5, CallsObeyed
      <4> QED BY <3>0, <4>1, <4>6 DEF Obeys, On
    <3>2. ASSUME NEW n \in DOMAIN nrt PROVE Obeys(nrt[n])'
      <4>1. Obeys(nrt[n])
        BY <1>0, <1>1 DEF Obeyed
      <4>2. On(nrt[n]) = {nrt[n].tid} \ {C!None} /\ On(nrt[n]) \subseteq DOMAIN sched
        BY <1>1, <2>10, OneRecord
      <4>3. t \notin On(nrt[n])
        BY <1>1, <1>2, <4>2, ConfigAssumption DEF Owned
      <4>4. \A u \in On(nrt[n]) : u \notin DOMAIN jobs /\ (u \in refused \/ (C!Alive(u) => sched[u] = nrt[n].attrs))
        BY <2>2, <4>1, <4>3 DEF Obeys
      <4>5. Failing \subseteq DOMAIN jobs /\ UNCHANGED thread
        BY <1>0, <2>1, <2>2
      <4>6. \A u \in On(nrt[n]) \ refused' : C!Alive(u) => sched'[u] = nrt[n].attrs
        BY <2>1, <4>2, <4>4, <4>5, CallsObeyed
      <4> QED BY <1>0, <3>0, <4>6 DEF Obeys, On
    <3> QED BY <1>0, <2>3, <3>1, <3>2 DEF Obeyed
  <2> QED BY <2>12, <2>13, <2>14, <2>15, <2>16 DEF ConfigInv
<1> QED BY <1>4, <1>5

\* Threads have owners for which the invariant holds.
ConfigHolds == \E owner : ConfigInv(owner)

\* Every step keeps the invariant.
LEMMA ConfigSteps == ConfigHolds /\ C!Next => ConfigHolds'
<1> SUFFICES ASSUME NEW owner, ConfigInv(owner), C!Next PROVE \E o : ConfigInv(o)'
  BY DEF ConfigHolds
<1>1. ASSUME NEW g \in Groups, C!StartGroup(g) PROVE \E o : ConfigInv(o)'
  BY <1>1, ThreadStartKeeps DEF C!StartGroup
<1>2. ASSUME NEW n \in ThreadNames, C!StartThread(n) PROVE \E o : ConfigInv(o)'
  BY <1>2, ThreadStartKeeps DEF C!StartThread
<1>3. ASSUME NEW f \in Files, C!EditFile(f) PROVE ConfigInv(owner)'
  BY <1>3, EditFileKeeps
<1>4. ASSUME NEW F, C!CallbackGroupCallback(F) PROVE ConfigInv(owner)'
  BY <1>4, CallbackGroupKeeps
<1>5. ASSUME NEW F, C!NonRosThreadCallback(F) PROVE ConfigInv(owner)'
  BY <1>5, NonRosKeeps
<1>6. ASSUME NEW F, C!ReapplyGroup(F) PROVE ConfigInv(owner)'
  BY <1>6, ReapplyGroupKeeps
<1>7. ASSUME NEW F, C!ReapplyNonRos(F) PROVE ConfigInv(owner)'
  BY <1>7, ReapplyNonRosKeeps
<1>8. C!ReapplyLoad \/ C!ReapplySwapNonRos => ConfigInv(owner)'
  BY ReapplyLoadKeeps, ReapplySwapKeeps
<1> QED BY <1>1, <1>2, <1>3, <1>4, <1>5, <1>6, <1>7, <1>8 DEF C!Next

\* The invariant says what becomes of announcements.
LEMMA ConfigSays == ConfigHolds => AnnouncementsKept
<1> SUFFICES ASSUME NEW owner, ConfigInv(owner) PROVE AnnouncementsKept
  BY DEF ConfigHolds
<1>1. C!CountExact
  BY DEF ConfigInv, Counted, C!CountExact
<1>2. \A e : DOMAIN C!Jobs(e) = On(e)
  BY JobsAre
<1>3. C!NoAnnouncementDropped
  BY <1>2 DEF ConfigInv, Recorded, C!NoAnnouncementDropped
<1>4. C!Governed
  <2>1. \A f : (\A k \in DOMAIN f : Obeys(f[k])) => C!Obeyed(f)
    BY <1>2 DEF Obeys, C!Obeyed
  <2>2. configPc = "idle" => C!Obeyed(cb) /\ C!Obeyed(nrt)
    BY <2>1 DEF ConfigInv, Obeyed
  <2> QED BY <2>2 DEF ConfigInv, Recorded, C!Governed
<1> QED BY <1>1, <1>3, <1>4 DEF AnnouncementsKept

\* Whatever threads start, announce themselves or are refused, and however the listeners
\* and a reapply of the file interleave: the count of entries not applied is right outside
\* the swap, the last thread a configured group or name announced stays on record, a
\* thread is in the hands of one entry, and between reapplies every live thread on record
\* runs with what its entry says unless its last system call was refused
\* (callback_group_callback, non_ros_thread_callback, on_reapply_config_request).
THEOREM AnnouncementsHandled == ToolsSpec => []AnnouncementsKept
<1>1. ToolsInit => ConfigHolds
  BY ConfigStarts DEF ToolsInit, ConfigHolds
<1>2. ConfigHolds /\ [ToolsNext]_toolsVars => ConfigHolds'
  <2> SUFFICES ASSUME NEW owner, ConfigInv(owner), [ToolsNext]_toolsVars PROVE ConfigHolds'
    BY DEF ConfigHolds
  <2>1. CASE C!Next
    BY <2>1, ConfigSteps DEF ConfigHolds
  <2>2. CASE UNCHANGED configVars
    BY <2>2, ConfigStutters DEF ConfigHolds
  <2> QED BY <2>1, <2>2 DEF ToolsNext, toolsVars
<1> QED BY <1>1, <1>2, ConfigSays, PTL DEF ToolsSpec, toolsVars

=============================================================================
