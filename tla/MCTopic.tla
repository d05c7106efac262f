------------------------------ MODULE MCTopic ------------------------------
(***************************************************************************)
(* Small instances of Topic for TLC.                                       *)
(***************************************************************************)
EXTENDS Topic, TLC

CONSTANTS p1, p2

OneDomain == [p \in Pids |-> 0]
TwoDomains == [p \in Pids |-> IF p = p1 THEN 0 ELSE 1]
Grouped == {0, 1}
Single == {0}
ZeroToOne == {<<0, 1>>}
NoCrossing == {}

Pub(d, br) == [depth |-> d, bridge |-> br]
Sub(d, tl, take, ign, br) ==
  [depth |-> d, tl |-> tl, take |-> take, ignoreLocal |-> ign, bridge |-> br]

PubDepth1 == {Pub(1, FALSE)}
PubWithBridge == {Pub(1, FALSE), Pub(1, TRUE)}

SubVolatile == {Sub(2, FALSE, FALSE, FALSE, FALSE)}
SubTransientLocal == {Sub(2, TRUE, FALSE, FALSE, FALSE)}
SubTakeOrIgnoreLocal == {Sub(1, FALSE, TRUE, FALSE, FALSE),
                         Sub(2, TRUE, FALSE, TRUE, FALSE)}
Symmetry == Permutations(Pids)
=============================================================================
