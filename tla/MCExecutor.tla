----------------------------- MODULE MCExecutor -----------------------------
(* An executor with two threads; a subscription and a timer share an         *)
(* exclusive group, another subscription has a group added by hand.          *)
EXTENDS Executor, TLC

CONSTANTS x1, t1, t2, g1, g2, s1, tm

MCExecOf == t1 :> x1 @@ t2 :> x1
MCGroupOf == s1 :> g1 @@ tm :> g2
MCSymmetry == Permutations(Threads)
=============================================================================
