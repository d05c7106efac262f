------------------------- MODULE MCTakeSubscription -------------------------
(* Instances of TakeSubscription for TLC.                                  *)
EXTENDS TakeSubscription

CONSTANTS t1, t2

TwoThreads == {t1, t2}

\* Two threads that take the same message.
Concurrent == {[takers |-> TwoThreads, modes |-> {TRUE}]}
=============================================================================
