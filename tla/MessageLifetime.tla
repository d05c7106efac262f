-------------------------- MODULE MessageLifetime --------------------------
(***************************************************************************)
(* What zero-copy publish/subscribe promises its users: messages come to   *)
(* life, readers claim live messages and let go of them, and a message is  *)
(* reclaimed only while nobody has a claim to it.                          *)
(***************************************************************************)
CONSTANTS Messages, Readers

VARIABLES live, claims

lifetimeVars == <<live, claims>>

Claimed == {c[2] : c \in claims}

Init == live = {} /\ claims = {}

\* A new message appears; messages nobody has a claim to may make room.
Appear ==
  /\ \E m \in Messages \ live : \E gone \in SUBSET (live \ Claimed) :
       live' = (live \ gone) \cup {m}
  /\ UNCHANGED claims

Reclaim ==
  /\ \E gone \in SUBSET (live \ Claimed) : live' = live \ gone
  /\ UNCHANGED claims

Claim ==
  /\ \E r \in Readers : \E ms \in SUBSET live :
       claims' = claims \cup {<<r, m>> : m \in ms}
  /\ UNCHANGED live

LetGo ==
  /\ \E dropped \in SUBSET claims : claims' = claims \ dropped
  /\ UNCHANGED live

Next == Appear \/ Reclaim \/ Claim \/ LetGo

Spec == Init /\ [][Next]_lifetimeVars
=============================================================================
