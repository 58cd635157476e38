------------------------------ MODULE Admission ------------------------------
(***************************************************************************)
(* What the authentication limiter promises to the code behind it: a       *)
(* permit is granted or refused at once, and at most Capacity permits are  *)
(* held at any time.                                                       *)
(***************************************************************************)
EXTENDS Naturals, FiniteSets

CONSTANTS Holders, Capacity
VARIABLE held

Init == held = {}

Grant(h) ==
  /\ h \in Holders \ held
  /\ Cardinality(held) < Capacity
  /\ held' = held \cup {h}

Refuse(h) == h \in Holders \ held /\ UNCHANGED held

Release(h) == h \in held /\ held' = held \ {h}

Next == \E h \in Holders : Grant(h) \/ Refuse(h) \/ Release(h)

Spec == Init /\ [][Next]_held
=============================================================================
