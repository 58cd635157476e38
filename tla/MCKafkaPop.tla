----------------------------- MODULE MCKafkaPop -----------------------------
(* Model checking of KafkaPop on three calls, two keys and two shutdowns.    *)
EXTENDS KafkaPop

CONSTANTS p1, p2, p3, s1, s2, k1, k2, c1, c2, c3

MCCalls == {p1, p2, p3}
MCShutdowns == {s1, s2}
MCKeys == {k1, k2}
MCClients == {c1, c2, c3}

(* Calls, shutdowns, keys and clients are interchangeable: it is enough to   *)
(* look at the behaviours in which they come in the order of their names.    *)
(* No fairness is assumed of an arrival, so no liveness rests on the order.  *)
ArrivalOrder ==
  /\ pc'[p2] # "start" => pc'[p1] # "start"
  /\ pc'[p3] # "start" => pc'[p2] # "start"
  /\ shut'[s2] # "start" => shut'[s1] # "start"
  /\ client'[c2] # "absent" => client'[c1] # "absent"
  /\ client'[c3] # "absent" => client'[c2] # "absent"
  /\ key'[c1] # k2
=============================================================================
