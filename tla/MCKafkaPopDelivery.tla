------------------------- MODULE MCKafkaPopDelivery -------------------------
(* Model checking of KafkaPopDelivery on two calls for one key.              *)
EXTENDS KafkaPopDelivery

CONSTANTS p1, p2, c1, c2

MCCalls == {p1, p2}
MCClients == {c1, c2}

(* Calls and clients are interchangeable: it is enough to look at the        *)
(* behaviours in which they come in the order of their names.  No fairness   *)
(* is assumed of an arrival, so no liveness rests on the order.              *)
ArrivalOrder ==
  /\ pc'[p2] # "start" => pc'[p1] # "start"
  /\ client'[c2] # "absent" => client'[c1] # "absent"
=============================================================================
