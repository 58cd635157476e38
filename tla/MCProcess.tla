------------------------------ MODULE MCProcess ------------------------------
(* Model checking of Process on two requests.                                 *)
EXTENDS Process

CONSTANTS r1, r2
MCRequests == {r1, r2}

(* A pop is a download that may be interrupted: its behaviours include those *)
(* of a download.                                                            *)
MCKinds == {"pop", "upload", "copy", "login", "probe"}

(* The requests are interchangeable, so it is enough to look at the          *)
(* behaviours in which r1 comes first.  They meet only at the slots and in   *)
(* the readiness check, so that r2 may be of any kind when r1 keeps it from  *)
(* a slot and is a copy or a probe otherwise.  No fairness is assumed of an  *)
(* arrival and no liveness rests on the order.                               *)
Arrivals ==
  /\ stage'[r2] # "absent" => stage'[r1] # "absent"
  /\ kind'[r2] \in {"none", "refused", "copy", "probe"}
=============================================================================
