---------------------------- MODULE MCSplunkHEC ----------------------------
(* Instances of SplunkHEC for TLC. *)
EXTENDS SplunkHEC

(* Events of one and two bytes: when the queue is nearly full a large event is *)
(* dropped and a later small one still fits.                                   *)
MCSize == [e \in 1 .. NumEvents |-> IF e % 3 = 2 THEN 2 ELSE 1]
=============================================================================
