---------------------------- MODULE MCAuthLimiter ----------------------------
(* Instances of AuthLimiter for TLC. *)
EXTENDS AuthLimiter

CONSTANTS a1, a2, a3, ip1, ip2, u1, u2, c1, c2

Bucket(max, rate, burst) == [max |-> max, rate |-> rate, burst |-> burst]

(* Two attempts from one client for different principals, and one from another *)
(* client for one of them.                                                     *)
MCAttempts == {a1, a2, a3}
MCClientOf == [a \in MCAttempts |-> IF a = a3 THEN ip2 ELSE ip1]
MCPrincipalOf == [a \in MCAttempts |-> IF a = a1 THEN u1 ELSE u2]
MCCredentialOf == [a \in MCAttempts |-> IF a = a1 THEN c1 ELSE c2]

(* One shared slot and one reserved slot for the attempts, and LRU lists that  *)
(* are shorter than, or as long as, the number of clients; and configurations  *)
(* with values below zero, a reserve above the total, and a partial reserve.   *)
MCLimits ==
  {[total |-> Bucket(2, 2, 3), reserved |-> Bucket(1, 1, 1),
    perClient |-> Bucket(2, 1, 2), perPrincipal |-> Bucket(2, 1, 2),
    ingress |-> [rate |-> 0, burst |-> -1], maxKeys |-> keys, trustedTTL |-> 1] :
     keys \in {1, 2}}
  \cup
  {[total |-> Bucket(-1, 0, 1), reserved |-> Bucket(2, 1, 1),
    perClient |-> Bucket(0, 1, -1), perPrincipal |-> Bucket(1, 0, 1),
    ingress |-> [rate |-> 1, burst |-> 2], maxKeys |-> -1, trustedTTL |-> 0],
   [total |-> Bucket(2, 2, 2), reserved |-> Bucket(5, 2, 3),
    perClient |-> Bucket(1, 1, 1), perPrincipal |-> Bucket(1, 1, 1),
    ingress |-> [rate |-> 1, burst |-> 1], maxKeys |-> 1, trustedTTL |-> 1],
   [total |-> Bucket(2, 2, 2), reserved |-> Bucket(1, 0, 1),
    perClient |-> Bucket(1, 1, 1), perPrincipal |-> Bucket(1, 1, 1),
    ingress |-> [rate |-> 1, burst |-> 1], maxKeys |-> 1, trustedTTL |-> 1]}
=============================================================================
