------------------------------ MODULE Readiness ------------------------------
(* /readyz (server.go): the cached readiness result, and the one check at a   *)
(* time that renews it on behalf of every probe that waits for it.  A probe   *)
(* is a request under the transfer limits, so its own context may end while   *)
(* others wait for the check it leads.                                        *)
EXTENDS Transfers

CONSTANTS ReadinessCacheTTL, ReadinessCheckTimeout

ASSUME ReadinessAssumption == ReadinessCacheTTL \in Nat /\ ReadinessCheckTimeout \in Nat

VARIABLES probe,      \* where each request is in cachedReadiness
          cache,      \* the last result: whether it failed, why, and its age
          flight      \* the singleflight call

readinessVars == <<probe, cache, flight>>

NoFlight == [phase |-> "none", leader |-> {}, failed |-> FALSE, outage |-> FALSE, left |-> 0]

NoResult == [valid |-> FALSE, failed |-> FALSE, outage |-> FALSE, age |-> 0]

ReadinessInit ==
  /\ probe = [r \in Requests |-> "none"]
  /\ cache = NoResult
  /\ flight = NoFlight

-----------------------------------------------------------------------------
readinessCacheAt == cache.valid /\ cache.age < ReadinessCacheTTL

Verdict(failed) == IF failed THEN "notReady" ELSE "ready"

(* The first look at the cache. *)
Ask(r) ==
  /\ probe[r] = "none"
  /\ probe' = [probe EXCEPT ![r] = IF readinessCacheAt THEN Verdict(cache.failed)
                                                       ELSE "missed"]
  /\ UNCHANGED <<cache, flight>>

(* readinessSF.Do: lead a call, or wait for the one that is running. *)
Join(r) ==
  /\ probe[r] = "missed"
  /\ probe' = [probe EXCEPT ![r] = "waiting"]
  /\ IF flight.phase = "none"
     THEN flight' = [NoFlight EXCEPT !.phase = "begin", !.leader = {r}]
     ELSE UNCHANGED flight
  /\ UNCHANGED cache

Answer(failed) ==
  /\ probe' = [r \in Requests |-> IF probe[r] = "waiting" THEN Verdict(failed)
                                                          ELSE probe[r]]
  /\ flight' = NoFlight

(* The call looks at the cache again before it checks anything. *)
Begin ==
  /\ flight.phase = "begin"
  /\ IF readinessCacheAt
     THEN Answer(cache.failed)
     ELSE /\ flight' = [flight EXCEPT !.phase = "ldap", !.left = ReadinessCheckTimeout]
          /\ UNCHANGED probe
  /\ UNCHANGED cache

(* checkCtx: detached from the leader, bounded by its own timeout. *)
CheckCtxOfLeader == flight.left = 0 \/ \E r \in flight.leader : cancelled[r]
CheckCtxDone == flight.left = 0

(* checkLDAPReady and checkS3Ready, one after the other.  A backend that is  *)
(* down refuses at once or hangs until the timeout.                          *)
CheckBackend(b, next, down) ==
  /\ flight.phase = b
  /\ flight' = [flight EXCEPT !.phase = next,
                  !.failed = @ \/ down \/ CheckCtxDone,
                  !.outage = @ \/ down \/ flight.left = 0]
  /\ UNCHANGED <<probe, cache>>

checkReady ==
  \E down \in BOOLEAN : CheckBackend("ldap", "s3", down) \/ CheckBackend("s3", "store", down)

(* The result is stored with the time the check ended, then shared. *)
StoreOutcome ==
  /\ flight.phase = "store"
  /\ cache' = [valid |-> TRUE, failed |-> flight.failed, outage |-> flight.outage, age |-> 0]
  /\ Answer(flight.failed)

ReadinessTick ==
  /\ cache' = [cache EXCEPT !.age = IF @ < ReadinessCacheTTL THEN @ + 1 ELSE @]
  /\ flight' = [flight EXCEPT !.left = IF @ > 0 THEN @ - 1 ELSE 0]
  /\ UNCHANGED probe

CheckStep == Begin \/ checkReady \/ StoreOutcome

-----------------------------------------------------------------------------
(* A result that says "not ready" is due to a backend that was down, or too  *)
(* slow, during the check: a probe that goes away while it leads the check   *)
(* does not make the instance unready for everyone else.                     *)
NotReadyMeansOutage ==
  (cache.failed => cache.outage) /\ (flight.failed => flight.outage)
=============================================================================
