---------------------------- MODULE ProcessProofs ----------------------------
(***************************************************************************)
(* Proofs about Process for every set of requests, every mix of kinds and  *)
(* every value of the timeouts.                                            *)
(***************************************************************************)
EXTENDS Process, TLAPS

T == TransferIdleTimeout

Stages == {"absent", "running", "returning", "draining", "gone"}

(* The types of what the watchdog works with. *)
TransferTyped ==
  /\ stage \in [Requests -> Stages]
  /\ DOMAIN kind = Requests /\ DOMAIN at = Requests /\ DOMAIN timer = Requests
  /\ DOMAIN deadline = Requests /\ DOMAIN quiet = Requests /\ DOMAIN conn = Requests
  /\ expired \in [Requests -> BOOLEAN]
  /\ cancelled \in [Requests -> BOOLEAN]

(* A handler that runs is in one of its steps. *)
InPlan(r) ==
  /\ stage[r] = "absent" => at[r] = 1
  /\ stage[r] = "running" => kind[r] \in DOMAIN Plan /\ at[r] \in 1 .. Len(Plan[kind[r]])

(* Until it expires, the watchdog's deadline and the time without progress   *)
(* add up to the idle timeout; afterwards nothing the handler does can count *)
(* as progress any more, for its I/O and its context are dead.               *)
Watched(r) ==
  /\ stage[r] \in {"absent", "gone"} => ~expired[r]
  /\ stage[r] = "absent" => quiet[r] = 0 /\ timer[r] = Never
  /\ r \in Active /\ ~expired[r] => deadline[r] \in 0 .. T /\ quiet[r] = T - deadline[r]
  /\ expired[r] => quiet[r] = T /\ cancelled[r] /\ conn[r] = Cut

Watch == TransferTyped /\ \A r \in Requests : InPlan(r) /\ Watched(r)

-----------------------------------------------------------------------------
(* "Never" is later than every timeout. *)
LEMMA NeverFacts == Never \in Nat /\ Never > T /\ T \in Nat
<1> DEFINE S == {TransferIdleTimeout, AdminLoginReadTimeout, ReadTimeout, WriteTimeout}
<1>1. S \subseteq Nat /\ T \in S /\ T \in Nat
  BY TransferAssumption DEF T
<1>2. \E x \in S : \A y \in S : x >= y
  BY TransferAssumption
<1>3. Max(S) \in S /\ \A y \in S : Max(S) >= y
  BY <1>2 DEF Max
<1>4. QED
  BY <1>1, <1>3 DEF Never

(* Every handler does something, and all that it does is I/O or a check. *)
LEMMA PlanFacts ==
  ASSUME NEW k \in DOMAIN Plan
  PROVE  /\ Len(Plan[k]) \in Nat \ {0}
         /\ \A i \in 1 .. Len(Plan[k]) :
              Plan[k][i] \in {ReadBody, Respond, Upstream, KeepAlive, Check}
<1>1. CASE k \in {"download", "pop"}
  <2>1. Plan[k] = <<Upstream, Respond, Upstream, Respond>>
    BY <1>1 DEF Plan, handleGetObject
  <2>2. QED
    BY <2>1
<1>2. CASE k \in {"upload", "login"}
  BY <1>2, SMTT(30) DEF Plan
<1>3. CASE k \in {"copy", "probe", "refused"}
  BY <1>3, SMTT(30) DEF Plan
<1>4. QED
  BY <1>1, <1>2, <1>3, Zenon DEF Plan

(* I/O that reports progress does not succeed after the watchdog cut it. *)
LEMMA CutIsDead ==
  ASSUME NEW r \in Requests, Watch, stage[r] = "running", expired[r], Step(r).reports
  PROVE  Dead(r)
<1>1. Step(r) \in {ReadBody, Respond, KeepAlive}
  <2>1. Step(r) \in {ReadBody, Respond, Upstream, KeepAlive, Check}
    BY PlanFacts DEF Watch, InPlan, Step
  <2>2. QED
    BY <2>1 DEF ReadBody, Respond, Upstream, KeepAlive, Check
<1>2. cancelled[r] /\ conn[r] = Cut
  BY DEF Watch, Watched
<1>3. QED
  BY <1>1, <1>2 DEF Dead, ReadBody, Respond, KeepAlive, Sides, Cut

-----------------------------------------------------------------------------
(* A server that has not served anything is watched. *)
LEMMA WatchInit == Init => Watch
<1> SUFFICES ASSUME Init PROVE Watch
  OBVIOUS
<1>1. TransferTyped
  BY DEF Init, TransferInit, TransferTyped, Stages
<1>2. \A r \in Requests : InPlan(r) /\ Watched(r)
  BY DEF Init, TransferInit, InPlan, Watched, Active
<1>3. QED
  BY <1>1, <1>2 DEF Watch

(* Requests that leave are no longer watched. *)
LEMMA WatchLeave ==
  ASSUME Watch, NEW R \in SUBSET Requests, Leave(R)
  PROVE  Watch'
<1>1. TransferTyped'
  BY Zenon DEF Watch, TransferTyped, Leave, Stages
<1>2. ASSUME NEW r \in Requests PROVE InPlan(r)' /\ Watched(r)'
  <2>1. CASE r \in R
    BY <2>1 DEF Watch, InPlan, Watched, Active, Leave
  <2>2. CASE r \notin R
    BY <2>2 DEF Watch, InPlan, Watched, Active, Leave
  <2>3. QED
    BY <2>1, <2>2
<1>3. QED
  BY <1>1, <1>2 DEF Watch

(* Closing connections cuts what runs on them. *)
LEMMA WatchDisconnected ==
  ASSUME Watch, NEW R \in SUBSET Requests, Disconnected(R)
  PROVE  Watch'
<1>1. TransferTyped'
  BY DEF Watch, TransferTyped, Disconnected
<1>2. ASSUME NEW r \in Requests PROVE InPlan(r)' /\ Watched(r)'
  BY <1>2 DEF Watch, TransferTyped, InPlan, Watched, Active, Disconnected
<1>3. QED
  BY <1>1, <1>2 DEF Watch

(* withTransferLimits starts the watchdog with the full idle timeout. *)
LEMMA WatchArrive ==
  ASSUME Watch, NEW r \in Requests, NEW k \in Kinds, Arrive(r, k)
  PROVE  Watch'
<1> DEFINE admitted == ~NeedsSlot(k) \/ Cardinality(slots) < MaxConcurrentRequests
           as == IF admitted THEN k ELSE "refused"
<1>1. as \in DOMAIN Plan
  BY TransferAssumption DEF Plan
<1>2. /\ stage[r] = "absent"
      /\ stage' = [stage EXCEPT ![r] = "running"]
      /\ kind' = [kind EXCEPT ![r] = as]
      /\ timer' = [timer EXCEPT ![r] = T]
      /\ deadline' = [deadline EXCEPT ![r] = T]
      /\ UNCHANGED <<at, expired, cancelled, quiet>>
  BY DEF Arrive, T
<1>3. DOMAIN conn' = Requests /\ \A q \in Requests : q # r => conn'[q] = conn[q]
  BY DEF Arrive, Watch, TransferTyped
<1> HIDE DEF as
<1>4. TransferTyped'
  BY <1>2, <1>3 DEF Watch, TransferTyped, Stages
<1>5. ASSUME NEW q \in Requests PROVE InPlan(q)' /\ Watched(q)'
  <2>1. CASE q = r
    <3>1. at[r] = 1 /\ quiet[r] = 0 /\ ~expired[r]
      BY <1>2 DEF Watch, InPlan, Watched
    <3>2. /\ stage'[r] = "running" /\ kind'[r] = as /\ deadline'[r] = T
          /\ at'[r] = 1 /\ quiet'[r] = 0 /\ ~expired'[r]
      BY <1>2, <3>1 DEF Watch, TransferTyped
    <3>3. InPlan(r)'
      <4>1. Len(Plan[as]) \in Nat \ {0}
        BY <1>1, PlanFacts, Zenon
      <4>2. at'[r] \in 1 .. Len(Plan[as])
        <5>1. \A n \in Nat \ {0} : 1 \in 1 .. n
          OBVIOUS
        <5>2. QED
          BY <3>2, <4>1, <5>1, Zenon
      <4>3. kind'[r] \in DOMAIN Plan /\ at'[r] \in 1 .. Len(Plan[kind'[r]])
        BY <1>1, <3>2, <4>2, Zenon
      <4>4. QED
        BY <3>2, <4>3, Zenon DEF InPlan
    <3>4. Watched(r)'
      BY <3>2, NeverFacts DEF Watched
    <3>5. QED
      BY <2>1, <3>3, <3>4
  <2>2. CASE q # r
    BY <1>2, <1>3, <2>2 DEF Watch, TransferTyped, InPlan, Watched, Active
  <2>3. QED
    BY <2>1, <2>2
<1>6. QED
  BY <1>4, <1>5 DEF Watch

(* The timer cuts a request only when its deadline has passed. *)
LEMMA WatchExpire ==
  ASSUME Watch, NEW r \in Requests, Expire(r)
  PROVE  Watch'
<1>1. TransferTyped'
  BY Zenon DEF Watch, TransferTyped, Expire
<1>2. ASSUME NEW q \in Requests PROVE InPlan(q)' /\ Watched(q)'
  <2>1. InPlan(q)'
    BY DEF Watch, InPlan, Expire
  <2>2. CASE q # r
    BY <2>1, <2>2 DEF Watch, TransferTyped, Watched, Active, Expire
  <2>3. CASE q = r /\ (Finished(r) \/ deadline[r] > 0)
    BY <2>1, <2>3, NeverFacts DEF Watch, TransferTyped, Watched, Active, Expire, Finished
  <2>4. CASE q = r /\ ~(Finished(r) \/ deadline[r] > 0)
    <3>1. stage[r] \in {"running", "returning"}
      BY <2>4, NeverFacts DEF Watch, TransferTyped, Stages, Watched, Expire, Finished
    <3>2. expired[r] \/ (deadline[r] = 0 /\ quiet[r] = T)
      BY <2>4, <3>1, NeverFacts DEF Watch, Watched, Active
    <3>3. expired'[r] /\ cancelled'[r] /\ conn'[r] = Cut /\ UNCHANGED <<stage, quiet>>
      BY <2>4 DEF Watch, TransferTyped, Expire
    <3>4. quiet[r] = T
      BY <3>2 DEF Watch, Watched
    <3>5. QED
      BY <2>1, <2>4, <3>1, <3>3, <3>4 DEF Watched, Active
  <2>5. QED
    BY <2>2, <2>3, <2>4
<1>3. QED
  BY <1>1, <1>2 DEF Watch

(* A rebalance that interrupts a pop does not count as idleness. *)
LEMMA WatchInterruptPop ==
  ASSUME Watch, NEW r \in Requests, InterruptPop(r)
  PROVE  Watch'
<1>1. /\ cancelled' = [cancelled EXCEPT ![r] = TRUE]
      /\ UNCHANGED <<stage, kind, at, deadline, timer, expired, quiet>>
  BY DEF InterruptPop
<1>2. DOMAIN conn' = Requests /\ \A q \in Requests : expired[q] => conn'[q] = conn[q]
  BY DEF InterruptPop, SetDeadline, Watch, TransferTyped
<1>3. TransferTyped'
  BY <1>1, <1>2 DEF Watch, TransferTyped
<1>4. ASSUME NEW q \in Requests PROVE InPlan(q)' /\ Watched(q)'
  BY <1>1, <1>2 DEF Watch, TransferTyped, InPlan, Watched, Active
<1>5. QED
  BY <1>3, <1>4 DEF Watch

(* A failed I/O ends the handler, or leads to its error document. *)
LEMMA WatchFail ==
  ASSUME Watch, NEW r \in Requests, Fail(r)
  PROVE  Watch'
<1>1. /\ stage[r] = "running"
      /\ UNCHANGED <<kind, deadline, timer, expired, cancelled, conn, quiet>>
  BY DEF Fail, activityVars
<1>2. \/ stage' = [stage EXCEPT ![r] = "returning"] /\ UNCHANGED at
      \/ at' = [at EXCEPT ![r] = Len(Plan[kind[r]])] /\ UNCHANGED stage
  BY DEF Fail, Return
<1>3. Len(Plan[kind[r]]) \in 1 .. Len(Plan[kind[r]])
  BY <1>1, PlanFacts DEF Watch, InPlan
<1>4. TransferTyped'
  BY <1>1, <1>2 DEF Watch, TransferTyped, Stages
<1>5. ASSUME NEW q \in Requests PROVE InPlan(q)' /\ Watched(q)'
  <2>1. InPlan(q)'
    BY <1>1, <1>2, <1>3 DEF Watch, TransferTyped, InPlan
  <2>2. Watched(q)'
    BY <1>1, <1>2 DEF Watch, TransferTyped, Watched, Active
  <2>3. QED
    BY <2>1, <2>2
<1>6. QED
  BY <1>4, <1>5 DEF Watch

(* finish stops the timer, and leaves the connection cut if it has fired. *)
LEMMA WatchFinish ==
  ASSUME Watch, NEW r \in Requests, Finish(r)
  PROVE  Watch'
<1>1. CASE Leave({r})
  BY <1>1, WatchLeave
<1>2. CASE ~Leave({r})
  <2>1. /\ stage[r] = "returning"
        /\ stage' = [stage EXCEPT ![r] = "draining"]
        /\ timer' = [timer EXCEPT ![r] = IF @ = 0 THEN 0 ELSE Never]
        /\ conn' = [conn EXCEPT ![r] = FinishDeadlines(r)]
        /\ cancelled' = [cancelled EXCEPT ![r] = TRUE]
        /\ UNCHANGED <<kind, at, deadline, expired, quiet>>
    BY <1>2 DEF Finish
  <2>2. expired[r] => FinishDeadlines(r) = conn[r]
    BY DEF FinishDeadlines
  <2> HIDE DEF FinishDeadlines
  <2>3. TransferTyped'
    BY <2>1 DEF Watch, TransferTyped, Stages
  <2>4. ASSUME NEW q \in Requests PROVE InPlan(q)' /\ Watched(q)'
    <3>1. InPlan(q)'
      BY <2>1 DEF Watch, TransferTyped, InPlan
    <3>2. Watched(q)'
      BY <2>1, <2>2 DEF Watch, TransferTyped, Watched, Active
    <3>3. QED
      BY <3>1, <3>2
  <2>5. QED
    BY <2>3, <2>4 DEF Watch
<1>3. QED
  BY <1>1, <1>2

(* I/O that succeeds pushes the deadline back by the idle timeout, but not   *)
(* once the watchdog has cut the request.                                    *)
LEMMA SucceedsFacts ==
  ASSUME Watch, NEW r \in Requests, Succeeds(r)
  PROVE  /\ stage[r] = "running"
         /\ \/ UNCHANGED <<deadline, quiet>>
            \/ /\ ~expired[r]
               /\ deadline' = [deadline EXCEPT ![r] = T]
               /\ quiet' = [quiet EXCEPT ![r] = 0]
<1>1. stage[r] = "running" /\ ~Dead(r)
  BY DEF Succeeds
<1>2. CASE ~Step(r).reports
  BY <1>1, <1>2 DEF Succeeds
<1>3. CASE Step(r).reports
  <2>1. ~expired[r]
    BY <1>1, <1>3, CutIsDead
  <2>2. QED
    BY <1>1, <1>3, <2>1 DEF Succeeds, Progress, Finished, T
<1>4. QED
  BY <1>2, <1>3

(* Success leaves the handler in its plan: it repeats a part of its step,    *)
(* goes back to the other half of a copy, goes on or returns.                *)
LEMMA WatchSuccess ==
  ASSUME Watch, NEW r \in Requests, Advance(r) \/ Again(r)
  PROVE  Watch'
<1>1. Succeeds(r) /\ UNCHANGED <<kind, timer, expired, cancelled, conn>>
  BY DEF Advance, Again
<1>2. /\ stage[r] = "running"
      /\ \/ UNCHANGED <<deadline, quiet>>
         \/ /\ ~expired[r]
            /\ deadline' = [deadline EXCEPT ![r] = T]
            /\ quiet' = [quiet EXCEPT ![r] = 0]
  BY <1>1, SucceedsFacts
<1>3. \/ stage' = [stage EXCEPT ![r] = "returning"] /\ UNCHANGED at
      \/ UNCHANGED <<at, stage>>
      \/ /\ at[r] # Len(Plan[kind[r]])
         /\ at' = [at EXCEPT ![r] = @ + 1] /\ UNCHANGED stage
      \/ /\ at[r] \in {2, 4}
         /\ at' = [at EXCEPT ![r] = @ - 1] /\ UNCHANGED stage
  BY DEF Advance, Again, Copies, Return, LastStep
<1>4. TransferTyped'
  BY <1>1, <1>2, <1>3 DEF Watch, TransferTyped, Stages
<1>5. ASSUME NEW q \in Requests PROVE InPlan(q)' /\ Watched(q)'
  <2>1. InPlan(q)'
    <3>1. CASE q = r
      <4>1. kind[r] \in DOMAIN Plan /\ at[r] \in 1 .. Len(Plan[kind[r]])
        BY <1>2 DEF Watch, InPlan
      <4>2. Len(Plan[kind[r]]) \in Nat
        BY <4>1, PlanFacts
      <4>3. QED
        BY <1>1, <1>2, <1>3, <3>1, <4>1, <4>2 DEF Watch, TransferTyped, InPlan
    <3>2. CASE q # r
      BY <1>1, <1>3, <3>2 DEF Watch, TransferTyped, InPlan
    <3>3. QED
      BY <3>1, <3>2
  <2>2. Watched(q)'
    BY <1>1, <1>2, <1>3, NeverFacts DEF Watch, TransferTyped, Watched, Active
  <2>3. QED
    BY <2>1, <2>2
<1>6. QED
  BY <1>4, <1>5 DEF Watch

(* The deadline comes nearer as the time without progress grows. *)
LEMMA WatchTick ==
  ASSUME Watch, TransferTick
  PROVE  Watch'
<1>1. UNCHANGED <<stage, kind, at, expired, cancelled>>
  BY DEF TransferTick
<1>2. TransferTyped'
  BY <1>1 DEF Watch, TransferTyped, TransferTick
<1>3. ASSUME NEW q \in Requests PROVE InPlan(q)' /\ Watched(q)'
  <2>1. InPlan(q)'
    BY <1>1 DEF Watch, InPlan
  <2>2. CASE q \notin Active
    <3>1. /\ stage[q] \in {"absent", "gone"} /\ ~expired[q]
          /\ stage[q] = "absent" => quiet[q] = 0 /\ timer[q] = Never
      BY <2>2 DEF Watch, TransferTyped, Watched, Active, Stages
    <3>2. quiet'[q] = quiet[q] /\ timer'[q] = Less(timer[q])
      BY <2>2 DEF TransferTick
    <3>3. Less(Never) = Never
      BY DEF Less
    <3>4. Watched(q)'
      BY <1>1, <3>1, <3>2, <3>3 DEF Watched, Active
    <3>5. QED
      BY <2>1, <3>4
  <2>3. CASE q \in Active /\ ~expired[q]
    <3>1. deadline[q] \in 0 .. T /\ quiet[q] = T - deadline[q]
      BY <2>3 DEF Watch, Watched
    <3>2. /\ deadline'[q] = Less(deadline[q])
          /\ quiet'[q] = IF quiet[q] < T THEN quiet[q] + 1 ELSE quiet[q]
      BY <2>3 DEF TransferTick, T
    <3>3. deadline'[q] \in 0 .. T /\ quiet'[q] = T - deadline'[q]
      BY <3>1, <3>2, NeverFacts DEF Less
    <3>4. QED
      BY <1>1, <2>1, <2>3, <3>3 DEF Watched, Active
  <2>4. CASE q \in Active /\ expired[q]
    <3>1. quiet[q] = T /\ cancelled[q] /\ conn[q] = Cut
      BY <2>4 DEF Watch, Watched
    <3>2. quiet'[q] = T
      BY <2>4, <3>1, NeverFacts DEF TransferTick, T
    <3>3. conn'[q] = [s \in Sides |-> Less(conn[q][s])]
      BY <2>4 DEF TransferTick
    <3>4. conn'[q] = Cut
      BY <3>1, <3>3 DEF Cut, Less
    <3>5. QED
      BY <1>1, <2>1, <2>4, <3>1, <3>2, <3>4 DEF Watched, Active
  <2>5. QED
    BY <2>1, <2>2, <2>3, <2>4
<1>4. QED
  BY <1>2, <1>3 DEF Watch

(* Steps beside the transfers leave the watchdog alone. *)
LEMMA WatchStutter ==
  ASSUME Watch, UNCHANGED transferVars
  PROVE  Watch'
BY DEF Watch, TransferTyped, InPlan, Watched, Active, transferVars, activityVars

(* What the steps of the requests that are being served have in common. *)
LEMMA WatchStep ==
  ASSUME Watch, NEW r \in Requests, TransferStep(r)
  PROVE  Watch'
<1>1. CASE Expire(r)
  BY <1>1, WatchExpire
<1>2. CASE InterruptPop(r)
  BY <1>2, WatchInterruptPop
<1>3. CASE Fail(r)
  BY <1>3, WatchFail
<1>4. CASE Finish(r)
  BY <1>4, WatchFinish
<1>5. CASE Drained(r)
  BY <1>5, WatchLeave DEF Drained
<1>6. CASE Disconnect(r)
  BY <1>6, WatchDisconnected DEF Disconnect
<1>7. CASE Again(r)
  BY <1>7, WatchSuccess
<1>8. QED
  BY <1>1, <1>2, <1>3, <1>4, <1>5, <1>6, <1>7 DEF TransferStep

(* Every step keeps the watchdog in order. *)
LEMMA WatchNext ==
  ASSUME Watch, [Next]_vars
  PROVE  Watch'
<1>1. CASE UNCHANGED transferVars
  BY <1>1, WatchStutter
<1>2. CASE ShutdownForced
  BY <1>2, WatchDisconnected DEF ShutdownForced, Active
<1>3. CASE Exit
  BY <1>3, WatchLeave DEF Exit
<1>4. CASE Tick
  BY <1>4, WatchTick DEF Tick
<1>5. ASSUME NEW r \in Requests, Accept(r) PROVE Watch'
  BY <1>5, WatchArrive DEF Accept
<1>6. ASSUME NEW r \in Requests, Handle(r) PROVE Watch'
  <2>1. Advance(r) \/ TransferStep(r) \/ UNCHANGED transferVars
    BY <1>6 DEF Handle, Verdicts, Asks
  <2>2. QED
    BY <2>1, WatchSuccess, WatchStep, WatchStutter
<1>7. \/ UNCHANGED transferVars \/ ShutdownForced \/ Exit \/ Tick
      \/ \E r \in Requests : Accept(r) \/ Handle(r)
  BY DEF Next, vars, OpenClient, BootFails, Booted, NotServing, Serving, BeginShutdown,
         StopStep, ShutdownGraceful, ReadinessStep, Others
<1>8. QED
  BY <1>1, <1>2, <1>3, <1>4, <1>5, <1>6, <1>7

(* The watchdog cuts only requests that were idle for the whole timeout.     *)
THEOREM CutsOnlyIdle == Spec => []OnlyIdleCut
<1>1. Watch => OnlyIdleCut
  BY DEF Watch, Watched, OnlyIdleCut, T
<1>2. QED
  BY <1>1, WatchInit, WatchNext, PTL DEF Spec

-----------------------------------------------------------------------------
Phases == {"boot", "listen", "serving", "draining", "cleanup", "exited"}

(* Requests exist only between the start of the server and the exit, and the *)
(* clients are open until then.  From the cleanup on the handlers that still *)
(* run have lost their connection.                                           *)
Stopping ==
  /\ run \in Phases
  /\ kafka \in [Kafka -> {"absent", "open", "closing", "closed"}]
  /\ run \in {"boot", "listen"} => \A r \in Requests : stage[r] = "absent"
  /\ run \notin {"cleanup", "exited"} => \A c \in Kafka : kafka[c] \in {"absent", "open"}
  /\ run = "cleanup" => /\ \A c \in Kafka : kafka[c] # "open"
                        /\ \A r \in Requests : stage[r] = "running" => cancelled[r]
  /\ run = "exited" => /\ \A c \in Kafka : kafka[c] \in {"absent", "closed"}
                       /\ \A r \in Requests : stage[r] = "gone"

(* No step but an arrival starts a handler, and a cancelled context stays so. *)
Onward ==
  \A q \in Requests : /\ stage[q] = "absent" => stage'[q] = "absent"
                      /\ stage'[q] = "running" => stage[q] = "running"
                      /\ cancelled[q] => cancelled'[q]

(* Handlers only move on. *)
LEMMA HandleOnward ==
  ASSUME Watch, NEW r \in Requests, Advance(r) \/ TransferStep(r)
  PROVE  Onward
<1>1. CASE Advance(r)
  <2>1. stage[r] = "running" /\ UNCHANGED cancelled
    BY <1>1, Zenon DEF Advance, Succeeds
  <2>2. stage' = [stage EXCEPT ![r] = "returning"] \/ UNCHANGED stage
    BY <1>1, Zenon DEF Advance, Return
  <2>3. QED
    BY <2>1, <2>2 DEF Watch, TransferTyped, Stages, Onward
<1>2. CASE Expire(r)
  BY <1>2 DEF Watch, TransferTyped, Stages, Expire, Onward
<1>3. CASE InterruptPop(r)
  BY <1>3 DEF Watch, TransferTyped, Stages, InterruptPop, Onward
<1>4. CASE Fail(r)
  BY <1>4 DEF Watch, TransferTyped, Stages, Fail, Return, Onward, activityVars
<1>5. CASE Finish(r)
  <2>1. CASE Leave({r})
    BY <1>5, <2>1 DEF Watch, TransferTyped, Stages, Finish, Leave, Onward
  <2>2. CASE ~Leave({r})
    <3>1. /\ stage[r] = "returning"
          /\ stage' = [stage EXCEPT ![r] = "draining"]
          /\ cancelled' = [cancelled EXCEPT ![r] = TRUE]
      BY <1>5, <2>2 DEF Finish
    <3>2. QED
      BY <3>1 DEF Watch, TransferTyped, Stages, Onward
  <2>3. QED
    BY <2>1, <2>2
<1>6. CASE Drained(r)
  BY <1>6 DEF Watch, TransferTyped, Stages, Drained, Leave, Onward
<1>7. CASE Disconnect(r)
  BY <1>7 DEF Watch, TransferTyped, Stages, Disconnect, Disconnected, Onward
<1>8. CASE Again(r)
  BY <1>8 DEF Again, Onward
<1>9. QED
  BY <1>1, <1>2, <1>3, <1>4, <1>5, <1>6, <1>7, <1>8 DEF TransferStep

(* Handlers that move on do not disturb the shutdown. *)
LEMMA StoppingOnward ==
  ASSUME Stopping, Onward, run # "exited", UNCHANGED <<run, kafka>>
  PROVE  Stopping'
BY DEF Stopping, Onward, Phases

(* Every step keeps the phases of the shutdown in order. *)
LEMMA StoppingNext ==
  ASSUME Watch, Stopping, [Next]_vars
  PROVE  Stopping'
<1>1. CASE OpenClient
  BY <1>1, Zenon DEF OpenClient, Stopping, Phases, Others, transferVars
<1>2. CASE BootFails \/ NotServing
  BY <1>2 DEF BootFails, NotServing, cleanupAll, Stopping, Phases, Others, transferVars
<1>3. CASE Booted \/ Serving \/ BeginShutdown
  BY <1>3 DEF Booted, Serving, BeginShutdown, Stopping, Phases, Others, transferVars
<1>4. CASE ShutdownGraceful
  BY <1>4 DEF ShutdownGraceful, Active, cleanupAll, Stopping, Phases, Others, transferVars
<1>5. CASE ShutdownForced
  <2>1. \A r \in Requests : stage'[r] = stage[r]
                            /\ (stage[r] = "running" => cancelled'[r])
    BY <1>5, Zenon DEF ShutdownForced, Disconnected, Active
  <2>2. run = "draining" /\ run' = "cleanup" /\ kafka' = cleanupAll
    BY <1>5 DEF ShutdownForced
  <2>3. QED
    BY <2>1, <2>2 DEF cleanupAll, Stopping, Phases
<1>6. CASE Exit
  BY <1>6 DEF Exit, Leave, Stopping, Phases
<1>7. CASE run # "exited" /\ (Tick \/ ReadinessStep)
  <2>1. UNCHANGED <<stage, cancelled, run, kafka>>
    BY <1>7 DEF Tick, TransferTick, ReadinessStep, transferVars, activityVars, processVars
  <2>2. QED
    BY <2>1 DEF Stopping
<1>8. ASSUME NEW r \in Requests, Accept(r) PROVE Stopping'
  BY <1>8 DEF Accept, processVars, Stopping, Phases
<1>9. ASSUME NEW r \in Requests, Handle(r), run # "exited" PROVE Stopping'
  <2>1. UNCHANGED <<run, kafka>>
    BY <1>9 DEF Handle, Verdicts, Asks, processVars
  <2>2. Advance(r) \/ TransferStep(r) \/ UNCHANGED transferVars
    BY <1>9 DEF Handle, Verdicts, Asks
  <2>3. CASE UNCHANGED transferVars
    BY <2>1, <2>3 DEF Stopping, transferVars, activityVars
  <2>4. QED
    BY <1>9, <2>1, <2>2, <2>3, HandleOnward, StoppingOnward
<1>10. CASE UNCHANGED vars
  BY <1>10 DEF vars, transferVars, activityVars, processVars, Stopping
<1>11. QED
  BY <1>1, <1>2, <1>3, <1>4, <1>5, <1>6, <1>7, <1>8, <1>9, <1>10 DEF Next, StopStep

(* No handler uses a Kafka client that is closed, except after the shutdown  *)
(* budget is spent and its connection is cut; and no client outlives run.    *)
THEOREM ClosesClientsInTime == Spec => []ClientsClosedInTime
<1>1. Init => Stopping
  BY DEF Init, TransferInit, Stopping, Phases
<1>2. Stopping => ClientsClosedInTime
  BY DEF Stopping, Phases, ClientsClosedInTime
<1>3. QED
  BY <1>1, <1>2, WatchInit, WatchNext, StoppingNext, PTL DEF Spec

-----------------------------------------------------------------------------
ReadinessTyped ==
  /\ cache \in [valid : BOOLEAN, failed : BOOLEAN, outage : BOOLEAN, age : Nat]
  /\ flight \in [phase : {"none", "begin", "ldap", "s3", "store"}, leader : SUBSET Requests,
                 failed : BOOLEAN, outage : BOOLEAN, left : Nat]

Diagnosed == ReadinessTyped /\ NotReadyMeansOutage

(* No check ran yet. *)
LEMMA DiagnosedInit == Init => Diagnosed
BY DEF Init, ReadinessInit, NoResult, NoFlight, Diagnosed, ReadinessTyped, NotReadyMeansOutage

(* A check that ended leaves no trace but the cache. *)
LEMMA DiagnosedReset ==
  ASSUME flight' = NoFlight, cache' = NoResult \/ (Diagnosed /\ UNCHANGED cache)
  PROVE  Diagnosed'
<1> DEFINE C(c) == /\ c \in [valid : BOOLEAN, failed : BOOLEAN, outage : BOOLEAN, age : Nat]
                   /\ c.failed => c.outage
           F(f) == /\ f \in [phase : {"none", "begin", "ldap", "s3", "store"},
                              leader : SUBSET Requests,
                              failed : BOOLEAN, outage : BOOLEAN, left : Nat]
                   /\ f.failed => f.outage
<1>1. C(NoResult)
  BY DEF NoResult
<1>2. F(NoFlight)
  BY DEF NoFlight
<1>3. Diagnosed => C(cache)
  BY DEF Diagnosed, ReadinessTyped, NotReadyMeansOutage
<1>4. C(cache')
  BY <1>1, <1>3
<1>5. QED
  BY <1>2, <1>4 DEF Diagnosed, ReadinessTyped, NotReadyMeansOutage

(* A check reports the backends' failures and its own timeout, nothing else. *)
LEMMA DiagnosedCheck ==
  ASSUME Diagnosed, CheckStep
  PROVE  Diagnosed'
<1>1. CASE Begin
  <2>1. CASE flight' = NoFlight
    BY <1>1, <2>1, DiagnosedReset DEF Begin
  <2>2. CASE flight' # NoFlight
    BY <1>1, <2>2, ReadinessAssumption, ZenonT(40)
       DEF Begin, Answer, Diagnosed, ReadinessTyped, NotReadyMeansOutage
  <2>3. QED
    BY <2>1, <2>2
<1>2. CASE checkReady
  <2>1. PICK next \in {"s3", "store"}, down \in BOOLEAN :
          /\ flight' = [flight EXCEPT !.phase = next,
                          !.failed = @ \/ down \/ CheckCtxDone,
                          !.outage = @ \/ down \/ flight.left = 0]
          /\ UNCHANGED cache
    BY <1>2, Zenon DEF checkReady, CheckBackend
  <2>2. QED
    BY <2>1, Zenon DEF CheckCtxDone, Diagnosed, ReadinessTyped, NotReadyMeansOutage
<1>3. CASE StoreOutcome
  BY <1>3 DEF StoreOutcome, Answer, NoFlight, Diagnosed, ReadinessTyped, NotReadyMeansOutage
<1>4. QED
  BY <1>1, <1>2, <1>3 DEF CheckStep

(* Every step keeps the diagnosis true. *)
LEMMA DiagnosedNext ==
  ASSUME Diagnosed, [Next]_vars
  PROVE  Diagnosed'
<1>1. CASE UNCHANGED <<cache, flight>>
  BY <1>1 DEF Diagnosed, ReadinessTyped, NotReadyMeansOutage
<1>2. CASE Exit
  BY <1>2, DiagnosedReset DEF Exit
<1>3. CASE Tick
  BY <1>3 DEF Tick, ReadinessTick, Diagnosed, ReadinessTyped, NotReadyMeansOutage
<1>4. CASE ReadinessStep
  BY <1>4, DiagnosedCheck DEF ReadinessStep
<1>5. ASSUME NEW r \in Requests, Join(r) PROVE Diagnosed'
  <2>1. CASE UNCHANGED flight
    BY <1>1, <1>5, <2>1 DEF Join
  <2>2. CASE ~UNCHANGED flight
    <3>1. flight' = [phase |-> "begin", leader |-> {r}, failed |-> FALSE,
                     outage |-> FALSE, left |-> 0]
      BY <1>5, <2>2, Zenon DEF Join, NoFlight
    <3>2. UNCHANGED cache
      BY <1>5 DEF Join
    <3>3. QED
      BY <3>1, <3>2 DEF Diagnosed, ReadinessTyped, NotReadyMeansOutage
  <2>3. QED
    BY <2>1, <2>2
<1>6. \/ UNCHANGED <<cache, flight>> \/ Exit \/ Tick \/ ReadinessStep
      \/ \E r \in Requests : Join(r)
  BY DEF Next, vars, readinessVars, OpenClient, BootFails, Booted, NotServing, Serving,
         BeginShutdown, StopStep, ShutdownGraceful, ShutdownForced, Others, Accept, Handle,
         Verdicts, Asks, Ask
<1>7. QED
  BY <1>1, <1>2, <1>3, <1>4, <1>5, <1>6

(* "Not ready" is always due to a backend, never to a probe that went away.  *)
THEOREM UnreadyOnlyOnOutage == Spec => []NotReadyMeansOutage
<1>1. Diagnosed => NotReadyMeansOutage
  BY DEF Diagnosed
<1>2. QED
  BY <1>1, DiagnosedInit, DiagnosedNext, PTL DEF Spec
=============================================================================
