------------------------------ MODULE Transfers ------------------------------
(* The transfer limits that wrap every handler (server/transfer_limits.go),   *)
(* the handlers seen as sequences of blocking I/O, and what net/http still    *)
(* does with the connection after a handler returns.                          *)
(*                                                                            *)
(* Times are relative: every clock holds the time left, Tick lets one unit    *)
(* pass, and a clock that reached 0 stays there until it is set again.        *)
EXTENDS Naturals, Sequences, FiniteSets, FiniteSetsExt

CONSTANTS Requests,        \* the HTTP requests
          Kinds,           \* the kinds of request the clients send
          MaxConcurrentRequests,
          TransferIdleTimeout,
          AdminLoginReadTimeout,
          ReadTimeout, WriteTimeout    \* absolute limits, 0 when disabled

VARIABLES stage,           \* where the request is
          kind,            \* what it asks for
          at,              \* the blocking I/O its handler is in
          slots,           \* the requests that hold a slot of the channel
          deadline,        \* activity.deadline
          timer,           \* activity.timer
          expired,         \* activity.expired
          cancelled,       \* the request's context is done
          explicit,        \* activity.readDeadline and writeDeadline
          conn,            \* the deadlines of the connection
          quiet,           \* ghost: time since the last progress
          result           \* how the exchange ended, for the client

activityVars == <<deadline, timer, expired, cancelled, explicit, conn>>
transferVars == <<stage, kind, at, slots, activityVars, quiet, result>>

Sides == {"read", "write"}
Never == 1 + Max({TransferIdleTimeout, AdminLoginReadTimeout, ReadTimeout, WriteTimeout})
Timeout(side) == IF side = "read" THEN ReadTimeout ELSE WriteTimeout
OrNever(timeout) == IF timeout = 0 THEN Never ELSE timeout

(* A handler blocks on its client (a body read, a response write) or on the   *)
(* upstream.  Both kinds of client I/O report progress; upstream responses do *)
(* so only where TrackResponseProgress observes them.                         *)
ReadBody == [on |-> "read", reports |-> TRUE]
Respond == [on |-> "write", reports |-> TRUE]
Upstream == [on |-> "upstream", reports |-> FALSE]
KeepAlive == [on |-> "upstream", reports |-> TRUE]
Check == [on |-> "readiness", reports |-> FALSE]

handleGetObject == <<Upstream, Respond, Upstream, Respond>>
Plan == [download |-> handleGetObject,
         pop |-> handleGetObject,
         upload |-> <<ReadBody, Upstream, Respond>>,
         copy |-> <<KeepAlive, Respond>>,
         login |-> <<ReadBody, Upstream, Respond>>,
         probe |-> <<Check, Respond>>,
         refused |-> <<Respond>>]

ASSUME TransferAssumption ==
  /\ Kinds \subseteq DOMAIN Plan
  /\ {TransferIdleTimeout, AdminLoginReadTimeout, ReadTimeout, WriteTimeout} \subseteq Nat

Step(r) == Plan[kind[r]][at[r]]
LastStep(r) == at[r] = Len(Plan[kind[r]])
(* The status line of an object is out: an error can no longer be reported.  *)
HeadersCommitted(r) == kind[r] \in {"download", "pop"} /\ at[r] > 2

Active == {r \in Requests : stage[r] \in {"running", "returning", "draining"}}
Finished(r) == stage[r] \in {"draining", "gone"}

NoDeadlines == [s \in Sides |-> Never]
Cut == [s \in Sides |-> 0]

TransferInit ==
  /\ stage = [r \in Requests |-> "absent"]
  /\ kind = [r \in Requests |-> "none"]
  /\ at = [r \in Requests |-> 1]
  /\ slots = {}
  /\ deadline = [r \in Requests |-> Never]
  /\ timer = [r \in Requests |-> Never]
  /\ expired = [r \in Requests |-> FALSE]
  /\ cancelled = [r \in Requests |-> FALSE]
  /\ explicit = [r \in Requests |-> NoDeadlines]
  /\ conn = [r \in Requests |-> NoDeadlines]
  /\ quiet = [r \in Requests |-> 0]
  /\ result = [r \in Requests |-> "none"]

(* The connections are done with requests R, whose state is garbage now. *)
Leave(R) ==
  LET Clear(f, v) == [r \in Requests |-> IF r \in R THEN v ELSE f[r]] IN
  /\ stage' = Clear(stage, "gone")
  /\ kind' = Clear(kind, "none")
  /\ at' = Clear(at, 1)
  /\ slots' = slots \ R
  /\ deadline' = Clear(deadline, Never)
  /\ timer' = Clear(timer, Never)
  /\ expired' = Clear(expired, FALSE)
  /\ cancelled' = Clear(cancelled, TRUE)
  /\ explicit' = Clear(explicit, NoDeadlines)
  /\ conn' = Clear(conn, NoDeadlines)
  /\ quiet' = Clear(quiet, 0)
  /\ result' = Clear(result, "none")

-----------------------------------------------------------------------------
(* withTransferLimits: the watchdog starts before a slot is asked for, and   *)
(* the health endpoints need none.                                           *)
NeedsSlot(k) == k # "probe"

(* WithAuth sets the read deadline of a login before anything is read.       *)
ExplicitAtEntry(k, side) ==
  IF k = "login" /\ side = "read" THEN AdminLoginReadTimeout ELSE Never

Arrive(r, k) ==
  LET admitted == ~NeedsSlot(k) \/ Cardinality(slots) < MaxConcurrentRequests
      as == IF admitted THEN k ELSE "refused"
      own == [s \in Sides |-> ExplicitAtEntry(as, s)]
  IN /\ stage[r] = "absent"
     /\ stage' = [stage EXCEPT ![r] = "running"]
     /\ kind' = [kind EXCEPT ![r] = as]
     /\ slots' = IF admitted /\ NeedsSlot(k) THEN slots \cup {r} ELSE slots
     /\ timer' = [timer EXCEPT ![r] = TransferIdleTimeout]
     /\ deadline' = [deadline EXCEPT ![r] = TransferIdleTimeout]
     /\ explicit' = [explicit EXCEPT ![r] = own]
     /\ conn' = [conn EXCEPT ![r] = [s \in Sides |->
                   IF own[s] # Never THEN own[s] ELSE OrNever(Timeout(s))]]
     /\ UNCHANGED <<at, expired, cancelled, quiet, result>>

(* transferActivity.progress *)
Progress(r) ==
  /\ deadline' = [deadline EXCEPT ![r] = IF expired[r] \/ Finished(r)
                                         THEN @ ELSE TransferIdleTimeout]
  /\ quiet' = [quiet EXCEPT ![r] = 0]

(* transferActivity.expire, called by the timer *)
ExpireUnlessFinished(r) ==
  /\ timer[r] = 0
  /\ IF Finished(r)
     THEN /\ timer' = [timer EXCEPT ![r] = Never]
          /\ UNCHANGED <<expired, cancelled, conn>>
     ELSE /\ timer' = [timer EXCEPT ![r] = Never]
          /\ expired' = [expired EXCEPT ![r] = TRUE]
          /\ cancelled' = [cancelled EXCEPT ![r] = TRUE]
          /\ conn' = [conn EXCEPT ![r] = Cut]
  /\ UNCHANGED <<stage, kind, at, slots, deadline, explicit, quiet, result>>

Expire(r) ==
  /\ timer[r] = 0
  /\ IF Finished(r) \/ deadline[r] > 0
     THEN /\ timer' = [timer EXCEPT ![r] = IF Finished(r) THEN Never ELSE deadline[r]]
          /\ UNCHANGED <<expired, cancelled, conn>>
     ELSE /\ timer' = [timer EXCEPT ![r] = Never]
          /\ expired' = [expired EXCEPT ![r] = TRUE]
          /\ cancelled' = [cancelled EXCEPT ![r] = TRUE]
          /\ conn' = [conn EXCEPT ![r] = Cut]
  /\ UNCHANGED <<stage, kind, at, slots, deadline, explicit, quiet, result>>

(* transferResponseWriter.SetReadDeadline and SetWriteDeadline *)
SetDeadline(r, side, time) ==
  IF expired[r] THEN UNCHANGED <<explicit, conn>>
  ELSE /\ explicit' = [explicit EXCEPT ![r][side] = time]
       /\ conn' = [conn EXCEPT ![r][side] = time]

(* A rebalance cancels a pop; its AfterFunc interrupts the blocked write.    *)
InterruptPop(r) ==
  /\ stage[r] = "running" /\ kind[r] = "pop" /\ ~cancelled[r]
  /\ cancelled' = [cancelled EXCEPT ![r] = TRUE]
  /\ SetDeadline(r, "write", 0)
  /\ UNCHANGED <<stage, kind, at, slots, deadline, timer, expired, quiet, result>>

-----------------------------------------------------------------------------
(* The handler *)

(* The peer can no longer let the pending I/O succeed. *)
Dead(r) ==
  CASE Step(r).on \in Sides -> conn[r][Step(r).on] = 0
    [] Step(r).on = "upstream" -> cancelled[r]
    [] OTHER -> FALSE

(* The handler returns: its deferred calls free the slot first. *)
Return(r, how) ==
  /\ stage' = [stage EXCEPT ![r] = "returning"]
  /\ slots' = slots \ {r}
  /\ result' = [result EXCEPT ![r] = how]

(* The pending I/O succeeds, and the watchdog is told if it is observed. *)
Succeeds(r) ==
  /\ stage[r] = "running" /\ ~Dead(r)
  /\ IF Step(r).reports THEN Progress(r) ELSE UNCHANGED <<deadline, quiet>>

(* The body of an object is copied piece by piece between the client and the *)
(* upstream.                                                                 *)
Copies(r) ==
  /\ result[r] = "none"
  /\ \/ kind[r] \in {"download", "pop"} /\ at[r] = 4
     \/ kind[r] = "upload" /\ at[r] = 2

(* A step is a sequence of reads or writes of any length: one of them        *)
(* succeeds and is not the last.                                             *)
Again(r) ==
  /\ Succeeds(r)
  /\ \/ Step(r).reports /\ UNCHANGED at
     \/ Copies(r) /\ at' = [at EXCEPT ![r] = @ - 1]
  /\ UNCHANGED <<stage, kind, slots, timer, expired, cancelled, explicit, conn, result>>

(* The last I/O of the step succeeds. *)
Advance(r) ==
  /\ Succeeds(r)
  /\ IF LastStep(r)
     THEN /\ Return(r, IF result[r] = "none" THEN "complete" ELSE result[r])
          /\ UNCHANGED at
     ELSE /\ at' = [at EXCEPT ![r] = @ + 1]
          /\ UNCHANGED <<stage, slots, result>>
  /\ UNCHANGED <<kind, timer, expired, cancelled, explicit, conn>>

(* io.Copy failed: the handler panics with http.ErrAbortHandler. *)
Truncated == "aborted"

(* The pending I/O fails: its peer broke, or the watchdog interrupted it.    *)
(* Before the headers the failure of the upstream, or of a body read, is     *)
(* still answered with an error document; a failed write is not.             *)
Fail(r) ==
  /\ stage[r] = "running" /\ Step(r).on # "readiness"
  /\ CASE HeadersCommitted(r) -> Return(r, Truncated) /\ UNCHANGED at
       [] ~HeadersCommitted(r) /\ Step(r).on = "write" ->
            Return(r, "aborted") /\ UNCHANGED at
       [] OTHER -> /\ at' = [at EXCEPT ![r] = Len(Plan[kind[r]])]
                   /\ result' = [result EXCEPT ![r] = "error"]
                   /\ UNCHANGED <<stage, slots>>
  /\ UNCHANGED <<kind, activityVars, quiet>>

-----------------------------------------------------------------------------
(* transferActivity.finish: a stopped timer may have fired already.  The     *)
(* context is cancelled last.                                                *)
earlierTransferDeadline(r, side) == Min({TransferIdleTimeout, explicit[r][side]})

FinishUnbounded(r) == conn[r]
FinishDeadlines(r) ==
  IF expired[r] THEN conn[r]
  ELSE [s \in Sides |-> IF Timeout(s) = 0 THEN earlierTransferDeadline(r, s) ELSE conn[r][s]]

Finish(r) ==
  /\ stage[r] = "returning"
  /\ \/ result[r] = "aborted" /\ Leave({r})
     \/ /\ result[r] # "aborted"
        /\ stage' = [stage EXCEPT ![r] = "draining"]
        /\ timer' = [timer EXCEPT ![r] = IF @ = 0 THEN 0 ELSE Never]
        /\ conn' = [conn EXCEPT ![r] = FinishDeadlines(r)]
        /\ cancelled' = [cancelled EXCEPT ![r] = TRUE]
        /\ UNCHANGED <<kind, at, slots, deadline, expired, explicit, quiet, result>>

(* net/http drains the unread body and flushes the response: the client      *)
(* lets it, or the connection's deadline ends it.                            *)
Drained(r) == stage[r] = "draining" /\ Leave({r})
DrainCut(r) == stage[r] = "draining" /\ (\E s \in Sides : conn[r][s] = 0) /\ Leave({r})

(* The connection is closed under its handler, by the client or by           *)
(* http.Server.Close.                                                        *)
Disconnected(R) ==
  /\ cancelled' = [r \in Requests |-> cancelled[r] \/ r \in R]
  /\ conn' = [r \in Requests |-> IF r \in R THEN Cut ELSE conn[r]]
  /\ result' = [r \in Requests |-> IF r \in R /\ stage[r] # "running"
                                  THEN "aborted" ELSE result[r]]
  /\ UNCHANGED <<stage, kind, at, slots, deadline, timer, expired, explicit, quiet>>

(* The client of a probe goes away during the check.  A client that leaves   *)
(* while its request blocks on I/O is one of the ways in which it may Fail.  *)
Disconnect(r) ==
  /\ stage[r] = "running" /\ Step(r).on = "readiness" /\ ~cancelled[r]
  /\ Disconnected({r})

-----------------------------------------------------------------------------
Less(t) == IF t \in {0, Never} THEN t ELSE t - 1

(* One unit of time passes for every clock of a request being served. *)
TransferTick ==
  /\ deadline' = [r \in Requests |-> IF r \in Active THEN Less(deadline[r]) ELSE deadline[r]]
  /\ timer' = [r \in Requests |-> Less(timer[r])]
  /\ explicit' = [r \in Requests |-> IF r \in Active
                    THEN [s \in Sides |-> Less(explicit[r][s])] ELSE explicit[r]]
  /\ conn' = [r \in Requests |-> IF r \in Active
                THEN [s \in Sides |-> Less(conn[r][s])] ELSE conn[r]]
  /\ quiet' = [r \in Requests |-> IF r \in Active /\ quiet[r] < TransferIdleTimeout
                                  THEN quiet[r] + 1 ELSE quiet[r]]
  /\ UNCHANGED <<stage, kind, at, slots, expired, cancelled, result>>

TransferStep(r) ==
  \/ Expire(r) \/ InterruptPop(r) \/ Again(r) \/ Fail(r) \/ Finish(r)
  \/ Drained(r) \/ Disconnect(r)

(* What the runtime guarantees: timers fire, and a handler whose I/O was     *)
(* interrupted, or that has returned, goes on.  No client and no upstream    *)
(* is assumed to make progress.                                              *)
HandlerGoesOn(r) ==
  Expire(r) \/ (Fail(r) /\ Dead(r)) \/ Finish(r) \/ DrainCut(r)
=============================================================================
