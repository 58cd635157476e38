------------------------------- MODULE Process -------------------------------
(* The process: run and bootWithContextCleanup (app/), the HTTP server they   *)
(* start and stop, the requests it serves (Transfers, Readiness), and the     *)
(* Kafka clients that are shared by the handlers and closed at the end.       *)
EXTENDS Readiness

CONSTANT ShutdownTimeout

VARIABLES run,       \* how far run has come
          kafka,     \* the state of each Kafka client
          budget     \* what is left of the shutdown or cleanup context

processVars == <<run, kafka, budget>>
vars == <<transferVars, readinessVars, processVars>>

(* In the order bootWithContextCleanup creates them. *)
KafkaClients == <<"publisher", "lister", "pop">>
Kafka == {"publisher", "lister", "pop"}
Opened == {c \in Kafka : kafka[c] # "absent"}

Init ==
  /\ TransferInit /\ ReadinessInit
  /\ run = "boot"
  /\ kafka = [c \in Kafka |-> "absent"]
  /\ budget = 0

Others == UNCHANGED <<transferVars, readinessVars>>

-----------------------------------------------------------------------------
(* bootWithContextCleanup: the clients come one after the other; when one    *)
(* cannot be created the earlier ones are closed before boot returns.        *)
OpenClient ==
  LET c == KafkaClients[Cardinality(Opened) + 1] IN
  /\ run = "boot" /\ Cardinality(Opened) < 3
  /\ kafka' = [kafka EXCEPT ![c] = "open"]
  /\ UNCHANGED <<run, budget>> /\ Others

(* cleanupAll: every dependency closes at the same time, under one budget. *)
cleanupAll == [c \in Kafka |-> IF kafka[c] = "open" THEN "closing" ELSE kafka[c]]

BootFails ==
  /\ run = "boot" /\ Cardinality(Opened) < 3
  /\ run' = "cleanup" /\ kafka' = cleanupAll /\ budget' = ShutdownTimeout
  /\ Others

Booted ==
  /\ run = "boot" /\ Opened = Kafka
  /\ run' = "listen"
  /\ UNCHANGED <<kafka, budget>> /\ Others

(* listen fails, or a signal came first: the deferred cleanup gets a budget  *)
(* of its own.                                                               *)
NotServing ==
  /\ run = "listen"
  /\ run' = "cleanup" /\ kafka' = cleanupAll /\ budget' = ShutdownTimeout
  /\ Others

Serving ==
  /\ run = "listen"
  /\ run' = "serving"
  /\ UNCHANGED <<kafka, budget>> /\ Others

(* The select: a signal arrived, or Serve returned an error. *)
BeginShutdown ==
  /\ run = "serving"
  /\ run' = "draining" /\ budget' = ShutdownTimeout
  /\ UNCHANGED kafka /\ Others

(* httpServer.Shutdown returns when no connection is active.  Then the       *)
(* deferred closeDependencies uses what is left of the budget.               *)
ShutdownWithoutWaiting ==
  /\ run = "draining"
  /\ run' = "cleanup" /\ kafka' = cleanupAll
  /\ UNCHANGED <<budget>> /\ Others

ShutdownGraceful ==
  /\ run = "draining" /\ Active = {}
  /\ run' = "cleanup" /\ kafka' = cleanupAll
  /\ UNCHANGED <<budget>> /\ Others

(* It returns an error when the budget is spent; Close then cuts every       *)
(* connection and does not wait for the handlers.                            *)
ShutdownForced ==
  /\ run = "draining" /\ budget = 0 /\ Active # {}
  /\ Disconnected(Active)
  /\ run' = "cleanup" /\ kafka' = cleanupAll
  /\ UNCHANGED <<budget, readinessVars>>

(* Client.CloseContext: every close ends by itself, or because the expired   *)
(* context interrupts the client's network I/O.  cleanupAll waits for all of *)
(* them, and run returns; the process ends with whatever it was serving.     *)
CloseNeverInterrupted == FALSE
CloseInterrupted == budget = 0

Exit ==
  /\ run = "cleanup"
  /\ kafka' = [c \in Kafka |-> IF kafka[c] = "closing" THEN "closed" ELSE kafka[c]]
  /\ run' = "exited" /\ budget' = 0
  /\ Leave(Requests)
  /\ probe' = [r \in Requests |-> "none"] /\ cache' = NoResult /\ flight' = NoFlight

-----------------------------------------------------------------------------
(* The requests.  The listener is closed as soon as the shutdown begins.     *)
Accept(r) ==
  /\ run = "serving"
  /\ \E k \in Kinds : Arrive(r, k)
  /\ UNCHANGED <<readinessVars, processVars>>

Probes(r) == stage[r] = "running" /\ kind[r] = "probe"
Answered(r) == probe[r] \in {"ready", "notReady"}

(* handleReadyz: the verdict decides the status of the response. *)
Verdicts(r) ==
  /\ Probes(r) /\ Step(r).on = "readiness" /\ Answered(r)
  /\ Advance(r)
  /\ probe' = [probe EXCEPT ![r] = "none"]
  /\ UNCHANGED <<cache, flight, processVars>>

Asks(r) ==
  /\ Probes(r) /\ Step(r).on = "readiness"
  /\ Ask(r) \/ Join(r)
  /\ UNCHANGED <<transferVars, processVars>>

Handle(r) ==
  \/ Verdicts(r) \/ Asks(r)
  \/ /\ \/ stage[r] = "running" /\ Step(r).on # "readiness" /\ Advance(r)
        \/ TransferStep(r)
     /\ UNCHANGED <<readinessVars, processVars>>

ReadinessStep == CheckStep /\ UNCHANGED <<transferVars, processVars>>

Tick ==
  /\ run \in {"serving", "draining", "cleanup"}
  /\ TransferTick /\ ReadinessTick
  /\ budget' = IF budget > 0 THEN budget - 1 ELSE 0
  /\ UNCHANGED <<run, kafka>>

StopStep == ShutdownGraceful \/ ShutdownForced \/ (CloseInterrupted /\ Exit)

Next ==
  \/ OpenClient \/ BootFails \/ Booted \/ NotServing \/ Serving
  \/ BeginShutdown \/ StopStep \/ Exit
  \/ run # "exited" /\ \/ Tick \/ ReadinessStep
                       \/ \E r \in Requests : Accept(r) \/ Handle(r)

HandlerRuns(r) ==
  \/ Asks(r) \/ Verdicts(r)
  \/ HandlerGoesOn(r) /\ UNCHANGED <<readinessVars, processVars>>

(* The goroutines run, timers fire, time passes, and Kafka I/O returns once  *)
(* its context is done.  Clients, upstream and Kafka brokers owe nothing.    *)
Fairness ==
  /\ WF_vars(StopStep)
  /\ WF_vars(run # "exited" /\ Tick)
  /\ WF_vars(run # "exited" /\ CheckStep /\ UNCHANGED <<transferVars, processVars>>)
  /\ \A r \in Requests : WF_vars(run # "exited" /\ HandlerRuns(r))

Spec == Init /\ [][Next]_vars /\ Fairness

-----------------------------------------------------------------------------
(* The watchdog only cuts a request that made no progress for the whole idle *)
(* timeout: transfers can run longer while they keep moving.                 *)
OnlyIdleCut == \A r \in Requests : expired[r] => quiet[r] = TransferIdleTimeout

(* No absolute deadline limits the pending I/O of a request. *)
Unlimited(r) == Step(r).on \in Sides => conn[r][Step(r).on] = Never

(* A request that is served leaves, and its slot and connection come back,   *)
(* unless its transfer makes progress again and again for ever: "Transfers   *)
(* can run longer while they keep making progress" (README.md:656).  A peer  *)
(* that stalls at any point cannot hold it, one that trickles can do so only *)
(* where no absolute deadline is set, and neither can once the handler has   *)
(* returned.  (Every request arrives at most once.)                          *)
EveryRequestEnds ==
  \A r \in Requests : \/ <>[](r \notin Active)
                      \/ []<><<Again(r) /\ Unlimited(r)>>_vars

(* While requests drain, the Kafka clients they share stay open; only a      *)
(* spent shutdown budget closes them under a running handler.  And however   *)
(* far the start had come, run does not return with a client still open.     *)
ClientsClosedInTime ==
  /\ \A c \in Kafka : kafka[c] \in {"closing", "closed"} =>
       \A r \in Requests : stage[r] = "running" => cancelled[r]
  /\ run = "exited" => \A c \in Kafka : kafka[c] \in {"absent", "closed"}

(* A signal, or a failure to serve, ends the process within its budget even  *)
(* if clients stall and the brokers do not answer.  (run only moves forward, *)
(* so leaving the two phases of the shutdown for good is exiting.)           *)
ProcessExits == <>[](run \notin {"draining", "cleanup"})
=============================================================================
