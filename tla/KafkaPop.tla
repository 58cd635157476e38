------------------------------ MODULE KafkaPop ------------------------------
(***************************************************************************)
(* The consumer cache of internal/kafkapop: Manager, acquire, release, the *)
(* idle timers, eviction, and CloseContext.  A call of Consume is a member *)
(* of Calls; what it does with the client while it holds the permit (poll, *)
(* handle, commit) is the single phase "use" here and is refined in        *)
(* KafkaPopDelivery.  A groupConsumer and the Kafka client it owns are one *)
(* member of Clients.  Everything the code does while it holds Manager.mu  *)
(* is one step; each unlock, channel operation and client call ends one.   *)
(***************************************************************************)
EXTENDS Integers, FiniteSets

CONSTANTS
  Calls,            \* calls of Consume, each runs once
  Keys,             \* consumerKey: a topic and a group
  Clients,          \* groupConsumer identities, each is created at most once
  Shutdowns,        \* calls of CloseContext, each runs once
  MaxConsumers,     \* Manager.maxConsumers
  MaxCloseWorkers,  \* const maxCloseWorkers of CloseContext
  None              \* the nil *groupConsumer

ASSUME PopAssumption ==
  /\ IsFiniteSet(Calls) /\ IsFiniteSet(Keys) /\ IsFiniteSet(Clients)
  /\ None \notin Clients
  /\ MaxConsumers \in Nat \ {0}
  /\ MaxCloseWorkers \in Nat \ {0}

VARIABLES
  (* Manager, under mu *)
  consumers,       \* the cache: key -> groupConsumer or None
  isClosed,        \* isClosed, and the channel closed
  forced,          \* forceCtx is cancelled
  closeDone,       \* the channel closeDone is closed
  closers,         \* the counter of the WaitGroup closers
  (* groupConsumer *)
  key,             \* key
  users,           \* users: calls that pinned the consumer
  gate,            \* the permit of the channel gate is taken
  idleTimer,       \* generation of the current idleTimer, 0 when nil
  idleGeneration,  \* idleGeneration
  older,           \* <<a, b>>: a.lastUsed.Before(b.lastUsed)
  client,          \* the Kafka client: absent, open or closed
  (* time.AfterFunc callbacks of the idle timers, as <<consumer, generation>> *)
  armed,           \* scheduled
  fired,           \* started, waiting for mu
  closingIdle,     \* detached its consumer, is inside closeConsumer
  (* the calls of Consume *)
  pc, at, evicting, cancelled,
  (* the calls of CloseContext and the workers of the first one *)
  shut,            \* control state of each CloseContext
  closeStage       \* progress of each consumer CloseContext took over

managerVars == <<consumers, isClosed, forced, closeDone, closers>>
consumerVars == <<key, users, gate, idleTimer, idleGeneration, older, client>>
timerVars == <<armed, fired, closingIdle>>
callVars == <<pc, at, evicting, cancelled>>
shutVars == <<shut, closeStage>>
vars == <<managerVars, consumerVars, timerVars, callVars, shutVars>>

Cached == {consumers[k] : k \in Keys} \ {None}

Timers == armed \cup fired \cup closingIdle

Init ==
  /\ consumers = [k \in Keys |-> None]
  /\ isClosed = FALSE /\ forced = FALSE /\ closeDone = FALSE
  /\ closers = 0
  /\ key = [c \in Clients |-> None]
  /\ users = [c \in Clients |-> 0]
  /\ gate = [c \in Clients |-> FALSE]
  /\ idleTimer = [c \in Clients |-> 0]
  /\ idleGeneration = [c \in Clients |-> 0]
  /\ older = {}
  /\ client = [c \in Clients |-> "absent"]
  /\ armed = {} /\ fired = {} /\ closingIdle = {}
  /\ pc = [p \in Calls |-> "start"]
  /\ at = [p \in Calls |-> None]
  /\ evicting = [p \in Calls |-> None]
  /\ cancelled = [p \in Calls |-> FALSE]
  /\ shut = [q \in Shutdowns |-> "start"]
  /\ closeStage = [c \in Clients |-> "none"]

-----------------------------------------------------------------------------
(* Consume: acquire *)

(* stopIdleTimer(c): the reference of a timer that had not started is given *)
(* back; a started callback keeps its own.                                  *)
Stoppable(c) == armed \cap {<<c, idleTimer[c]>>}

(* What acquire and waitForConsumer check, twice. *)
Stopped(p) == cancelled[p] \/ isClosed

Full == Cardinality(Cached) >= MaxConsumers

(* The call leaves acquire with an error before anything is pinned: ctx is  *)
(* done, the manager is closed, every cached consumer is in use, or         *)
(* newClient failed, in which case the victim stays cached.                 *)
AcquireRefused(p, k) ==
  /\ pc[p] = "start"
  /\ \/ Stopped(p)
     \/ consumers[k] = None    \* newClient failed, or ErrConsumerLimit
  /\ pc' = [pc EXCEPT ![p] = "done"]
  /\ UNCHANGED <<managerVars, consumerVars, timerVars, at, evicting,
                 cancelled, shutVars>>

AcquireExisting(p, k) ==
  LET c == consumers[k] IN
  /\ pc[p] = "start"
  /\ ~Stopped(p)
  /\ c # None
  /\ armed' = armed \ Stoppable(c)
  /\ closers' = closers - Cardinality(Stoppable(c))
  /\ idleTimer' = [idleTimer EXCEPT ![c] = 0]
  /\ users' = [users EXCEPT ![c] = @ + 1]
  /\ pc' = [pc EXCEPT ![p] = "wait"]
  /\ at' = [at EXCEPT ![p] = c]
  /\ UNCHANGED <<consumers, isClosed, forced, closeDone, key, gate,
                 idleGeneration, older, client, fired, closingIdle, evicting,
                 cancelled, shutVars>>

(* The new consumer starts pinned by its creator. *)
Create(p, k, c) ==
  /\ pc[p] = "start"
  /\ ~Stopped(p)
  /\ consumers[k] = None
  /\ client[c] = "absent"
  /\ client' = [client EXCEPT ![c] = "open"]
  /\ key' = [key EXCEPT ![c] = k]
  /\ users' = [users EXCEPT ![c] = 1]
  /\ at' = [at EXCEPT ![p] = c]

AcquireNew(p, k, c) ==
  /\ ~Full
  /\ Create(p, k, c)
  /\ consumers' = [consumers EXCEPT ![k] = c]
  /\ pc' = [pc EXCEPT ![p] = "wait"]
  /\ UNCHANGED <<isClosed, forced, closeDone, closers, gate, idleTimer,
                 idleGeneration, older, timerVars, evicting, cancelled,
                 shutVars>>

(* The idle consumer with the oldest lastUsed gives up its place; it leaves *)
(* the cache under mu and is closed by this call outside mu.                *)
VictimsInUse == Cached
Victims == {v \in Cached : users[v] = 0}

AcquireEvicting(p, k, c, v) ==
  /\ Full
  /\ v \in Victims
  /\ \A w \in Victims : <<w, v>> \notin older
  /\ Create(p, k, c)
  /\ armed' = armed \ Stoppable(v)
  /\ closers' = closers - Cardinality(Stoppable(v)) + 1
  /\ idleTimer' = [idleTimer EXCEPT ![v] = 0]
  /\ consumers' = [consumers EXCEPT ![key[v]] = None, ![k] = c]
  /\ older' = {o \in older : v \notin {o[1], o[2]}}
  /\ evicting' = [evicting EXCEPT ![p] = v]
  /\ pc' = [pc EXCEPT ![p] = "evict"]
  /\ UNCHANGED <<isClosed, forced, closeDone, gate, idleGeneration, fired,
                 closingIdle, cancelled, shutVars>>

(* closeConsumer(ctx, evicted); closers.Done() *)
CloseEvicted(p) ==
  /\ pc[p] = "evict"
  /\ client' = [client EXCEPT ![evicting[p]] = "closed"]
  /\ closers' = closers - 1
  /\ evicting' = [evicting EXCEPT ![p] = None]
  /\ pc' = [pc EXCEPT ![p] = "wait"]
  /\ UNCHANGED <<consumers, isClosed, forced, closeDone, key, users, gate,
                 idleTimer, idleGeneration, older, timerVars, at, cancelled,
                 shutVars>>

-----------------------------------------------------------------------------
(* Consume: waitForConsumer, the use of the client, release *)

TakeGate(p) ==
  /\ pc[p] = "wait"
  /\ ~gate[at[p]]
  /\ gate' = [gate EXCEPT ![at[p]] = TRUE]
  /\ pc' = [pc EXCEPT ![p] = "check"]
  /\ UNCHANGED <<managerVars, key, users, idleTimer, idleGeneration, older,
                 client, timerVars, at, evicting, cancelled, shutVars>>

GiveUp(p) ==
  /\ pc[p] = "wait"
  /\ Stopped(p)
  /\ pc' = [pc EXCEPT ![p] = "unpin"]
  /\ UNCHANGED <<managerVars, consumerVars, timerVars, at, evicting,
                 cancelled, shutVars>>

(* The permit and a cancellation can be ready together: check again. *)
Recheck(p) ==
  /\ pc[p] = "check"
  /\ \/ /\ Stopped(p)
        /\ gate' = [gate EXCEPT ![at[p]] = FALSE]
        /\ pc' = [pc EXCEPT ![p] = "unpin"]
     \/ /\ ~Stopped(p)
        /\ pc' = [pc EXCEPT ![p] = "use"]
        /\ UNCHANGED gate
  /\ UNCHANGED <<managerVars, key, users, idleTimer, idleGeneration, older,
                 client, timerVars, at, evicting, cancelled, shutVars>>

(* Consume returns from the work on the client, whatever its result: the    *)
(* deferred function gives the permit back before it releases the pin.      *)
EndUseKeepingPermit(p) ==
  /\ pc[p] = "use"
  /\ pc' = [pc EXCEPT ![p] = "unpin"]
  /\ UNCHANGED <<managerVars, consumerVars, timerVars, at, evicting, cancelled,
                 shutVars>>

EndUse(p) ==
  /\ pc[p] = "use"
  /\ gate' = [gate EXCEPT ![at[p]] = FALSE]
  /\ pc' = [pc EXCEPT ![p] = "unpin"]
  /\ UNCHANGED <<managerVars, key, users, idleTimer, idleGeneration, older,
                 client, timerVars, at, evicting, cancelled, shutVars>>

(* The condition under which release schedules the idle timer. *)
SchedulesIdle(u) == u = 0 /\ ~isClosed

(* release(c).  Only consumers with no user are compared by lastUsed, and   *)
(* their last assignment of it is the one made here, so the assignments in  *)
(* acquire are never read and are left out.                                 *)
Release(p) ==
  LET c == at[p]
      u == IF users[c] > 0 THEN users[c] - 1 ELSE 0
      g == idleGeneration[c] + 1
      idle == SchedulesIdle(u)
  IN
  /\ pc[p] = "unpin"
  /\ users' = [users EXCEPT ![c] = u]
  /\ older' = {o \in older : o[1] # c}
                \cup {<<d, c>> : d \in Cached \ {c}}
  /\ closers' = IF idle THEN closers + 1 ELSE closers
  /\ idleGeneration' = IF idle THEN [idleGeneration EXCEPT ![c] = g]
                               ELSE idleGeneration
  /\ idleTimer' = IF idle THEN [idleTimer EXCEPT ![c] = g] ELSE idleTimer
  /\ armed' = IF idle THEN armed \cup {<<c, g>>} ELSE armed
  /\ pc' = [pc EXCEPT ![p] = "done"]
  /\ at' = [at EXCEPT ![p] = None]
  /\ UNCHANGED <<consumers, isClosed, forced, closeDone, key, gate, client,
                 fired, closingIdle, evicting, cancelled, shutVars>>

(* The request's context is cancelled by its client or its deadline. *)
Cancel(p) ==
  /\ pc[p] # "done" /\ ~cancelled[p]
  /\ cancelled' = [cancelled EXCEPT ![p] = TRUE]
  /\ UNCHANGED <<managerVars, consumerVars, timerVars, pc, at, evicting,
                 shutVars>>

-----------------------------------------------------------------------------
(* The idle timers *)

FireTimer(c, g) ==
  /\ <<c, g>> \in armed
  /\ armed' = armed \ {<<c, g>>}
  /\ fired' = fired \cup {<<c, g>>}
  /\ UNCHANGED <<managerVars, consumerVars, closingIdle, callVars, shutVars>>

(* The guard of expireConsumer. *)
MayExpireAnyGeneration(c, g) ==
  ~isClosed /\ users[c] = 0 /\ idleTimer[c] # 0 /\ consumers[key[c]] = c

MayExpireInUse(c, g) ==
  ~isClosed /\ idleGeneration[c] = g /\ consumers[key[c]] = c

MayExpire(c, g) ==
  /\ ~isClosed
  /\ users[c] = 0
  /\ idleTimer[c] # 0
  /\ idleGeneration[c] = g
  /\ consumers[key[c]] = c

ExpireConsumer(c, g) ==
  /\ <<c, g>> \in fired
  /\ fired' = fired \ {<<c, g>>}
  /\ \/ /\ MayExpire(c, g)
        /\ consumers' = [consumers EXCEPT ![key[c]] = None]
        /\ idleTimer' = [idleTimer EXCEPT ![c] = 0]
        /\ older' = {o \in older : c \notin {o[1], o[2]}}
        /\ closingIdle' = closingIdle \cup {<<c, g>>}
        /\ UNCHANGED closers
     \/ /\ ~MayExpire(c, g)
        /\ closers' = closers - 1
        /\ UNCHANGED <<consumers, idleTimer, older, closingIdle>>
  /\ UNCHANGED <<isClosed, forced, closeDone, key, users, gate,
                 idleGeneration, client, armed, callVars, shutVars>>

CloseExpired(c, g) ==
  /\ <<c, g>> \in closingIdle
  /\ closingIdle' = closingIdle \ {<<c, g>>}
  /\ client' = [client EXCEPT ![c] = "closed"]
  /\ closers' = closers - 1
  /\ UNCHANGED <<consumers, isClosed, forced, closeDone, key, users, gate,
                 idleTimer, idleGeneration, older, armed, fired, callVars,
                 shutVars>>

-----------------------------------------------------------------------------
(* CloseContext *)

(* context.AfterFunc(ctx, forceCancel) is registered ... *)
EnterClose(q) ==
  /\ shut[q] = "start"
  /\ shut' = [shut EXCEPT ![q] = "entered"]
  /\ UNCHANGED <<managerVars, consumerVars, timerVars, callVars, closeStage>>

(* ... and runs when that context is cancelled before the call returned.   *)
ForceCancel(q) ==
  /\ shut[q] \in {"entered", "closing", "joining"}
  /\ forced' = TRUE
  /\ UNCHANGED <<consumers, isClosed, closeDone, closers, consumerVars,
                 timerVars, callVars, shutVars>>

CloseFirst(q) ==
  LET stopped == UNION {Stoppable(c) : c \in Cached} IN
  /\ shut[q] = "entered"
  /\ ~isClosed
  /\ isClosed' = TRUE
  /\ armed' = armed \ stopped
  /\ closers' = closers - Cardinality(stopped)
  /\ idleTimer' = [c \in Clients |-> IF c \in Cached THEN 0 ELSE idleTimer[c]]
  /\ closeStage' = [c \in Clients |->
                      IF c \in Cached THEN "queued" ELSE closeStage[c]]
  /\ consumers' = [k \in Keys |-> None]
  /\ older' = {}
  /\ shut' = [shut EXCEPT ![q] = "closing"]
  /\ UNCHANGED <<forced, closeDone, key, users, gate, idleGeneration, client,
                 fired, closingIdle, callVars>>

CloseAgain(q) ==
  /\ shut[q] = "entered"
  /\ isClosed
  /\ shut' = [shut EXCEPT ![q] = "joining"]
  /\ UNCHANGED <<managerVars, consumerVars, timerVars, callVars, closeStage>>

Workers == {c \in Clients : closeStage[c] \in {"waiting", "gated", "ungated"}}

WorkerTake(c) ==
  /\ closeStage[c] = "queued"
  /\ Cardinality(Workers) < MaxCloseWorkers
  /\ closeStage' = [closeStage EXCEPT ![c] = "waiting"]
  /\ UNCHANGED <<managerVars, consumerVars, timerVars, callVars, shut>>

(* closeAfterCallback: the permit, or the forced shutdown, starts the close *)
WorkerProceedPolitely(c) ==
  /\ closeStage[c] = "waiting"
  /\ ~gate[c]
  /\ gate' = [gate EXCEPT ![c] = TRUE]
  /\ closeStage' = [closeStage EXCEPT ![c] = "gated"]
  /\ UNCHANGED <<managerVars, key, users, idleTimer, idleGeneration, older,
                 client, timerVars, callVars, shut>>

WorkerProceed(c) ==
  /\ closeStage[c] = "waiting"
  /\ \/ /\ ~gate[c]
        /\ gate' = [gate EXCEPT ![c] = TRUE]
        /\ closeStage' = [closeStage EXCEPT ![c] = "gated"]
     \/ /\ forced
        /\ closeStage' = [closeStage EXCEPT ![c] = "ungated"]
        /\ UNCHANGED gate
  /\ UNCHANGED <<managerVars, key, users, idleTimer, idleGeneration, older,
                 client, timerVars, callVars, shut>>

WorkerClose(c) ==
  /\ closeStage[c] \in {"gated", "ungated"}
  /\ client' = [client EXCEPT ![c] = "closed"]
  /\ gate' = IF closeStage[c] = "gated" THEN [gate EXCEPT ![c] = FALSE]
                                        ELSE gate
  /\ closeStage' = [closeStage EXCEPT ![c] = "finished"]
  /\ UNCHANGED <<managerVars, key, users, idleTimer, idleGeneration, older,
                 timerVars, callVars, shut>>

(* pending.Wait(); closers.Wait() *)
Joined ==
  /\ \A c \in Clients : closeStage[c] \in {"none", "finished"}
  /\ closers = 0

(* pending.Wait(); closers.Wait(); forceCancel(); close(closeDone) *)
FinishClose(q) ==
  /\ shut[q] = "closing"
  /\ Joined
  /\ forced' = TRUE
  /\ closeDone' = TRUE
  /\ shut' = [shut EXCEPT ![q] = "returned"]
  /\ UNCHANGED <<consumers, isClosed, closers, consumerVars, timerVars,
                 callVars, closeStage>>

JoinClose(q) ==
  /\ shut[q] = "joining"
  /\ closeDone
  /\ shut' = [shut EXCEPT ![q] = "returned"]
  /\ UNCHANGED <<managerVars, consumerVars, timerVars, callVars, closeStage>>

-----------------------------------------------------------------------------
AcquireNext(p) ==
  \/ \E k \in Keys : AcquireRefused(p, k) \/ AcquireExisting(p, k)
  \/ \E k \in Keys, c \in Clients : AcquireNew(p, k, c)
  \/ \E k \in Keys, c, v \in Clients : AcquireEvicting(p, k, c, v)

CallNext(p) ==
  \/ AcquireNext(p) \/ CloseEvicted(p) \/ TakeGate(p) \/ GiveUp(p)
  \/ Recheck(p) \/ EndUse(p) \/ Release(p) \/ Cancel(p)

TimerNext ==
  \/ \E t \in armed : FireTimer(t[1], t[2])
  \/ \E t \in fired : ExpireConsumer(t[1], t[2])
  \/ \E t \in closingIdle : CloseExpired(t[1], t[2])

ShutdownNext ==
  \/ \E q \in Shutdowns : \/ EnterClose(q) \/ ForceCancel(q) \/ CloseFirst(q)
                          \/ CloseAgain(q) \/ FinishClose(q) \/ JoinClose(q)
  \/ \E c \in Clients : WorkerTake(c) \/ WorkerProceed(c) \/ WorkerClose(c)

Next ==
  \/ \E p \in Calls : CallNext(p)
  \/ TimerNext
  \/ ShutdownNext

Spec == Init /\ [][Next]_vars

(* What the Go runtime and the clients' own timeouts guarantee: a runnable   *)
(* goroutine runs, a started client close ends (closeConsumer bounds it by   *)
(* m.timeout), a started timer fires, the shutdown deadline passes, and a    *)
(* goroutine blocked on a channel send is served in turn (strong fairness).  *)
(* Nothing is assumed of how long a callback keeps the client in "use".      *)
Fairness ==
  /\ \A p \in Calls :
       /\ WF_vars(CloseEvicted(p)) /\ SF_vars(TakeGate(p)) /\ WF_vars(GiveUp(p))
       /\ WF_vars(Recheck(p)) /\ WF_vars(Release(p))
  /\ WF_vars(TimerNext)
  /\ \A q \in Shutdowns :
       /\ WF_vars(ForceCancel(q)) /\ WF_vars(CloseFirst(q))
       /\ WF_vars(CloseAgain(q)) /\ WF_vars(FinishClose(q))
       /\ WF_vars(JoinClose(q))
  /\ \A c \in Clients : /\ WF_vars(WorkerTake(c)) /\ WF_vars(WorkerProceed(c))
                        /\ WF_vars(WorkerClose(c))

FairSpec == Spec /\ Fairness

-----------------------------------------------------------------------------
PcValues == {"start", "evict", "wait", "check", "use", "unpin", "done"}
StageValues == {"none", "queued", "waiting", "gated", "ungated", "finished"}

Typed ==
  /\ consumers \in [Keys -> Clients \cup {None}]
  /\ isClosed \in BOOLEAN /\ forced \in BOOLEAN /\ closeDone \in BOOLEAN
  /\ closers \in Int
  /\ key \in [Clients -> Keys \cup {None}]
  /\ users \in [Clients -> Nat]
  /\ gate \in [Clients -> BOOLEAN]
  /\ idleTimer \in [Clients -> Nat]
  /\ idleGeneration \in [Clients -> Nat]
  /\ older \subseteq Clients \X Clients
  /\ client \in [Clients -> {"absent", "open", "closed"}]
  /\ armed \subseteq Clients \X Nat
  /\ fired \subseteq Clients \X Nat
  /\ closingIdle \subseteq Clients \X Nat
  /\ pc \in [Calls -> PcValues]
  /\ at \in [Calls -> Clients \cup {None}]
  /\ evicting \in [Calls -> Clients \cup {None}]
  /\ cancelled \in [Calls -> BOOLEAN]
  /\ shut \in [Shutdowns -> {"start", "entered", "closing", "joining", "returned"}]
  /\ closeStage \in [Clients -> StageValues]

(* The values the fields of Manager, groupConsumer and the goroutines take;  *)
(* the WaitGroup counter is never negative (Done would panic).               *)
TypeOK == Typed /\ closers >= 0

Holds(p) == pc[p] \in {"check", "use"}

(* "Calls for the same topic and group are serialized so offsets are         *)
(* processed and committed in order": no two calls hold a permit for the     *)
(* same key at once, not even on two consumers that were cached for that key *)
(* one after the other (an idle expiry or an eviction in between).           *)
Serialized ==
  \A p, q \in Calls :
    p # q /\ Holds(p) /\ Holds(q) => key[at[p]] # key[at[q]]

(* A call never works on a closed client unless a shutdown was forced:       *)
(* eviction, idle expiry and an unforced CloseContext only close a client    *)
(* no call is using.                                                         *)
NoUseAfterClose ==
  \A p \in Calls : pc[p] = "use" /\ client[at[p]] = "closed" => forced

ShutdownOwns(c) == closeStage[c] \in {"queued", "waiting", "gated", "ungated"}

Owners(c) ==
  {<<"cache", k>> : k \in {k \in Keys : consumers[k] = c}}
    \cup {<<"evict", p>> : p \in {p \in Calls : evicting[p] = c}}
    \cup {<<"expire", t[2]>> : t \in {t \in closingIdle : t[1] = c}}
    \cup {<<"shutdown", d>> : d \in {d \in {c} : ShutdownOwns(d)}}

(* An open client is either cached or being closed by exactly one party (the *)
(* evicting call, the idle timer's callback, or CloseContext), and a closed  *)
(* one by none: no client leaks and none is closed twice.                    *)
OwnedOnce ==
  \A c \in Clients :
    Cardinality(Owners(c)) = IF client[c] = "open" THEN 1 ELSE 0

Evictions == {p \in Calls : pc[p] = "evict"}

(* The WaitGroup counts exactly the scheduled timers, the running callbacks  *)
(* and the evictions in progress: it never goes negative (which panics) and  *)
(* never leaves CloseContext waiting for a reference nobody will give back.  *)
WaitGroupExact ==
  closers = Cardinality(armed) + Cardinality(fired)
              + Cardinality(closingIdle) + Cardinality(Evictions)

(* Once the manager is closed nothing adds to the WaitGroup CloseContext is   *)
(* about to wait for (an Add that races Wait at zero is misuse).              *)
NoAddAfterClose == [][isClosed => closers' <= closers]_vars

(* When CloseContext has announced closeDone, "the underlying Kafka clients  *)
(* are fully closed", and no timer or callback of the manager is left.       *)
ClosedWhenDone ==
  closeDone => /\ \A c \in Clients : client[c] # "open"
               /\ Timers = {}

(* Idle timers and idleness agree: a scheduled timer is the current timer of *)
(* a cached consumer with no users (a stale one never outlives the idle      *)
(* period it measures), and every cached consumer with no users has a timer  *)
(* or callback that will remove it from its Kafka group.                     *)
IdleTimersExact ==
  /\ \A t \in armed : /\ t[1] \in Cached /\ users[t[1]] = 0
                      /\ idleTimer[t[1]] = t[2]
  /\ \A c \in Cached :
       users[c] = 0 => /\ idleTimer[c] = idleGeneration[c]
                       /\ <<c, idleTimer[c]>> \in armed \cup fired

(* CloseContext returns once its context expired, even when a callback never *)
(* returns and while evictions and expiries are closing detached consumers.  *)
ShutdownReturns ==
  \A q \in Shutdowns : <>[](shut[q] \in {"start", "returned"})

(* Every queued call gets the permit or an error, unless a callback never    *)
(* returns: the permit is not lost and no waiter is passed over forever.     *)
(* And none waits for ever once its context is done or the manager closes.   *)
QueuedCallServed ==
  \A p \in Calls :
    <>[](pc[p] = "wait") =>
      <>[](~Stopped(p) /\ \E q \in Calls \ {p} : pc[q] = "use")
=============================================================================
