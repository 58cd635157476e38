--------------------------- MODULE KafkaPopProofs ---------------------------
(***************************************************************************)
(* Proofs about KafkaPop for every number of calls, keys, consumers and    *)
(* shutdowns and every value of the two limits, and, in the last part,     *)
(* that KafkaPopDelivery implements PopQueue for every number of records.  *)
(***************************************************************************)
EXTENDS KafkaPopDelivery, FiniteSetTheorems, TLAPS

(* The phases in which a call has a pinned consumer, and a victim to close. *)
Located ==
  \A p \in Calls : /\ (pc[p] \notin {"start", "done"}) <=> (at[p] # None)
                   /\ (pc[p] = "evict") <=> (evicting[p] # None)

(* The types, where the calls are, and that there are finitely many timers. *)
Shape ==
  /\ Typed
  /\ Located
  /\ IsFiniteSet(armed) /\ IsFiniteSet(fired) /\ IsFiniteSet(closingIdle)

(* stopIdleTimer stops at most one timer. *)
LEMMA StoppableFacts ==
  ASSUME NEW c, IsFiniteSet(armed)
  PROVE  /\ IsFiniteSet(Stoppable(c)) /\ Cardinality(Stoppable(c)) \in Nat
         /\ IsFiniteSet(armed \ Stoppable(c))
         /\ Cardinality(armed \ Stoppable(c))
              = Cardinality(armed) - Cardinality(Stoppable(c))
<1> DEFINE S == Stoppable(c)
<1>1. S \subseteq armed
  BY Zenon DEF Stoppable
<1>2. armed \cap S = S
  BY <1>1, Zenon
<1>3. IsFiniteSet(S) /\ Cardinality(S) \in Nat
  BY <1>1, FS_Subset, FS_CardinalityType, Zenon
<1>4. QED
  BY <1>2, <1>3, FS_Difference, Zenon

(* The timer a step is about belongs to a consumer and has a generation. *)
LEMMA TimerCases ==
  Typed /\ TimerNext =>
    \E c \in Clients, g \in Nat :
      FireTimer(c, g) \/ ExpireConsumer(c, g) \/ CloseExpired(c, g)
<1> SUFFICES ASSUME Typed, NEW t \in armed \cup fired \cup closingIdle,
                    \/ FireTimer(t[1], t[2]) \/ ExpireConsumer(t[1], t[2])
                    \/ CloseExpired(t[1], t[2])
             PROVE  \E c \in Clients, g \in Nat :
                      FireTimer(c, g) \/ ExpireConsumer(c, g)
                        \/ CloseExpired(c, g)
  BY Zenon DEF TimerNext
<1>1. t[1] \in Clients /\ t[2] \in Nat
  BY Zenon DEF Typed
<1>2. QED
  BY <1>1, Zenon

(* A new manager has the shape. *)
LEMMA ShapeInit == Init => Shape
<1> SUFFICES ASSUME Init PROVE Shape
  BY Zenon
<1>1. /\ consumers \in [Keys -> Clients \cup {None}]
      /\ closers \in Int
      /\ key \in [Clients -> Keys \cup {None}]
      /\ users \in [Clients -> Nat]
      /\ gate \in [Clients -> BOOLEAN]
      /\ idleTimer \in [Clients -> Nat]
      /\ idleGeneration \in [Clients -> Nat]
  BY DEF Init
<1>a. isClosed \in BOOLEAN /\ forced \in BOOLEAN /\ closeDone \in BOOLEAN
  BY Zenon DEF Init
<1>2. /\ client \in [Clients -> {"absent", "open", "closed"}]
      /\ pc \in [Calls -> PcValues]
      /\ at \in [Calls -> Clients \cup {None}]
      /\ evicting \in [Calls -> Clients \cup {None}]
      /\ cancelled \in [Calls -> BOOLEAN]
      /\ shut \in [Shutdowns ->
                    {"start", "entered", "closing", "joining", "returned"}]
      /\ closeStage \in [Clients -> StageValues]
  BY Zenon DEF Init, PcValues, StageValues
<1>3. Typed
  BY <1>1, <1>2, <1>a, Zenon DEF Init, Typed
<1>4. IsFiniteSet(armed) /\ IsFiniteSet(fired) /\ IsFiniteSet(closingIdle)
  BY FS_EmptySet, Zenon DEF Init
<1>5. QED
  BY <1>3, <1>4, Zenon DEF Init, Shape, Located

(* Every step of a call, a timer or a shutdown keeps the shape of the state. *)
LEMMA ShapeNext == Shape /\ [Next]_vars => Shape'
<1> SUFFICES ASSUME Shape, [Next]_vars PROVE Shape'
  BY Zenon
<1> USE PopAssumption DEF Shape, Typed, Located, PcValues, StageValues, managerVars,
        consumerVars, timerVars, callVars, shutVars
<1>1. ASSUME NEW p \in Calls, NEW k \in Keys, AcquireRefused(p, k)
      PROVE  Shape'
  BY <1>1, Zenon DEF AcquireRefused
<1>2. ASSUME NEW p \in Calls, NEW k \in Keys, AcquireExisting(p, k)
      PROVE  Shape'
  <2> DEFINE c == consumers[k]
  <2>1. c \in Clients
    BY <1>2 DEF AcquireExisting
  <2>2. Cardinality(Stoppable(c)) \in Nat /\ IsFiniteSet(armed')
    BY <1>2, StoppableFacts, Zenon DEF AcquireExisting
  <2>3. QED
    BY <1>2, <2>1, <2>2 DEF AcquireExisting
<1>3. ASSUME NEW p \in Calls, NEW k \in Keys, NEW c \in Clients,
             AcquireNew(p, k, c)
      PROVE  Shape'
  BY <1>3, Zenon DEF AcquireNew, Create
<1>4. ASSUME NEW p \in Calls, NEW k \in Keys, NEW c \in Clients,
             NEW v \in Clients,
             AcquireEvicting(p, k, c, v)
      PROVE  Shape'
  <2>1. Cardinality(Stoppable(v)) \in Nat /\ IsFiniteSet(armed')
    BY <1>4, StoppableFacts, Zenon DEF AcquireEvicting
  <2>2. QED
    BY <1>4, <2>1 DEF AcquireEvicting, Create
<1>5. ASSUME NEW p \in Calls, CloseEvicted(p)
      PROVE  Shape'
  <2>1. evicting[p] \in Clients
    BY <1>5, Zenon DEF CloseEvicted
  <2>2. QED
    BY <1>5, <2>1 DEF CloseEvicted
<1>6. ASSUME NEW p \in Calls, TakeGate(p)
      PROVE  Shape'
  BY <1>6, Zenon DEF TakeGate
<1>7. ASSUME NEW p \in Calls, GiveUp(p)
      PROVE  Shape'
  BY <1>7, Zenon DEF GiveUp
<1>8. ASSUME NEW p \in Calls, Recheck(p)
      PROVE  Shape'
  <2>1. \E v \in {"unpin", "use"} : pc' = [pc EXCEPT ![p] = v]
    BY <1>8, Zenon DEF Recheck
  <2>2. gate' = [gate EXCEPT ![at[p]] = FALSE] \/ gate' = gate
    BY <1>8, Zenon DEF Recheck
  <2>3. gate' \in [Clients -> BOOLEAN]
    BY ZenonT(30), <2>2
  <2>4. pc[p] = "check" /\ UNCHANGED <<at, evicting>>
    BY <1>8, Zenon DEF Recheck
  <2>5. pc' \in [Calls -> PcValues] /\ Located'
    BY <2>1, <2>4
  <2>6. QED
    BY <1>8, <2>3, <2>4, <2>5, Zenon DEF Recheck
<1>9. ASSUME NEW p \in Calls, EndUse(p)
      PROVE  Shape'
  BY <1>9, Zenon DEF EndUse
<1>10. ASSUME NEW p \in Calls, Release(p)
      PROVE  Shape'
  <2> DEFINE c == at[p]
  <2>1. c \in Clients
    BY <1>10, Zenon DEF Release
  <2> DEFINE t == <<c, idleGeneration[c] + 1>>
  <2>a. t \in Clients \X Nat
    BY <2>1
  <2>b. IsFiniteSet(armed \cup {t})
    BY ZenonT(30), FS_AddElement
  <2>c. armed' = armed \/ armed' = armed \cup {t}
    BY <1>10, Zenon DEF Release
  <2>2. IsFiniteSet(armed') /\ armed' \subseteq Clients \X Nat
    BY ZenonT(30), <2>a, <2>b, <2>c
  <2>3. older' \subseteq Clients \X Clients
    BY <1>10, <2>1 DEF Release, Cached
  <2>4. users' \in [Clients -> Nat] /\ idleTimer' \in [Clients -> Nat]
        /\ idleGeneration' \in [Clients -> Nat]
    BY <1>10, <2>1 DEF Release
  <2>5. QED
    BY <1>10, <2>1, <2>2, <2>3, <2>4 DEF Release
<1>11. ASSUME NEW p \in Calls, Cancel(p)
      PROVE  Shape'
  BY <1>11, Zenon DEF Cancel
<1>12. ASSUME NEW c \in Clients, NEW g \in Nat, FireTimer(c, g)
      PROVE  Shape'
  <2>1. IsFiniteSet(armed') /\ IsFiniteSet(fired')
    BY ZenonT(30), <1>12, FS_AddElement, FS_RemoveElement DEF FireTimer
  <2>2. QED
    BY <1>12, <2>1, Zenon DEF FireTimer
<1>13. ASSUME NEW c \in Clients, NEW g \in Nat, ExpireConsumer(c, g)
      PROVE  Shape'
  <2>1. IsFiniteSet(fired')
    BY ZenonT(30), <1>13, FS_RemoveElement DEF ExpireConsumer
  <2>a. IsFiniteSet(closingIdle \cup {<<c, g>>})
    BY ZenonT(30), FS_AddElement
  <2>2. IsFiniteSet(closingIdle')
    BY ZenonT(30), <1>13, <2>a DEF ExpireConsumer
  <2>3. QED
    BY <1>13, <2>1, <2>2 DEF ExpireConsumer
<1>14. ASSUME NEW c \in Clients, NEW g \in Nat, CloseExpired(c, g)
      PROVE  Shape'
  <2>1. IsFiniteSet(closingIdle')
    BY ZenonT(30), <1>14, FS_RemoveElement DEF CloseExpired
  <2>2. QED
    BY <1>14, <2>1 DEF CloseExpired
<1>15. ASSUME NEW q \in Shutdowns, EnterClose(q)
      PROVE  Shape'
  BY <1>15, Zenon DEF EnterClose
<1>16. ASSUME NEW q \in Shutdowns, ForceCancel(q)
      PROVE  Shape'
  BY <1>16, Zenon DEF ForceCancel
<1>17. ASSUME NEW q \in Shutdowns, CloseFirst(q)
      PROVE  Shape'
  <2> DEFINE stopped == UNION {Stoppable(c) : c \in Cached}
  <2>1. stopped \subseteq armed
    BY Zenon DEF Stoppable
  <2>2. IsFiniteSet(stopped) /\ Cardinality(stopped) \in Nat
    BY <2>1, FS_Subset, FS_CardinalityType, Zenon
  <2>3. IsFiniteSet(armed \ stopped)
    BY ZenonT(30), FS_Difference
  <2> HIDE DEF stopped
  <2>4. QED
    BY <1>17, <2>2, <2>3 DEF CloseFirst, stopped
<1>18. ASSUME NEW q \in Shutdowns, CloseAgain(q)
      PROVE  Shape'
  BY <1>18, Zenon DEF CloseAgain
<1>19. ASSUME NEW c \in Clients, WorkerTake(c)
      PROVE  Shape'
  BY <1>19, Zenon DEF WorkerTake
<1>20. ASSUME NEW c \in Clients, WorkerProceed(c)
      PROVE  Shape'
  BY ZenonT(30), <1>20 DEF WorkerProceed
<1>21. ASSUME NEW c \in Clients, WorkerClose(c)
      PROVE  Shape'
  BY <1>21, Zenon DEF WorkerClose
<1>22. ASSUME NEW q \in Shutdowns, FinishClose(q)
      PROVE  Shape'
  BY <1>22, Zenon DEF FinishClose
<1>23. ASSUME NEW q \in Shutdowns, JoinClose(q)
      PROVE  Shape'
  BY <1>23, Zenon DEF JoinClose
<1>24. CASE UNCHANGED vars
  BY <1>24, Zenon DEF vars
<1>25. QED
  BY ZenonT(30), <1>1, <1>2, <1>3, <1>4, <1>5, <1>6, <1>7, <1>8, <1>9,
     <1>10, <1>11, <1>12, <1>13, <1>14, <1>15, <1>16, <1>17,
     <1>18, <1>19, <1>20, <1>21, <1>22, <1>23, <1>24,
     TimerCases DEF Next, CallNext, AcquireNext, ShutdownNext

-----------------------------------------------------------------------------
(* The WaitGroup: a timer is in one of its three states, and generations are *)
(* handed out in increasing order, so the next one is new.                   *)
Counted ==
  /\ WaitGroupExact
  /\ armed \cap fired = {} /\ armed \cap closingIdle = {}
  /\ fired \cap closingIdle = {}
  /\ \A c \in Clients, g \in Nat :
       <<c, g>> \in armed \cup fired \cup closingIdle => g <= idleGeneration[c]

(* There are finitely many evictions to wait for, one per call at most. *)
LEMMA EvictionsFinite ==
  IsFiniteSet(Evictions) /\ Cardinality(Evictions) \in Nat
  BY PopAssumption, FS_Subset, FS_CardinalityType, Zenon DEF Evictions

(* A new manager waits for nothing. *)
LEMMA CountedInit == Init => Counted
<1> SUFFICES ASSUME Init PROVE Counted
  BY Zenon
<1>1. armed = {} /\ fired = {} /\ closingIdle = {} /\ Evictions = {} /\ closers = 0
  BY Zenon DEF Init, Evictions
<1>2. QED
  BY <1>1, FS_EmptySet DEF Counted, WaitGroupExact

(* closers.Add and closers.Done go with the timers, callbacks and evictions *)
(* they stand for, in every step.                                           *)
LEMMA CountedNext == Shape /\ Counted /\ [Next]_vars => Counted'
<1> SUFFICES ASSUME Shape, Counted, [Next]_vars PROVE Counted'
  BY Zenon
<1> USE DEF managerVars, consumerVars, timerVars, callVars, shutVars
<1>a. /\ Cardinality(armed) \in Nat /\ Cardinality(fired) \in Nat
      /\ Cardinality(closingIdle) \in Nat /\ Cardinality(Evictions) \in Nat
      /\ IsFiniteSet(armed) /\ IsFiniteSet(fired) /\ IsFiniteSet(closingIdle)
      /\ IsFiniteSet(Evictions) /\ closers \in Int
  BY FS_CardinalityType, EvictionsFinite, Zenon DEF Shape, Typed
<1>b. /\ pc \in [Calls -> PcValues] /\ idleGeneration \in [Clients -> Nat]
      /\ armed \subseteq Clients \X Nat /\ fired \subseteq Clients \X Nat
      /\ closingIdle \subseteq Clients \X Nat
  BY Zenon DEF Shape, Typed
<1>1. ASSUME NEW p \in Calls, NEW k \in Keys, AcquireRefused(p, k)
      PROVE  Counted'
  <2>1. Evictions' = Evictions
    BY <1>1, <1>b, Zenon DEF AcquireRefused, Evictions
  <2>2. QED
    BY <1>1, <2>1, Zenon DEF AcquireRefused, Counted, WaitGroupExact
<1>2. ASSUME NEW p \in Calls, NEW k \in Keys, AcquireExisting(p, k)
      PROVE  Counted'
  <2> DEFINE S == Stoppable(consumers[k])
  <2>1. Evictions' = Evictions
    BY <1>2, <1>b, Zenon DEF AcquireExisting, Evictions
  <2>2. /\ Cardinality(S) \in Nat
        /\ Cardinality(armed \ S) = Cardinality(armed) - Cardinality(S)
    BY <1>a, StoppableFacts, Zenon
  <2>3. /\ armed' = armed \ S /\ closers' = closers - Cardinality(S)
        /\ fired' = fired /\ closingIdle' = closingIdle
    BY <1>2, Zenon DEF AcquireExisting
  <2> HIDE DEF S
  <2>4. WaitGroupExact'
    BY <1>a, <2>1, <2>2, <2>3 DEF Counted, WaitGroupExact
  <2>5. QED
    BY <1>2, <2>3, <2>4, Zenon DEF AcquireExisting, Counted
<1>3. ASSUME NEW p \in Calls, NEW k \in Keys, NEW c \in Clients,
             AcquireNew(p, k, c)
      PROVE  Counted'
  <2>1. Evictions' = Evictions
    BY <1>3, <1>b, Zenon DEF AcquireNew, Create, Evictions
  <2>2. QED
    BY <1>3, <2>1, Zenon DEF AcquireNew, Counted, WaitGroupExact
<1>4. ASSUME NEW p \in Calls, NEW k \in Keys, NEW c \in Clients,
             NEW v \in Clients,
             AcquireEvicting(p, k, c, v)
      PROVE  Counted'
  <2> DEFINE S == Stoppable(v)
  <2>1. p \notin Evictions /\ Evictions' = Evictions \cup {p}
    BY <1>4, <1>b, Zenon DEF AcquireEvicting, Create, Evictions
  <2>2. Cardinality(Evictions') = Cardinality(Evictions) + 1
    BY ZenonT(30), <1>a, <2>1, FS_AddElement
  <2>3. /\ Cardinality(S) \in Nat
        /\ Cardinality(armed \ S) = Cardinality(armed) - Cardinality(S)
    BY <1>a, StoppableFacts, Zenon
  <2>4. /\ armed' = armed \ S /\ closers' = closers - Cardinality(S) + 1
        /\ fired' = fired /\ closingIdle' = closingIdle
    BY <1>4, Zenon DEF AcquireEvicting
  <2> HIDE DEF S
  <2>5. WaitGroupExact'
    BY <1>a, <2>2, <2>3, <2>4 DEF Counted, WaitGroupExact
  <2>6. QED
    BY <1>4, <2>4, <2>5, Zenon DEF AcquireEvicting, Counted
<1>5. ASSUME NEW p \in Calls, CloseEvicted(p)
      PROVE  Counted'
  <2>1. p \in Evictions /\ Evictions' = Evictions \ {p}
    BY <1>5, <1>b, Zenon DEF CloseEvicted, Evictions
  <2>2. Cardinality(Evictions') = Cardinality(Evictions) - 1
    BY ZenonT(30), <1>a, <2>1, FS_RemoveElement
  <2>3. QED
    BY <1>5, <1>a, <2>2 DEF CloseEvicted, Counted, WaitGroupExact
<1>6. ASSUME NEW p \in Calls, TakeGate(p)
      PROVE  Counted'
  <2>1. Evictions' = Evictions
    BY <1>6, <1>b, Zenon DEF TakeGate, Evictions
  <2>2. QED
    BY <1>6, <2>1, Zenon DEF TakeGate, Counted, WaitGroupExact
<1>7. ASSUME NEW p \in Calls, GiveUp(p)
      PROVE  Counted'
  <2>1. Evictions' = Evictions
    BY <1>7, <1>b, Zenon DEF GiveUp, Evictions
  <2>2. QED
    BY <1>7, <2>1, Zenon DEF GiveUp, Counted, WaitGroupExact
<1>8. ASSUME NEW p \in Calls, Recheck(p)
      PROVE  Counted'
  <2>1. Evictions' = Evictions
    BY <1>8, <1>b, Zenon DEF Recheck, Evictions
  <2>2. QED
    BY <1>8, <2>1, Zenon DEF Recheck, Counted, WaitGroupExact
<1>9. ASSUME NEW p \in Calls, EndUse(p)
      PROVE  Counted'
  <2>1. Evictions' = Evictions
    BY <1>9, <1>b, Zenon DEF EndUse, Evictions
  <2>2. QED
    BY <1>9, <2>1, Zenon DEF EndUse, Counted, WaitGroupExact
<1>10. ASSUME NEW p \in Calls, Release(p)
      PROVE  Counted'
  <2> DEFINE c == at[p]
             t == <<c, idleGeneration[c] + 1>>
  <2>1. Evictions' = Evictions
    BY <1>10, <1>b, Zenon DEF Release, Evictions
  <2>2. c \in Clients
    BY <1>10, Zenon DEF Release, Shape, Typed, Located
  <2>3. t \notin armed \cup fired \cup closingIdle
    BY <1>b, <2>2 DEF Counted
  <2>4. Cardinality(armed \cup {t}) = Cardinality(armed) + 1
    BY ZenonT(30), <1>a, <2>3, FS_AddElement
  <2>5. CASE armed' = armed
    <3>1. closers' = closers /\ idleGeneration' = idleGeneration
      BY <1>10, <2>3, <2>5, Zenon DEF Release
    <3>2. QED
      BY <1>10, <2>1, <2>5, <3>1, Zenon DEF Release, Counted, WaitGroupExact
  <2>6. CASE armed' # armed
    <3>1. /\ closers' = closers + 1 /\ armed' = armed \cup {t}
          /\ idleGeneration' = [idleGeneration EXCEPT ![c] = idleGeneration[c] + 1]
      BY <1>10, <2>6, Zenon DEF Release
    <3>2. WaitGroupExact'
      BY <1>10, <1>a, <2>1, <2>4, <3>1, SMTT(30) DEF Release, Counted, WaitGroupExact
    <3>3. \A d \in Clients, g \in Nat :
            <<d, g>> \in (armed \cup fired \cup closingIdle)' => g <= idleGeneration'[d]
      BY <1>10, <1>b, <2>2, <3>1 DEF Release, Counted
    <3>4. QED
      BY <1>10, <2>3, <3>1, <3>2, <3>3, Zenon DEF Release, Counted
  <2>7. QED
    BY <2>5, <2>6, Zenon
<1>11. ASSUME NEW p \in Calls, Cancel(p)
      PROVE  Counted'
  BY <1>11, Zenon DEF Cancel, Counted, WaitGroupExact, Evictions
<1>12. ASSUME NEW c \in Clients, NEW g \in Nat, FireTimer(c, g)
      PROVE  Counted'
  <2> DEFINE t == <<c, g>>
  <2>1. Cardinality(armed \ {t}) = Cardinality(armed) - 1
    BY ZenonT(30), <1>12, <1>a, FS_RemoveElement DEF FireTimer
  <2>2. Cardinality(fired \cup {t}) = Cardinality(fired) + 1
    BY ZenonT(30), <1>12, <1>a, FS_AddElement DEF FireTimer, Counted
  <2>3. WaitGroupExact'
    BY <1>12, <1>a, <2>1, <2>2 DEF FireTimer, Counted, WaitGroupExact, Evictions
  <2>4. QED
    BY <1>12, <2>3, Zenon DEF FireTimer, Counted
<1>13. ASSUME NEW c \in Clients, NEW g \in Nat, ExpireConsumer(c, g)
      PROVE  Counted'
  <2> DEFINE t == <<c, g>>
  <2>1. Cardinality(fired \ {t}) = Cardinality(fired) - 1
    BY ZenonT(30), <1>13, <1>a, FS_RemoveElement DEF ExpireConsumer
  <2>2. Cardinality(closingIdle \cup {t}) = Cardinality(closingIdle) + 1
    BY ZenonT(30), <1>13, <1>a, FS_AddElement DEF ExpireConsumer, Counted
  <2>a. /\ Evictions' = Evictions /\ armed' = armed /\ fired' = fired \ {t}
        /\ \/ closingIdle' = closingIdle \cup {t} /\ closers' = closers
           \/ closingIdle' = closingIdle /\ closers' = closers - 1
    BY <1>13, Zenon DEF ExpireConsumer, Evictions
  <2>3. WaitGroupExact'
    <3> HIDE DEF t
    <3>1. CASE closingIdle' = closingIdle \cup {t} /\ closers' = closers
      BY <1>a, <2>1, <2>2, <2>a, <3>1 DEF Counted, WaitGroupExact
    <3>2. CASE closingIdle' = closingIdle /\ closers' = closers - 1
      BY <1>a, <2>1, <2>a, <3>2 DEF Counted, WaitGroupExact
    <3>3. QED
      BY <2>a, <3>1, <3>2, Zenon
  <2>4. QED
    BY <1>13, <2>3, Zenon DEF ExpireConsumer, Counted
<1>14. ASSUME NEW c \in Clients, NEW g \in Nat, CloseExpired(c, g)
      PROVE  Counted'
  <2>1. Cardinality(closingIdle \ {<<c, g>>}) = Cardinality(closingIdle) - 1
    BY ZenonT(30), <1>14, <1>a, FS_RemoveElement DEF CloseExpired
  <2>2. WaitGroupExact'
    BY <1>14, <1>a, <2>1 DEF CloseExpired, Counted, WaitGroupExact, Evictions
  <2>3. QED
    BY <1>14, <2>2, Zenon DEF CloseExpired, Counted
<1>15. ASSUME NEW q \in Shutdowns, EnterClose(q)
      PROVE  Counted'
  BY <1>15, Zenon DEF EnterClose, Counted, WaitGroupExact, Evictions
<1>16. ASSUME NEW q \in Shutdowns, ForceCancel(q)
      PROVE  Counted'
  BY <1>16, Zenon DEF ForceCancel, Counted, WaitGroupExact, Evictions
<1>17. ASSUME NEW q \in Shutdowns, CloseFirst(q)
      PROVE  Counted'
  <2> DEFINE S == UNION {Stoppable(c) : c \in Cached}
  <2>1. S \subseteq armed /\ armed \cap S = S
    BY Zenon DEF Stoppable
  <2>2. /\ Cardinality(S) \in Nat
        /\ Cardinality(armed \ S) = Cardinality(armed) - Cardinality(S)
    <3>1. IsFiniteSet(S)
      BY <1>a, <2>1, FS_Subset, Zenon
    <3> HIDE DEF S
    <3>2. QED
      BY ZenonT(30), <1>a, <2>1, <3>1, FS_Difference, FS_CardinalityType
  <2>3. /\ armed' = armed \ S /\ closers' = closers - Cardinality(S)
        /\ fired' = fired /\ closingIdle' = closingIdle
        /\ Evictions' = Evictions
    BY <1>17, Zenon DEF CloseFirst, Evictions
  <2> HIDE DEF S
  <2>4. WaitGroupExact'
    BY <1>a, <2>2, <2>3 DEF Counted, WaitGroupExact
  <2>5. QED
    BY <1>17, <2>3, <2>4, Zenon DEF CloseFirst, Counted
<1>18. ASSUME NEW q \in Shutdowns, CloseAgain(q)
      PROVE  Counted'
  BY <1>18, Zenon DEF CloseAgain, Counted, WaitGroupExact, Evictions
<1>19. ASSUME NEW c \in Clients, WorkerTake(c)
      PROVE  Counted'
  BY <1>19, Zenon DEF WorkerTake, Counted, WaitGroupExact, Evictions
<1>20. ASSUME NEW c \in Clients, WorkerProceed(c)
      PROVE  Counted'
  BY <1>20, Zenon DEF WorkerProceed, Counted, WaitGroupExact, Evictions
<1>21. ASSUME NEW c \in Clients, WorkerClose(c)
      PROVE  Counted'
  BY <1>21, Zenon DEF WorkerClose, Counted, WaitGroupExact, Evictions
<1>22. ASSUME NEW q \in Shutdowns, FinishClose(q)
      PROVE  Counted'
  BY <1>22, Zenon DEF FinishClose, Counted, WaitGroupExact, Evictions
<1>23. ASSUME NEW q \in Shutdowns, JoinClose(q)
      PROVE  Counted'
  BY <1>23, Zenon DEF JoinClose, Counted, WaitGroupExact, Evictions
<1>24. CASE UNCHANGED vars
  BY <1>24, Zenon DEF vars, Counted, WaitGroupExact, Evictions
<1>25. QED
  BY <1>1, <1>2, <1>3, <1>4, <1>5, <1>6, <1>7, <1>8, <1>9,
     <1>10, <1>11, <1>12, <1>13, <1>14, <1>15, <1>16, <1>17,
     <1>18, <1>19, <1>20, <1>21, <1>22, <1>23, <1>24,
     TimerCases, ZenonT(40) DEF Shape, Next, CallNext, AcquireNext, ShutdownNext

(* Every reachable state has the shape: variables in their types, a call at  *)
(* a consumer while it waits, works or releases, and finitely many timers.   *)
THEOREM ShapeInvariant == Spec => []Shape
  BY ShapeInit, ShapeNext, PTL DEF Spec

(* The WaitGroup and the timer generations are right in every state. *)
LEMMA CountedInvariant == Spec => []Counted
  BY ShapeInvariant, CountedInit, CountedNext, PTL DEF Spec

(* For every instance: the WaitGroup's counter is the number of scheduled    *)
(* timers, running callbacks and evictions, so closers.Done never panics and *)
(* CloseContext never waits for a reference nobody gives back.               *)
THEOREM WaitGroupCorrect == Spec => []WaitGroupExact
<1>1. Counted => WaitGroupExact
  BY Zenon DEF Counted
<1>2. QED
  BY <1>1, CountedInvariant, PTL

(* Type correctness; that the counter is not negative needs its exact value. *)
THEOREM TypeCorrect == Spec => []TypeOK
<1>1. Shape /\ Counted => TypeOK
  <2> SUFFICES ASSUME Shape, Counted PROVE closers >= 0
    BY Zenon DEF TypeOK, Shape
  <2>1. /\ Cardinality(armed) \in Nat /\ Cardinality(fired) \in Nat
        /\ Cardinality(closingIdle) \in Nat /\ Cardinality(Evictions) \in Nat
    BY FS_CardinalityType, EvictionsFinite, Zenon DEF Shape
  <2>2. QED
    BY <2>1 DEF Counted, WaitGroupExact
<1>2. QED
  BY <1>1, ShapeInvariant, CountedInvariant, PTL

-----------------------------------------------------------------------------
(* Who owns a consumer *)

Pinned(c) == {p \in Calls : at[p] = c}

(* users counts the calls that pinned the consumer. *)
PinsCounted == \A c \in Clients : users[c] = Cardinality(Pinned(c))

(* A cached consumer is cached under its own key, is open and is nobody's to *)
(* close; CloseContext empties the cache.                                    *)
CacheOK ==
  /\ \A k \in Keys :
       consumers[k] # None => /\ key[consumers[k]] = k
                              /\ client[consumers[k]] = "open"
                              /\ closeStage[consumers[k]] = "none"
  /\ isClosed => \A k \in Keys : consumers[k] = None

(* A pinned consumer stays cached until CloseContext takes it over, and two  *)
(* calls of one key have pinned the same consumer.                           *)
PinsOK ==
  /\ \A p \in Calls :
       at[p] # None => /\ key[at[p]] \in Keys
                       /\ client[at[p]] # "absent"
                       /\ ~isClosed => consumers[key[at[p]]] = at[p]
  /\ \A p, q \in Calls :
       at[p] # None /\ at[q] # None /\ key[at[p]] = key[at[q]] => at[p] = at[q]

Detached(c) ==
  /\ users[c] = 0 /\ client[c] = "open" /\ closeStage[c] = "none"
  /\ \A k \in Keys : consumers[k] # c

(* A consumer an evicting call or an idle callback closes is detached, and   *)
(* nobody else closes it.                                                    *)
ClosersOK ==
  /\ \A p \in Calls : evicting[p] # None => Detached(evicting[p])
  /\ \A c \in Clients, g \in Nat : <<c, g>> \in closingIdle => Detached(c)
  /\ \A p, q \in Calls : evicting[p] # None /\ evicting[p] = evicting[q] => p = q
  /\ \A c \in Clients, g, h \in Nat :
       <<c, g>> \in closingIdle /\ <<c, h>> \in closingIdle => g = h
  /\ \A p \in Calls, g \in Nat : <<evicting[p], g>> \notin closingIdle

(* What CloseContext's workers have taken over. *)
StagesOK ==
  /\ \A c \in Clients :
       /\ closeStage[c] # "none" => isClosed
       /\ ShutdownOwns(c) => client[c] = "open"
       /\ closeStage[c] = "finished" => client[c] = "closed"
  /\ \A c \in Clients, g \in Nat :
       <<c, g>> \in armed \cup fired \cup closingIdle => key[c] \in Keys

(* An open client has somebody who will close it. *)
OpenOwned ==
  \A c \in Clients :
    client[c] = "open" =>
      \/ \E k \in Keys : consumers[k] = c
      \/ \E p \in Calls : evicting[p] = c
      \/ \E g \in Nat : <<c, g>> \in closingIdle
      \/ ShutdownOwns(c)

Ownership == PinsCounted /\ CacheOK /\ PinsOK /\ ClosersOK /\ StagesOK /\ OpenOwned


(* inUse is zero exactly when no call is at the consumer. *)
LEMMA UnpinnedFact ==
  ASSUME PinsCounted, NEW c \in Clients, users[c] = 0
  PROVE  \A p \in Calls : at[p] # c
<1>1. IsFiniteSet(Pinned(c))
  BY PopAssumption, FS_Subset, Zenon DEF Pinned
<1>2. Pinned(c) = {}
  BY <1>1, FS_EmptySet, Zenon DEF PinsCounted
<1>3. QED
  BY <1>2, Zenon DEF Pinned

(* The three ways the set of calls that pinned a consumer changes. *)
LEMMA PinsAdd ==
  ASSUME Typed, PinsCounted, NEW p \in Calls, NEW c \in Clients, at[p] = None,
         at' = [at EXCEPT ![p] = c], users' = [users EXCEPT ![c] = users[c] + 1]
  PROVE  PinsCounted'
<1> SUFFICES ASSUME NEW d \in Clients
             PROVE  users'[d] = Cardinality({q \in Calls : at'[q] = d})
  BY Zenon DEF PinsCounted, Pinned
<1>1. IsFiniteSet(Pinned(d)) /\ users[d] = Cardinality(Pinned(d))
  BY ZenonT(30), PopAssumption, FS_Subset DEF Pinned, PinsCounted
<1>2. CASE d = c
  <2>1. p \notin Pinned(d) /\ {q \in Calls : at'[q] = d} = Pinned(d) \cup {p}
    BY <1>2, PopAssumption DEF Pinned, Typed
  <2>2. Cardinality(Pinned(d) \cup {p}) = Cardinality(Pinned(d)) + 1
    BY ZenonT(30), <1>1, <2>1, FS_AddElement
  <2>3. users'[d] = users[d] + 1
    BY <1>2, Zenon DEF Typed
  <2>4. QED
    BY <1>1, <2>1, <2>2, <2>3, Zenon
<1>3. CASE d # c
  <2>1. {q \in Calls : at'[q] = d} = Pinned(d)
    BY <1>3, PopAssumption, Zenon DEF Pinned, Typed
  <2>2. QED
    BY <1>1, <1>3, <2>1, Zenon DEF Typed
<1>4. QED
  BY <1>2, <1>3, Zenon

(* release takes its call from the consumer's pins and from no other's. *)
LEMMA PinsRemove ==
  ASSUME Typed, PinsCounted, NEW p \in Calls, NEW c \in Clients, at[p] = c,
         at' = [at EXCEPT ![p] = None],
         users' = [users EXCEPT ![c] = IF users[c] > 0 THEN users[c] - 1 ELSE 0]
  PROVE  PinsCounted'
<1> SUFFICES ASSUME NEW d \in Clients
             PROVE  users'[d] = Cardinality({q \in Calls : at'[q] = d})
  BY Zenon DEF PinsCounted, Pinned
<1>1. IsFiniteSet(Pinned(d)) /\ users[d] = Cardinality(Pinned(d))
  BY ZenonT(30), PopAssumption, FS_Subset DEF Pinned, PinsCounted
<1>2. CASE d = c
  <2>1. p \in Pinned(d) /\ {q \in Calls : at'[q] = d} = Pinned(d) \ {p}
    BY <1>2, PopAssumption, Zenon DEF Pinned, Typed
  <2>2. users[c] > 0
    BY <1>1, <1>2, <2>1, FS_EmptySet DEF Typed
  <2>3. Cardinality(Pinned(d) \ {p}) = Cardinality(Pinned(d)) - 1
    BY ZenonT(30), <1>1, <2>1, FS_RemoveElement
  <2>4. users'[d] = users[d] - 1
    BY <1>2, <2>2, Zenon DEF Typed
  <2>5. QED
    BY <1>1, <2>1, <2>3, <2>4, Zenon
<1>3. CASE d # c
  <2>1. {q \in Calls : at'[q] = d} = Pinned(d)
    BY <1>3, PopAssumption, Zenon DEF Pinned, Typed
  <2>2. QED
    BY ZenonT(30), <1>1, <1>3, <2>1 DEF Typed
<1>4. QED
  BY <1>2, <1>3, Zenon

(* The state Ownership reads. *)
ownershipVars == <<consumers, isClosed, key, users, client, armed, fired,
                   closingIdle, at, evicting, closeStage>>

(* What each part of Ownership depends on. *)
LEMMA PinsCountedKept == PinsCounted /\ UNCHANGED <<users, at>> => PinsCounted'
  BY Zenon DEF PinsCounted, Pinned

(* A step that leaves the cache and its consumers alone keeps CacheOK. *)
LEMMA CacheKept ==
  CacheOK /\ UNCHANGED <<consumers, isClosed, key, client, closeStage>> => CacheOK'
  BY SMTT(30) DEF CacheOK

(* A call that leaves its consumer disturbs no other pin. *)
LEMMA PinsShrunk ==
  ASSUME PinsOK, UNCHANGED <<consumers, isClosed, key, client>>,
         \A q \in Calls : at'[q] # None => at'[q] = at[q]
  PROVE  PinsOK'
<1>1. ASSUME NEW p \in Calls, at'[p] # None
      PROVE  /\ at'[p] = at[p] /\ key'[at'[p]] \in Keys /\ client'[at'[p]] # "absent"
             /\ ~isClosed' => consumers'[key'[at'[p]]] = at'[p]
  BY <1>1, Zenon DEF PinsOK
<1>2. ASSUME NEW p \in Calls, NEW q \in Calls, at'[p] # None, at'[q] # None,
             key'[at'[p]] = key'[at'[q]]
      PROVE  at'[p] = at'[q]
  BY <1>2 DEF PinsOK
<1>3. QED
  BY <1>1, <1>2, Zenon DEF PinsOK

(* A call that pins a cached consumer disturbs no other pin. *)
LEMMA PinsExtended ==
  ASSUME PinsOK, UNCHANGED <<consumers, isClosed, key, client>>, ~isClosed,
         NEW p \in Calls, NEW k \in Keys, NEW c \in Clients,
         key[c] = k, client[c] = "open", consumers[k] = c,
         \A q \in Calls : at'[q] = IF q = p THEN c ELSE at[q]
  PROVE  PinsOK'
<1>1. ASSUME NEW q \in Calls, at'[q] # None
      PROVE  /\ key'[at'[q]] \in Keys /\ client'[at'[q]] # "absent"
             /\ consumers'[key'[at'[q]]] = at'[q]
  <2>1. CASE q = p
    BY <2>1, Zenon
  <2>2. CASE q # p
    BY <1>1, <2>2, Zenon DEF PinsOK
  <2>3. QED
    BY <2>1, <2>2, Zenon
<1>2. QED
  BY <1>1 DEF PinsOK

(* A step that leaves the pins and the cache alone keeps PinsOK. *)
LEMMA PinsKept ==
  PinsOK /\ UNCHANGED <<consumers, isClosed, key, client, at>> => PinsOK'
  BY DEF PinsOK

(* A step that leaves the closers and what they close alone keeps ClosersOK. *)
LEMMA ClosersKept ==
  ClosersOK /\ UNCHANGED <<consumers, users, client, closingIdle, evicting, closeStage>>
    => ClosersOK'
  BY DEF ClosersOK, Detached

(* OpenOwned depends on the clients and on who will close them. *)
LEMMA OpenOwnedKept ==
  OpenOwned /\ UNCHANGED <<consumers, client, closingIdle, evicting, closeStage>>
    => OpenOwned'
  BY Zenon DEF OpenOwned, ShutdownOwns

(* Ownership speaks only of the variables in ownershipVars. *)
LEMMA OwnershipStutters ==
  Ownership /\ UNCHANGED ownershipVars => Ownership'
<1> SUFFICES ASSUME Ownership, UNCHANGED ownershipVars PROVE Ownership'
  BY Zenon
<1>1. PinsCounted' /\ CacheOK' /\ PinsOK'
  BY PinsCountedKept, CacheKept, PinsKept, Zenon DEF Ownership, ownershipVars
<1>2. ClosersOK' /\ OpenOwned'
  BY ClosersKept, OpenOwnedKept, Zenon DEF Ownership, ownershipVars
<1>3. StagesOK'
  BY Zenon DEF Ownership, ownershipVars, StagesOK, ShutdownOwns
<1>4. QED
  BY <1>1, <1>2, <1>3, Zenon DEF Ownership

(* A worker of CloseContext moves a consumer it owns on. *)
LEMMA StageMoves ==
  ASSUME Ownership, closeStage \in [Clients -> StageValues],
         NEW c \in Clients, ShutdownOwns(c), NEW s \in {"waiting", "gated", "ungated"},
         closeStage' = [closeStage EXCEPT ![c] = s],
         UNCHANGED <<consumers, isClosed, key, users, client, armed, fired,
                     closingIdle, at, evicting>>
  PROVE  Ownership'
<1>1. PinsCounted' /\ PinsOK'
  BY PinsCountedKept, PinsKept, Zenon DEF Ownership
<1>2. \A d \in Clients : /\ closeStage'[d] = "none" <=> closeStage[d] = "none"
                         /\ closeStage'[d] = "finished" <=> closeStage[d] = "finished"
                         /\ ShutdownOwns(d)' <=> ShutdownOwns(d)
  BY Zenon DEF ShutdownOwns
<1>3. CacheOK'
  <2>1. \A k \in Keys : consumers[k] # None => closeStage'[consumers[k]] = "none"
    <3> SUFFICES ASSUME NEW k \in Keys, consumers[k] # None
                 PROVE  closeStage'[consumers[k]] = "none"
      BY Zenon
    <3>1. closeStage[consumers[k]] = "none"
      BY Zenon DEF Ownership, CacheOK
    <3>2. consumers[k] # c
      BY <3>1, Zenon DEF ShutdownOwns
    <3>3. QED
      BY <3>1, <3>2
  <2>2. QED
    BY <2>1, Zenon DEF Ownership, CacheOK
<1>4. ClosersOK'
  <2>1. \A d : Detached(d) => Detached(d)'
    <3> SUFFICES ASSUME NEW d, Detached(d) PROVE Detached(d)'
      BY Zenon
    <3>1. d # c
      BY Zenon DEF Detached, ShutdownOwns
    <3>2. QED
      BY <3>1 DEF Detached
  <2>2. QED
    BY <2>1, Zenon DEF Ownership, ClosersOK
<1>5. StagesOK' /\ OpenOwned'
  BY <1>2, Zenon DEF Ownership, StagesOK, OpenOwned
<1>6. QED
  BY <1>1, <1>3, <1>4, <1>5, Zenon DEF Ownership

(* Closing a client that is not cached. *)
LEMMA CloseKeeps ==
  ASSUME Ownership, client \in [Clients -> {"absent", "open", "closed"}],
         consumers \in [Keys -> Clients \cup {None}],
         at \in [Calls -> Clients \cup {None}],
         NEW c \in Clients, \A k \in Keys : consumers[k] # c,
         client' = [client EXCEPT ![c] = "closed"],
         \A d \in Clients : d # c => closeStage'[d] = closeStage[d],
         UNCHANGED <<consumers, isClosed, key, users, at>>
  PROVE  /\ PinsCounted' /\ CacheOK' /\ PinsOK'
         /\ \A d \in Clients : d # c /\ Detached(d) => Detached(d)'
<1>1. PinsCounted'
  BY PinsCountedKept, Zenon DEF Ownership
<1>2. \A d \in Clients : d # c => client'[d] = client[d]
  BY Zenon
<1>3. CacheOK'
  <2>1. \A k \in Keys : consumers[k] # None =>
                           /\ client'[consumers[k]] = client[consumers[k]]
                           /\ closeStage'[consumers[k]] = closeStage[consumers[k]]
    BY <1>2, Zenon
  <2>2. QED
    BY <2>1, Zenon DEF Ownership, CacheOK
<1>4. PinsOK'
  <2>1. \A d \in Clients : client[d] # "absent" => client'[d] # "absent"
    BY <1>2, Zenon
  <2>2. \A p \in Calls : at[p] # None => client'[at[p]] # "absent"
    BY <2>1 DEF Ownership, PinsOK
  <2>3. QED
    BY <2>2, Zenon DEF Ownership, PinsOK
<1>5. \A d \in Clients : d # c /\ Detached(d) => Detached(d)'
  BY <1>2, Zenon DEF Detached
<1>6. QED
  BY <1>1, <1>3, <1>4, <1>5, Zenon

(* Nothing is open, cached or closing in a new manager. *)
LEMMA OwnershipInit == Init => Ownership
<1> SUFFICES ASSUME Init PROVE Ownership
  BY Zenon
<1>1. ASSUME NEW c \in Clients PROVE Pinned(c) = {}
  BY PopAssumption, Zenon DEF Init, Pinned
<1>2. PinsCounted
  BY <1>1, FS_EmptySet, Zenon DEF Init, PinsCounted
<1>3. QED
  BY <1>2, Zenon DEF Init, Ownership, CacheOK, PinsOK, ClosersOK, StagesOK,
              ShutdownOwns, OpenOwned

(* A client that does not exist yet is nobody's. *)
LEMMA AbsentUnowned ==
  ASSUME Ownership, NEW c \in Clients, client[c] = "absent",
         closeStage \in [Clients -> StageValues]
  PROVE  /\ \A q \in Calls : at[q] # c /\ evicting[q] # c
         /\ \A l \in Keys : consumers[l] # c
         /\ \A g \in Nat : <<c, g>> \notin closingIdle
         /\ closeStage[c] = "none"
<1>1. \A q \in Calls : at[q] # c
  BY PopAssumption, Zenon DEF Ownership, PinsOK
<1>2. \A l \in Keys : consumers[l] # c
  BY PopAssumption DEF Ownership, CacheOK
<1>3. ~ Detached(c)
  BY Zenon DEF Detached
<1>4. /\ \A q \in Calls : evicting[q] # c
      /\ \A g \in Nat : <<c, g>> \notin closingIdle
  BY <1>3, PopAssumption, Zenon DEF Ownership, ClosersOK
<1>5. closeStage[c] = "none"
  BY ZenonT(40) DEF Ownership, StagesOK, ShutdownOwns, StageValues
<1>6. QED
  BY <1>1, <1>2, <1>4, <1>5, Zenon

(* Acquire, release, expiry, eviction and shutdown hand a consumer from one  *)
(* owner to the next without ever leaving it without or with two.           *)
LEMMA OwnershipNext == Shape /\ Ownership /\ [Next]_vars => Ownership'
<1> SUFFICES ASSUME Shape, Ownership, [Next]_vars PROVE Ownership'
  BY Zenon
<1> USE DEF managerVars, consumerVars, timerVars, callVars, shutVars
<1>t. /\ consumers \in [Keys -> Clients \cup {None}]
      /\ key \in [Clients -> Keys \cup {None}] /\ users \in [Clients -> Nat]
      /\ client \in [Clients -> {"absent", "open", "closed"}]
      /\ at \in [Calls -> Clients \cup {None}]
      /\ evicting \in [Calls -> Clients \cup {None}]
      /\ closeStage \in [Clients -> StageValues]
  BY Zenon DEF Shape, Typed
<1>1. ASSUME NEW p \in Calls, NEW k \in Keys, AcquireRefused(p, k)
      PROVE  Ownership'
  BY <1>1, OwnershipStutters, Zenon DEF AcquireRefused, ownershipVars
<1>2. ASSUME NEW p \in Calls, NEW k \in Keys, AcquireExisting(p, k)
      PROVE  Ownership'
  <2> DEFINE c == consumers[k]
  <2>a. c \in Clients /\ at[p] = None /\ ~isClosed
    BY <1>2, PopAssumption, Zenon DEF AcquireExisting, Stopped, Shape, Typed, Located
  <2>b. /\ users' = [users EXCEPT ![c] = users[c] + 1] /\ at' = [at EXCEPT ![p] = c]
        /\ armed' \subseteq armed
        /\ UNCHANGED <<consumers, isClosed, key, client, fired, closingIdle, evicting, closeStage>>
    BY <1>2, Zenon DEF AcquireExisting
  <2>1. PinsCounted'
    BY ZenonT(30), <1>2, <2>a, PinsAdd DEF AcquireExisting, Shape, Ownership
  <2>2. CacheOK'
    BY <2>b, CacheKept, Zenon DEF Ownership
  <2>3. PinsOK'
    <3>1. key[c] = k /\ client[c] = "open" /\ consumers[k] = c
      BY <2>a, PopAssumption, Zenon DEF Ownership, CacheOK
    <3>2. \A q \in Calls : at'[q] = IF q = p THEN c ELSE at[q]
      BY <1>t, <2>b, Zenon
    <3>3. QED
      BY <2>a, <2>b, <3>1, <3>2, PinsExtended, Zenon DEF Ownership
  <2>4. ClosersOK'
    <3>1. \A d \in Clients : Detached(d) => Detached(d)'
      BY <1>t, <2>b, Zenon DEF Detached
    <3>2. QED
      BY <1>t, <2>b, <3>1, Zenon DEF Ownership, ClosersOK
  <2>5. StagesOK'
    BY ZenonT(30), <2>b DEF Ownership, StagesOK, ShutdownOwns
  <2>6. OpenOwned'
    BY <2>b, OpenOwnedKept, Zenon DEF Ownership
  <2>7. QED
    BY <2>1, <2>2, <2>3, <2>4, <2>5, <2>6, Zenon DEF Ownership
<1>3. ASSUME NEW p \in Calls, NEW k \in Keys, NEW c \in Clients,
             AcquireNew(p, k, c)
      PROVE  Ownership'
  <2>a. /\ at[p] = None /\ ~isClosed /\ client[c] = "absent" /\ consumers[k] = None
        /\ pc[p] = "start" /\ evicting[p] = None
    BY <1>3, Zenon DEF AcquireNew, Create, Stopped, Shape, Typed, Located
  <2>b. /\ \A q \in Calls : at[q] # c /\ evicting[q] # c
        /\ \A l \in Keys : consumers[l] # c
        /\ \A g \in Nat : <<c, g>> \notin closingIdle
        /\ closeStage[c] = "none"
    BY <1>t, <2>a, AbsentUnowned, Zenon
  <2>c. users[c] = 0
    <3>1. Pinned(c) = {}
      BY ZenonT(30), <2>b DEF Pinned
    <3>2. QED
      BY <3>1, FS_EmptySet, Zenon DEF Ownership, PinsCounted
  <2>d. /\ consumers' = [consumers EXCEPT ![k] = c]
        /\ client' = [client EXCEPT ![c] = "open"]
        /\ key' = [key EXCEPT ![c] = k] /\ users' = [users EXCEPT ![c] = 1]
        /\ at' = [at EXCEPT ![p] = c]
        /\ UNCHANGED <<isClosed, armed, fired, closingIdle, evicting, closeStage>>
    BY <1>3, Zenon DEF AcquireNew, Create
  <2>e. \A l \in Keys : consumers'[l] = IF l = k THEN c ELSE consumers[l]
    BY <1>t, <2>d, Zenon
  <2>1. PinsCounted'
    <3>1. users' = [users EXCEPT ![c] = users[c] + 1]
      BY <1>3, <2>c, SMTT(30) DEF AcquireNew, Create
    <3>2. QED
      BY ZenonT(30), <1>3, <2>a, <3>1, PinsAdd DEF AcquireNew, Create, Shape, Ownership
  <2>2. CacheOK'
    BY <1>t, <2>a, <2>b, <2>d, <2>e, PopAssumption, SMTT(30) DEF Ownership, CacheOK
  <2>3. PinsOK'
    <3>1. \A q \in Calls : q # p /\ at[q] # None =>
            /\ at'[q] = at[q] /\ key'[at[q]] = key[at[q]] /\ key[at[q]] \in Keys
            /\ client'[at[q]] # "absent" /\ consumers[key[at[q]]] = at[q]
            /\ key[at[q]] # k
      BY <1>t, <2>a, <2>b, <2>d, PopAssumption, Zenon DEF Ownership, PinsOK
    <3>2. at'[p] = c /\ key'[c] = k /\ client'[c] = "open"
      BY <1>t, <2>d, Zenon
    <3>3. QED
      BY <1>t, <2>d, <2>e, <3>1, <3>2, PopAssumption, SMTT(30) DEF PinsOK
  <2>4. ClosersOK'
    <3>1. ASSUME NEW d \in Clients, Detached(d), d # c PROVE Detached(d)'
      BY <1>t, <2>d, <2>e, <3>1, Zenon DEF Detached
    <3>2. QED
      BY <1>t, <2>b, <2>d, <3>1, Zenon DEF Ownership, ClosersOK
  <2>5. StagesOK'
    BY <1>t, <2>a, <2>d, Zenon DEF Ownership, StagesOK, ShutdownOwns
  <2>6. OpenOwned'
    BY <1>3, <2>a, <2>b, SMTT(30)
       DEF AcquireNew, Create, Shape, Typed, Ownership, OpenOwned, ShutdownOwns
  <2>7. QED
    BY <2>1, <2>2, <2>3, <2>4, <2>5, <2>6, Zenon DEF Ownership
<1>4. ASSUME NEW p \in Calls, NEW k \in Keys, NEW c \in Clients,
             NEW v \in Clients,
             AcquireEvicting(p, k, c, v)
      PROVE  Ownership'
  <2>a. /\ at[p] = None /\ ~isClosed /\ client[c] = "absent" /\ consumers[k] = None
        /\ pc[p] = "start" /\ evicting[p] = None
    BY ZenonT(30), <1>4 DEF AcquireEvicting, Create, Stopped, Shape, Typed, Located
  <2>b. /\ \A q \in Calls : at[q] # c /\ evicting[q] # c
        /\ \A l \in Keys : consumers[l] # c
        /\ \A g \in Nat : <<c, g>> \notin closingIdle
        /\ closeStage[c] = "none"
    BY <1>t, <2>a, AbsentUnowned, Zenon
  <2>c. users[c] = 0
    <3>1. Pinned(c) = {}
      BY <2>b, Zenon DEF Pinned
    <3>2. QED
      BY <3>1, FS_EmptySet, Zenon DEF Ownership, PinsCounted
  <2>d. /\ users[v] = 0 /\ key[v] \in Keys /\ consumers[key[v]] = v /\ v # c
        /\ client[v] = "open" /\ closeStage[v] = "none" /\ key[v] # k
        /\ \A q \in Calls : at[q] # v
    <3>1. PICK l \in Keys : consumers[l] = v
      BY <1>4, Zenon DEF AcquireEvicting, Victims, Cached
    <3>2. key[v] = l /\ client[v] = "open" /\ closeStage[v] = "none"
      BY <3>1, PopAssumption, Zenon DEF Ownership, CacheOK
    <3>3. users[v] = 0
      BY <1>4, Zenon DEF AcquireEvicting, Victims
    <3>4. \A q \in Calls : at[q] # v
      BY <3>3, UnpinnedFact, Zenon DEF Ownership
    <3>5. QED
      BY <2>a, <3>1, <3>2, <3>3, <3>4, PopAssumption, Zenon
  <2>e. /\ \A q \in Calls : evicting[q] # v
        /\ \A g \in Nat : <<v, g>> \notin closingIdle
    BY <2>d, PopAssumption, SMTT(30) DEF Ownership, ClosersOK, Detached
  <2>f. /\ consumers' = [consumers EXCEPT ![key[v]] = None, ![k] = c]
        /\ client' = [client EXCEPT ![c] = "open"]
        /\ key' = [key EXCEPT ![c] = k] /\ users' = [users EXCEPT ![c] = 1]
        /\ at' = [at EXCEPT ![p] = c]
        /\ evicting' = [evicting EXCEPT ![p] = v]
        /\ UNCHANGED <<isClosed, closingIdle, fired, closeStage>>
    BY <1>4, Zenon DEF AcquireEvicting, Create
  <2>g. /\ consumers \in [Keys -> Clients \cup {None}]
        /\ key \in [Clients -> Keys \cup {None}] /\ users \in [Clients -> Nat]
        /\ client \in [Clients -> {"absent", "open", "closed"}]
        /\ at \in [Calls -> Clients \cup {None}]
        /\ evicting \in [Calls -> Clients \cup {None}]
        /\ closeStage \in [Clients -> StageValues]
    BY Zenon DEF Shape, Typed
  <2>h. \A l \in Keys : /\ l = k => consumers'[l] = c
                        /\ l = key[v] => consumers'[l] = None
                        /\ l # k /\ l # key[v] => consumers'[l] = consumers[l]
    BY <2>d, <2>f, <2>g, Zenon
  <2>1. PinsCounted'
    <3>1. users' = [users EXCEPT ![c] = users[c] + 1]
      BY <1>4, <2>c, SMTT(30) DEF AcquireEvicting, Create
    <3>2. QED
      BY ZenonT(30), <1>4, <2>a, <3>1, PinsAdd DEF AcquireEvicting, Create, Shape, Ownership
  <2>2. CacheOK'
    BY <2>a, <2>b, <2>d, <2>f, <2>g, <2>h, PopAssumption, SMTT(30) DEF Ownership, CacheOK
  <2>3. PinsOK'
    <3>1. \A q \in Calls : q # p /\ at[q] # None =>
            /\ at'[q] = at[q] /\ key'[at[q]] = key[at[q]] /\ key[at[q]] \in Keys
            /\ client'[at[q]] # "absent" /\ consumers[key[at[q]]] = at[q]
            /\ key[at[q]] # k /\ key[at[q]] # key[v]
      BY <2>a, <2>b, <2>d, <2>f, <2>g, PopAssumption, SMTT(30) DEF Ownership, PinsOK
    <3>2. at'[p] = c /\ key'[c] = k /\ client'[c] = "open"
      BY <2>f, <2>g, Zenon
    <3>3. QED
      BY <2>f, <2>g, <2>h, <3>1, <3>2, PopAssumption, SMTT(30) DEF PinsOK
  <2>4. ClosersOK'
    <3>1. Detached(v)'
      BY <2>a, <2>d, <2>f, <2>g, <2>h, PopAssumption, SMTT(30) DEF Ownership, CacheOK, Detached
    <3>2. ASSUME NEW d \in Clients, Detached(d), d # c PROVE Detached(d)'
      BY <2>f, <2>g, <2>h, <3>2, PopAssumption, Zenon DEF Detached
    <3>3. QED
      BY <2>b, <2>d, <2>e, <2>f, <2>g, <3>1, <3>2, PopAssumption, ZenonT(40) DEF Ownership, ClosersOK
  <2>5. StagesOK'
    BY ZenonT(30), <1>4, PopAssumption DEF AcquireEvicting, Create, Shape, Typed,
          Located, Ownership, StagesOK, ShutdownOwns
  <2>6. OpenOwned'
    <3> SUFFICES ASSUME NEW d \in Clients, client'[d] = "open"
                 PROVE  \/ \E l \in Keys : consumers'[l] = d
                        \/ \E q \in Calls : evicting'[q] = d
                        \/ \E g \in Nat : <<d, g>> \in closingIdle'
                        \/ ShutdownOwns(d)'
      BY Zenon DEF OpenOwned
    <3>1. CASE d = c
      BY ZenonT(30), <2>h, <3>1
    <3>2. CASE d = v
      BY <2>f, <2>g, <3>2, Zenon
    <3>3. CASE d # c /\ d # v
      <4>1. client[d] = "open"
        BY <2>f, <2>g, <3>3, Zenon
      <4>2. ASSUME NEW l \in Keys, consumers[l] = d PROVE consumers'[l] = d
        BY <2>a, <2>d, <2>h, <3>3, <4>2, PopAssumption, ZenonT(40)
      <4>3. ASSUME NEW q \in Calls, evicting[q] = d PROVE evicting'[q] = d
        BY <2>a, <2>f, <2>g, <4>3, PopAssumption, Zenon
      <4>4. QED
        BY ZenonT(30), <2>f, <4>1, <4>2, <4>3 DEF Ownership, OpenOwned, ShutdownOwns
    <3>4. QED
      BY ZenonT(30), <3>1, <3>2, <3>3
  <2>7. QED
    BY <2>1, <2>2, <2>3, <2>4, <2>5, <2>6, Zenon DEF Ownership
<1>5. ASSUME NEW p \in Calls, CloseEvicted(p)
      PROVE  Ownership'
  <2> DEFINE v == evicting[p]
  <2>a. v \in Clients
    BY ZenonT(30), <1>5, PopAssumption DEF CloseEvicted, Shape, Typed, Located
  <2>b. Detached(v)
    BY ZenonT(30), <1>5, <2>a, PopAssumption DEF CloseEvicted, Shape, Located, Ownership, ClosersOK
  <2>c. /\ client' = [client EXCEPT ![v] = "closed"]
        /\ evicting' = [evicting EXCEPT ![p] = None]
        /\ UNCHANGED <<consumers, isClosed, key, users, armed, fired, closingIdle, at, closeStage>>
    BY <1>5, Zenon DEF CloseEvicted
  <2>d. /\ PinsCounted' /\ CacheOK' /\ PinsOK'
        /\ \A d \in Clients : d # v /\ Detached(d) => Detached(d)'
    BY ZenonT(30), <1>t, <2>a, <2>b, <2>c, CloseKeeps DEF Detached
  <2>e. /\ \A q \in Calls : q # p => evicting[q] # v
        /\ \A g \in Nat : <<v, g>> \notin closingIdle
    BY <2>a, PopAssumption, Zenon DEF Ownership, ClosersOK
  <2>4. ClosersOK'
    <3>1. \A q \in Calls : evicting'[q] # None => q # p /\ evicting'[q] = evicting[q]
      BY <1>t, <2>c, Zenon
    <3>2. \A q \in Calls : evicting'[q] # None => Detached(evicting[q])'
      BY <1>t, <2>d, <2>e, <3>1, Zenon DEF Ownership, ClosersOK
    <3>3. \A d \in Clients, g \in Nat : <<d, g>> \in closingIdle' => Detached(d)'
      BY <2>c, <2>d, <2>e, Zenon DEF Ownership, ClosersOK
    <3>4. /\ \A q, r \in Calls : evicting'[q] # None /\ evicting'[q] = evicting'[r] => q = r
          /\ \A d \in Clients, g, h \in Nat :
               <<d, g>> \in closingIdle' /\ <<d, h>> \in closingIdle' => g = h
      BY <2>c, <3>1, Zenon DEF Ownership, ClosersOK
    <3>5. \A q \in Calls, g \in Nat : <<evicting'[q], g>> \notin closingIdle'
      <4>1. \A g \in Nat : <<None, g>> \notin closingIdle
        BY PopAssumption, Zenon DEF Shape, Typed
      <4>2. QED
        BY <2>c, <3>1, <4>1, SMTT(30) DEF Ownership, ClosersOK
    <3>6. QED
      BY <3>2, <3>3, <3>4, <3>5, Zenon DEF ClosersOK
  <2>5. StagesOK'
    BY <1>t, <2>a, <2>b, <2>c, Zenon DEF Detached, Ownership, StagesOK, ShutdownOwns
  <2>6. OpenOwned'
    BY <1>t, <2>a, <2>c, Zenon DEF Ownership, OpenOwned, ShutdownOwns
  <2>7. QED
    BY <2>d, <2>4, <2>5, <2>6, Zenon DEF Ownership
<1>6. ASSUME NEW p \in Calls, TakeGate(p)
      PROVE  Ownership'
  BY <1>6, OwnershipStutters, Zenon DEF TakeGate, ownershipVars
<1>7. ASSUME NEW p \in Calls, GiveUp(p)
      PROVE  Ownership'
  BY <1>7, OwnershipStutters, Zenon DEF GiveUp, ownershipVars
<1>8. ASSUME NEW p \in Calls, Recheck(p)
      PROVE  Ownership'
  BY <1>8, OwnershipStutters, Zenon DEF Recheck, ownershipVars
<1>9. ASSUME NEW p \in Calls, EndUse(p)
      PROVE  Ownership'
  BY <1>9, OwnershipStutters, Zenon DEF EndUse, ownershipVars
<1>10. ASSUME NEW p \in Calls, Release(p)
      PROVE  Ownership'
  <2>a. at[p] \in Clients
    BY ZenonT(30), <1>10, PopAssumption DEF Release, Shape, Typed, Located
  <2>b. /\ users' = [users EXCEPT ![at[p]] = IF users[at[p]] > 0 THEN users[at[p]] - 1 ELSE 0]
        /\ at' = [at EXCEPT ![p] = None]
        /\ UNCHANGED <<consumers, isClosed, key, client, fired, closingIdle, evicting, closeStage>>
        /\ \E g : armed' \subseteq armed \cup {<<at[p], g>>}
    BY ZenonT(30), <1>10 DEF Release
  <2>1. PinsCounted'
    BY ZenonT(30), <1>10, <2>a, PinsRemove DEF Release, Shape, Ownership
  <2>2. CacheOK'
    BY <2>b, CacheKept, Zenon DEF Ownership
  <2>3. PinsOK'
    <3>1. \A q \in Calls : at'[q] # None => at'[q] = at[q]
      BY <1>t, <2>b, Zenon
    <3>2. QED
      BY <2>b, <3>1, PinsShrunk, Zenon DEF Ownership
  <2>4. ClosersOK'
    <3>1. \A d \in Clients : users[d] = 0 => users'[d] = 0
      BY <1>t, <2>a, <2>b
    <3>2. \A d \in Clients : Detached(d) => Detached(d)'
      BY <2>b, <3>1, Zenon DEF Detached
    <3>3. QED
      BY <1>t, <2>b, <3>2, Zenon DEF Ownership, ClosersOK
  <2>5. StagesOK'
    <3>1. key[at[p]] \in Keys
      BY <2>a, PopAssumption, Zenon DEF Ownership, PinsOK
    <3>2. QED
      BY <2>b, <3>1, Zenon DEF Ownership, StagesOK, ShutdownOwns
  <2>6. OpenOwned'
    BY <2>b, OpenOwnedKept, Zenon DEF Ownership
  <2>7. QED
    BY <2>1, <2>2, <2>3, <2>4, <2>5, <2>6, Zenon DEF Ownership
<1>11. ASSUME NEW p \in Calls, Cancel(p)
      PROVE  Ownership'
  BY <1>11, OwnershipStutters, Zenon DEF Cancel, ownershipVars
<1>12. ASSUME NEW c \in Clients, NEW g \in Nat, FireTimer(c, g)
      PROVE  Ownership'
  <2>a. /\ (armed \cup fired \cup closingIdle)' = armed \cup fired \cup closingIdle
        /\ UNCHANGED <<consumers, isClosed, key, users, client, closingIdle, at,
                       evicting, closeStage>>
    BY <1>12, Zenon DEF FireTimer
  <2>1. PinsCounted' /\ CacheOK' /\ PinsOK'
    BY <2>a, PinsCountedKept, CacheKept, PinsKept, Zenon DEF Ownership
  <2>2. ClosersOK' /\ OpenOwned'
    BY <2>a, ClosersKept, OpenOwnedKept, Zenon DEF Ownership
  <2>3. StagesOK'
    BY <2>a, Zenon DEF Ownership, StagesOK, ShutdownOwns
  <2>4. QED
    BY <2>1, <2>2, <2>3, Zenon DEF Ownership
<1>13. ASSUME NEW c \in Clients, NEW g \in Nat, ExpireConsumer(c, g)
      PROVE  Ownership'
  <2>a. CASE ~MayExpire(c, g)
    <3>1. /\ fired' \subseteq fired
          /\ UNCHANGED <<consumers, isClosed, key, users, client, armed, closingIdle, at,
                         evicting, closeStage>>
      BY <1>13, <2>a, Zenon DEF ExpireConsumer
    <3>2. PinsCounted' /\ CacheOK' /\ PinsOK'
      BY <3>1, PinsCountedKept, CacheKept, PinsKept, Zenon DEF Ownership
    <3>3. ClosersOK' /\ OpenOwned'
      BY <3>1, ClosersKept, OpenOwnedKept, Zenon DEF Ownership
    <3>4. StagesOK'
      BY <3>1, Zenon DEF Ownership, StagesOK, ShutdownOwns
    <3>5. QED
      BY <3>2, <3>3, <3>4, Zenon DEF Ownership
  <2>b. SUFFICES ASSUME MayExpire(c, g) PROVE Ownership'
    BY <2>a, Zenon
  <2>c. key[c] \in Keys
    BY <1>13, Zenon DEF ExpireConsumer, Ownership, StagesOK
  <2>d. /\ users[c] = 0 /\ consumers[key[c]] = c /\ ~isClosed
        /\ client[c] = "open" /\ closeStage[c] = "none"
        /\ \A q \in Calls : at[q] # c
        /\ \A l \in Keys : consumers[l] = c => l = key[c]
    <3>1. users[c] = 0 /\ consumers[key[c]] = c /\ ~isClosed
      BY <2>b, Zenon DEF MayExpire
    <3>2. \A q \in Calls : at[q] # c
      BY <3>1, UnpinnedFact, Zenon DEF Ownership
    <3>3. QED
      BY <2>c, <3>1, <3>2, PopAssumption DEF Ownership, CacheOK
  <2>e. /\ \A q \in Calls : evicting[q] # c
        /\ \A h \in Nat : <<c, h>> \notin closingIdle
    BY <2>c, <2>d, PopAssumption, SMTT(30) DEF Ownership, ClosersOK, Detached
  <2>f. /\ consumers' = [consumers EXCEPT ![key[c]] = None]
        /\ closingIdle' = closingIdle \cup {<<c, g>>}
        /\ fired' \subseteq fired /\ <<c, g>> \in fired
        /\ UNCHANGED <<isClosed, key, users, client, armed, at, evicting, closeStage>>
    BY <1>13, <2>b, Zenon DEF ExpireConsumer
  <2>g. \A l \in Keys : consumers'[l] = IF l = key[c] THEN None ELSE consumers[l]
    BY <1>t, <2>f, Zenon
  <2>1. PinsCounted'
    BY <2>f, Zenon DEF Ownership, PinsCounted, Pinned
  <2>2. CacheOK'
    BY <2>f, <2>g DEF Ownership, CacheOK
  <2>3. PinsOK'
    <3>1. \A q \in Calls : at[q] # None => consumers'[key[at[q]]] = at[q]
      BY <2>d, <2>g, SMTT(30) DEF Ownership, PinsOK
    <3>2. QED
      BY ZenonT(30), <2>f, <3>1 DEF Ownership, PinsOK
  <2>4. ClosersOK'
    <3>1. \A e \in Clients : Detached(e) => Detached(e)'
      BY <2>f, <2>g, PopAssumption, Zenon DEF Detached
    <3>2. Detached(c)'
      BY <2>d, <2>f, <2>g, PopAssumption, ZenonT(40) DEF Detached
    <3>3. \A q \in Calls : evicting'[q] # None => Detached(evicting[q])'
      BY <1>t, <2>f, <3>1, Zenon DEF Ownership, ClosersOK
    <3>4. \A e \in Clients, h \in Nat : <<e, h>> \in closingIdle' => Detached(e)'
      BY <2>f, <3>1, <3>2, Zenon DEF Ownership, ClosersOK
    <3>5. /\ \A e \in Clients, h, i \in Nat :
               <<e, h>> \in closingIdle' /\ <<e, i>> \in closingIdle' => h = i
          /\ \A q \in Calls, h \in Nat : <<evicting'[q], h>> \notin closingIdle'
      BY <2>e, <2>f, Zenon DEF Ownership, ClosersOK
    <3>6. QED
      BY <2>f, <3>3, <3>4, <3>5, Zenon DEF Ownership, ClosersOK
  <2>5. StagesOK'
    BY <2>c, <2>f, Zenon DEF Ownership, StagesOK, ShutdownOwns
  <2>6. OpenOwned'
    <3> SUFFICES ASSUME NEW e \in Clients, client'[e] = "open"
                 PROVE  \/ \E l \in Keys : consumers'[l] = e
                        \/ \E q \in Calls : evicting'[q] = e
                        \/ \E h \in Nat : <<e, h>> \in closingIdle'
                        \/ ShutdownOwns(e)'
      BY Zenon DEF OpenOwned
    <3>1. CASE e = c
      BY <2>f, <3>1, Zenon
    <3>2. CASE e # c
      <4>1. \A l \in Keys : consumers[l] = e => consumers'[l] = e
        BY <2>d, <2>g, <3>2, Zenon
      <4>2. QED
        BY <2>f, <4>1, Zenon DEF Ownership, OpenOwned, ShutdownOwns
    <3>3. QED
      BY <3>1, <3>2, Zenon
  <2>7. QED
    BY <2>1, <2>2, <2>3, <2>4, <2>5, <2>6, Zenon DEF Ownership
<1>14. ASSUME NEW c \in Clients, NEW g \in Nat, CloseExpired(c, g)
      PROVE  Ownership'
  <2>b. Detached(c)
    BY <1>14, Zenon DEF CloseExpired, Ownership, ClosersOK
  <2>c. /\ client' = [client EXCEPT ![c] = "closed"]
        /\ closingIdle' = closingIdle \ {<<c, g>>} /\ <<c, g>> \in closingIdle
        /\ UNCHANGED <<consumers, isClosed, key, users, armed, fired, at, evicting, closeStage>>
    BY <1>14, Zenon DEF CloseExpired
  <2>d. /\ PinsCounted' /\ CacheOK' /\ PinsOK'
        /\ \A d \in Clients : d # c /\ Detached(d) => Detached(d)'
    BY ZenonT(30), <1>t, <2>b, <2>c, CloseKeeps DEF Detached
  <2>e. /\ \A q \in Calls : evicting[q] # c
        /\ \A h \in Nat : <<c, h>> \notin closingIdle'
    BY <2>c, Zenon DEF Ownership, ClosersOK
  <2>4. ClosersOK'
    <3>1. \A q \in Calls : evicting'[q] # None => Detached(evicting[q])'
      BY <1>t, <2>c, <2>d, <2>e, Zenon DEF Ownership, ClosersOK
    <3>2. \A d \in Clients, h \in Nat : <<d, h>> \in closingIdle' => Detached(d)'
      BY <2>c, <2>d, <2>e, Zenon DEF Ownership, ClosersOK
    <3>3. QED
      BY <2>c, <3>1, <3>2, Zenon DEF Ownership, ClosersOK
  <2>5. StagesOK'
    BY <1>t, <2>b, <2>c, Zenon DEF Detached, Ownership, StagesOK, ShutdownOwns
  <2>6. OpenOwned'
    BY <1>t, <2>c, Zenon DEF Ownership, OpenOwned, ShutdownOwns
  <2>7. QED
    BY <2>d, <2>4, <2>5, <2>6, Zenon DEF Ownership
<1>15. ASSUME NEW q \in Shutdowns, EnterClose(q)
      PROVE  Ownership'
  BY <1>15, OwnershipStutters, Zenon DEF EnterClose, ownershipVars
<1>16. ASSUME NEW q \in Shutdowns, ForceCancel(q)
      PROVE  Ownership'
  BY <1>16, OwnershipStutters, Zenon DEF ForceCancel, ownershipVars
<1>17. ASSUME NEW q \in Shutdowns, CloseFirst(q)
      PROVE  Ownership'
  <2>a. /\ consumers' = [l \in Keys |-> None] /\ isClosed' = TRUE /\ ~isClosed
        /\ closeStage' = [c \in Clients |->
                            IF c \in Cached THEN "queued" ELSE closeStage[c]]
        /\ UNCHANGED <<key, users, client, fired, closingIdle, at, evicting>>
        /\ armed' \subseteq armed
    BY <1>17, Zenon DEF CloseFirst
  <2>b. \A c \in Cached : c \in Clients /\ client[c] = "open"
    BY PopAssumption DEF Cached, Shape, Typed, Ownership, CacheOK
  <2>1. PinsCounted'
    BY <2>a, PinsCountedKept, Zenon DEF Ownership
  <2>2. CacheOK'
    BY <2>a, Zenon DEF CacheOK
  <2>3. PinsOK'
    BY <2>a, Zenon DEF Ownership, PinsOK
  <2>4. ClosersOK'
    <3>1. \A d \in Clients : Detached(d) => Detached(d)'
      <4> SUFFICES ASSUME NEW d \in Clients, Detached(d) PROVE Detached(d)'
        BY Zenon
      <4>1. d \notin Cached
        BY Zenon DEF Detached, Cached
      <4>2. QED
        BY <2>a, <4>1, PopAssumption, Zenon DEF Detached
    <3>2. QED
      BY <1>t, <2>a, <3>1, Zenon DEF Ownership, ClosersOK
  <2>5. StagesOK'
    BY <2>a, <2>b, Zenon DEF Shape, Typed, Ownership, StagesOK, ShutdownOwns
  <2>6. OpenOwned'
    BY <2>a, <2>b, PopAssumption, Zenon DEF Ownership, OpenOwned, ShutdownOwns, Cached
  <2>7. QED
    BY <2>1, <2>2, <2>3, <2>4, <2>5, <2>6, Zenon DEF Ownership
<1>18. ASSUME NEW q \in Shutdowns, CloseAgain(q)
      PROVE  Ownership'
  BY <1>18, OwnershipStutters, Zenon DEF CloseAgain, ownershipVars
<1>19. ASSUME NEW c \in Clients, WorkerTake(c)
      PROVE  Ownership'
  BY ZenonT(30), <1>19, <1>t, StageMoves DEF WorkerTake, ShutdownOwns
<1>20. ASSUME NEW c \in Clients, WorkerProceed(c)
      PROVE  Ownership'
  <2>1. /\ ShutdownOwns(c)
        /\ \E s \in {"waiting", "gated", "ungated"} :
             closeStage' = [closeStage EXCEPT ![c] = s]
        /\ UNCHANGED <<consumers, isClosed, key, users, client, armed, fired,
                       closingIdle, at, evicting>>
    BY <1>20, Zenon DEF WorkerProceed, ShutdownOwns
  <2>2. QED
    BY ZenonT(30), <1>t, <2>1, StageMoves
<1>21. ASSUME NEW c \in Clients, WorkerClose(c)
      PROVE  Ownership'
  <2>a. /\ closeStage[c] # "none" /\ client' = [client EXCEPT ![c] = "closed"]
        /\ closeStage' = [closeStage EXCEPT ![c] = "finished"]
        /\ UNCHANGED <<consumers, isClosed, key, users, armed, fired, closingIdle, at, evicting>>
    BY <1>21, Zenon DEF WorkerClose
  <2>b. \A k \in Keys : consumers[k] # c
    BY <2>a, PopAssumption, SMTT(30) DEF Ownership, CacheOK
  <2>c. /\ \A q \in Calls : evicting[q] # c
        /\ \A h \in Nat : <<c, h>> \notin closingIdle
    BY <2>a, PopAssumption, ZenonT(40) DEF Ownership, ClosersOK, Detached
  <2>d. /\ PinsCounted' /\ CacheOK' /\ PinsOK'
        /\ \A d \in Clients : d # c /\ Detached(d) => Detached(d)'
    <3>1. \A d \in Clients : d # c => closeStage'[d] = closeStage[d]
      BY <1>t, <2>a, Zenon
    <3>2. QED
      BY ZenonT(30), <1>t, <2>a, <2>b, <3>1, CloseKeeps
  <2>4. ClosersOK'
    <3>1. \A q \in Calls : evicting'[q] # None => Detached(evicting[q])'
      BY <1>t, <2>a, <2>c, <2>d, Zenon DEF Ownership, ClosersOK
    <3>2. \A d \in Clients, h \in Nat : <<d, h>> \in closingIdle => Detached(d)'
      BY <2>c, <2>d, Zenon DEF Ownership, ClosersOK
    <3>3. QED
      BY <2>a, <3>1, <3>2, Zenon DEF Ownership, ClosersOK
  <2>5. StagesOK'
    BY <1>t, <2>a, Zenon DEF Ownership, StagesOK, ShutdownOwns
  <2>6. OpenOwned'
    BY <1>t, <2>a, Zenon DEF Ownership, OpenOwned, ShutdownOwns
  <2>7. QED
    BY <2>d, <2>4, <2>5, <2>6, Zenon DEF Ownership
<1>22. ASSUME NEW q \in Shutdowns, FinishClose(q)
      PROVE  Ownership'
  BY <1>22, OwnershipStutters, Zenon DEF FinishClose, ownershipVars
<1>23. ASSUME NEW q \in Shutdowns, JoinClose(q)
      PROVE  Ownership'
  BY <1>23, OwnershipStutters, Zenon DEF JoinClose, ownershipVars
<1>24. CASE UNCHANGED vars
  BY <1>24, OwnershipStutters, Zenon DEF vars, ownershipVars
<1>25. QED
  BY <1>1, <1>2, <1>3, <1>4, <1>5, <1>6, <1>7, <1>8, <1>9,
     <1>10, <1>11, <1>12, <1>13, <1>14, <1>15, <1>16, <1>17,
     <1>18, <1>19, <1>20, <1>21, <1>22, <1>23, <1>24,
     TimerCases, ZenonT(40) DEF Shape, Next, CallNext, AcquireNext, ShutdownNext

(* Ownership holds in every reachable state. *)
LEMMA OwnershipInvariant == Spec => []Ownership
  BY ShapeInvariant, OwnershipInit, OwnershipNext, PTL DEF Spec

-----------------------------------------------------------------------------
(* Who holds the permit *)

(* The permit is held by one call or by one worker. *)
PermitOK ==
  /\ \A p \in Calls : Holds(p) => gate[at[p]] /\ closeStage[at[p]] # "gated"
  /\ \A p, q \in Calls : Holds(p) /\ Holds(q) /\ at[p] = at[q] => p = q
  /\ \A c \in Clients : /\ closeStage[c] = "gated" => gate[c]
                        /\ closeStage[c] = "ungated" => forced

Permits == PermitOK /\ NoUseAfterClose

(* Every gate holds its permit at first. *)
LEMMA PermitsInit == Init => Permits
  BY ZenonT(40) DEF Init, Permits, PermitOK, NoUseAfterClose, Holds

(* A step takes the permit of a gate only for the call that then holds it,   *)
(* and puts it back only from there.                                        *)
LEMMA PermitsNext == Shape /\ Ownership /\ Permits /\ [Next]_vars => Permits'
<1> SUFFICES ASSUME Shape, Ownership, Permits, [Next]_vars PROVE Permits'
  BY Zenon
<1> USE PopAssumption DEF managerVars, consumerVars, timerVars, callVars, shutVars
<1>a. /\ pc \in [Calls -> PcValues] /\ at \in [Calls -> Clients \cup {None}]
      /\ gate \in [Clients -> BOOLEAN] /\ closeStage \in [Clients -> StageValues]
      /\ client \in [Clients -> {"absent", "open", "closed"}]
      /\ consumers \in [Keys -> Clients \cup {None}]
      /\ evicting \in [Calls -> Clients \cup {None}]
      /\ \A q \in Calls : pc[q] \notin {"start", "done"} <=> at[q] # None
  BY Zenon DEF Shape, Typed, Located
<1>b. \A c \in Clients : Detached(c) => \A q \in Calls : at[q] # c
  BY ZenonT(30), UnpinnedFact DEF Ownership, Detached
<1>1. ASSUME NEW p \in Calls, NEW k \in Keys, AcquireRefused(p, k)
      PROVE  Permits'
  <2>1. PermitOK'
    BY <1>1, <1>a, Zenon DEF AcquireRefused, Permits, PermitOK, Holds
  <2>2. NoUseAfterClose'
    BY <1>1, <1>a, Zenon DEF AcquireRefused, Permits, NoUseAfterClose
  <2>3. QED
    BY <2>1, <2>2, Zenon DEF Permits
<1>2. ASSUME NEW p \in Calls, NEW k \in Keys, AcquireExisting(p, k)
      PROVE  Permits'
  <2>1. PermitOK'
    BY <1>2, <1>a, Zenon DEF AcquireExisting, Permits, PermitOK, Holds
  <2>2. NoUseAfterClose'
    BY <1>2, <1>a, Zenon DEF AcquireExisting, Permits, NoUseAfterClose
  <2>3. QED
    BY <2>1, <2>2, Zenon DEF Permits
<1>3. ASSUME NEW p \in Calls, NEW k \in Keys, NEW c \in Clients,
             AcquireNew(p, k, c)
      PROVE  Permits'
  <2>1. PermitOK'
    BY <1>3, <1>a, Zenon DEF AcquireNew, Create, Permits, PermitOK, Holds
  <2>2. NoUseAfterClose'
    BY <1>3, <1>a, Zenon DEF AcquireNew, Create, Permits, NoUseAfterClose
  <2>3. QED
    BY <2>1, <2>2, Zenon DEF Permits
<1>4. ASSUME NEW p \in Calls, NEW k \in Keys, NEW c \in Clients,
             NEW v \in Clients,
             AcquireEvicting(p, k, c, v)
      PROVE  Permits'
  <2>1. PermitOK'
    BY <1>4, <1>a, Zenon DEF AcquireEvicting, Create, Permits, PermitOK, Holds
  <2>2. NoUseAfterClose'
    BY <1>4, <1>a, Zenon DEF AcquireEvicting, Create, Permits, NoUseAfterClose
  <2>3. QED
    BY <2>1, <2>2, Zenon DEF Permits
<1>5. ASSUME NEW p \in Calls, CloseEvicted(p)
      PROVE  Permits'
  <2>a. \A q \in Calls : at[q] # evicting[p]
    BY ZenonT(30), <1>5, <1>a, <1>b DEF CloseEvicted, Shape, Located, Ownership, ClosersOK
  <2>1. PermitOK'
    BY <1>5, <1>a, Zenon DEF CloseEvicted, Permits, PermitOK, Holds
  <2>2. NoUseAfterClose'
    BY <1>5, <1>a, <2>a, Zenon DEF CloseEvicted, Permits, NoUseAfterClose
  <2>3. QED
    BY <2>1, <2>2, Zenon DEF Permits
<1>6. ASSUME NEW p \in Calls, TakeGate(p)
      PROVE  Permits'
  <2>1. PermitOK'
    BY <1>6, <1>a, ZenonT(40) DEF TakeGate, Permits, PermitOK, Holds
  <2>2. NoUseAfterClose'
    BY <1>6, <1>a, Zenon DEF TakeGate, Permits, NoUseAfterClose
  <2>3. QED
    BY <2>1, <2>2, Zenon DEF Permits
<1>7. ASSUME NEW p \in Calls, GiveUp(p)
      PROVE  Permits'
  <2>1. PermitOK'
    BY <1>7, <1>a, Zenon DEF GiveUp, Permits, PermitOK, Holds
  <2>2. NoUseAfterClose'
    BY <1>7, <1>a, ZenonT(40) DEF GiveUp, Permits, NoUseAfterClose
  <2>3. QED
    BY <2>1, <2>2, Zenon DEF Permits
<1>8. ASSUME NEW p \in Calls, Recheck(p)
      PROVE  Permits'
  <2>a. ~isClosed => client[at[p]] = "open"
    <3>1. pc[p] = "check"
      BY <1>8, Zenon DEF Recheck
    <3>2. at[p] \in Clients
      BY <1>a, <3>1, Zenon
    <3>3. ~isClosed => key[at[p]] \in Keys /\ consumers[key[at[p]]] = at[p]
      BY <3>2, Zenon DEF Ownership, PinsOK
    <3>4. QED
      BY <3>2, <3>3, SMTT(30) DEF Ownership, CacheOK
  <2>b. /\ Holds(p) /\ at[p] \in Clients
        /\ UNCHANGED <<at, closeStage, forced>>
        /\ \A q \in Calls : Holds(q)' => Holds(q)
    BY <1>8, <1>a, Zenon DEF Recheck, Holds
  <2>c. \/ gate' = gate
        \/ gate' = [gate EXCEPT ![at[p]] = FALSE] /\ ~Holds(p)'
    BY <1>8, <1>a, Zenon DEF Recheck, Holds
  <2>d. \A c \in Clients : gate[c] /\ (c = at[p] => gate' = gate) => gate'[c]
    BY <1>a, <2>b, <2>c, Zenon
  <2>1. PermitOK'
    <3>1. ASSUME NEW q \in Calls, Holds(q)' PROVE gate'[at[q]] /\ closeStage[at[q]] # "gated"
      <4>1. Holds(q) /\ gate[at[q]] /\ closeStage[at[q]] # "gated" /\ (at[q] = at[p] => q = p)
        BY <2>b, <3>1, Zenon DEF Permits, PermitOK
      <4>2. at[q] \in Clients
        BY <1>a, <4>1, Zenon DEF Holds
      <4>3. QED
        BY <2>c, <2>d, <3>1, <4>1, <4>2, Zenon
    <3>2. \A c \in Clients : closeStage[c] = "gated" => gate[c] /\ c # at[p]
      BY <2>b, Zenon DEF Permits, PermitOK
    <3>3. \A c \in Clients : closeStage[c] = "gated" => gate'[c]
      BY <2>d, <3>2, Zenon
    <3>4. QED
      BY <2>b, <3>1, <3>3, Zenon DEF Permits, PermitOK
  <2>2. NoUseAfterClose'
    BY <1>8, <1>a, <2>a, Zenon DEF Recheck, Stopped, Permits, NoUseAfterClose
  <2>3. QED
    BY <2>1, <2>2, Zenon DEF Permits
<1>9. ASSUME NEW p \in Calls, EndUse(p)
      PROVE  Permits'
  <2>1. PermitOK'
    BY <1>9, <1>a, Zenon DEF EndUse, Permits, PermitOK, Holds
  <2>2. NoUseAfterClose'
    BY <1>9, <1>a, Zenon DEF EndUse, Permits, NoUseAfterClose
  <2>3. QED
    BY <2>1, <2>2, Zenon DEF Permits
<1>10. ASSUME NEW p \in Calls, Release(p)
      PROVE  Permits'
  <2>1. PermitOK'
    BY ZenonT(30), <1>10, <1>a DEF Release, Permits, PermitOK, Holds
  <2>2. NoUseAfterClose'
    BY ZenonT(30), <1>10, <1>a DEF Release, Permits, NoUseAfterClose
  <2>3. QED
    BY <2>1, <2>2, Zenon DEF Permits
<1>11. ASSUME NEW p \in Calls, Cancel(p)
      PROVE  Permits'
  <2>1. PermitOK'
    BY ZenonT(30), <1>11, <1>a DEF Cancel, Permits, PermitOK, Holds
  <2>2. NoUseAfterClose'
    BY ZenonT(30), <1>11, <1>a DEF Cancel, Permits, NoUseAfterClose
  <2>3. QED
    BY <2>1, <2>2, Zenon DEF Permits
<1>12. ASSUME NEW c \in Clients, NEW g \in Nat, FireTimer(c, g)
      PROVE  Permits'
  <2>1. PermitOK'
    BY <1>12, <1>a, Zenon DEF FireTimer, Permits, PermitOK, Holds
  <2>2. NoUseAfterClose'
    BY <1>12, <1>a, Zenon DEF FireTimer, Permits, NoUseAfterClose
  <2>3. QED
    BY <2>1, <2>2, Zenon DEF Permits
<1>13. ASSUME NEW c \in Clients, NEW g \in Nat, ExpireConsumer(c, g)
      PROVE  Permits'
  <2>1. PermitOK'
    BY ZenonT(30), <1>13, <1>a DEF ExpireConsumer, Permits, PermitOK, Holds
  <2>2. NoUseAfterClose'
    BY ZenonT(30), <1>13, <1>a DEF ExpireConsumer, Permits, NoUseAfterClose
  <2>3. QED
    BY <2>1, <2>2, Zenon DEF Permits
<1>14. ASSUME NEW c \in Clients, NEW g \in Nat, CloseExpired(c, g)
      PROVE  Permits'
  <2>a. \A q \in Calls : at[q] # c
    BY ZenonT(30), <1>14, <1>b DEF CloseExpired, Ownership, ClosersOK
  <2>1. PermitOK'
    BY ZenonT(30), <1>14, <1>a DEF CloseExpired, Permits, PermitOK, Holds
  <2>2. NoUseAfterClose'
    BY <1>14, <1>a, <2>a, Zenon DEF CloseExpired, Permits, NoUseAfterClose
  <2>3. QED
    BY <2>1, <2>2, Zenon DEF Permits
<1>15. ASSUME NEW q \in Shutdowns, EnterClose(q)
      PROVE  Permits'
  <2>1. PermitOK'
    BY ZenonT(30), <1>15, <1>a DEF EnterClose, Permits, PermitOK, Holds
  <2>2. NoUseAfterClose'
    BY <1>15, <1>a, Zenon DEF EnterClose, Permits, NoUseAfterClose
  <2>3. QED
    BY <2>1, <2>2, Zenon DEF Permits
<1>16. ASSUME NEW q \in Shutdowns, ForceCancel(q)
      PROVE  Permits'
  <2>1. PermitOK'
    BY <1>16, <1>a, Zenon DEF ForceCancel, Permits, PermitOK, Holds
  <2>2. NoUseAfterClose'
    BY <1>16, <1>a, Zenon DEF ForceCancel, Permits, NoUseAfterClose
  <2>3. QED
    BY <2>1, <2>2, Zenon DEF Permits
<1>17. ASSUME NEW q \in Shutdowns, CloseFirst(q)
      PROVE  Permits'
  <2>1. PermitOK'
    BY ZenonT(30), <1>17, <1>a DEF CloseFirst, Permits, PermitOK, Holds
  <2>2. NoUseAfterClose'
    BY <1>17, <1>a, Zenon DEF CloseFirst, Permits, NoUseAfterClose
  <2>3. QED
    BY <2>1, <2>2, Zenon DEF Permits
<1>18. ASSUME NEW q \in Shutdowns, CloseAgain(q)
      PROVE  Permits'
  <2>1. PermitOK'
    BY <1>18, <1>a, Zenon DEF CloseAgain, Permits, PermitOK, Holds
  <2>2. NoUseAfterClose'
    BY <1>18, <1>a, Zenon DEF CloseAgain, Permits, NoUseAfterClose
  <2>3. QED
    BY <2>1, <2>2, Zenon DEF Permits
<1>19. ASSUME NEW c \in Clients, WorkerTake(c)
      PROVE  Permits'
  <2>1. PermitOK'
    BY <1>19, <1>a DEF WorkerTake, Permits, PermitOK, Holds
  <2>2. NoUseAfterClose'
    BY <1>19, <1>a, Zenon DEF WorkerTake, Permits, NoUseAfterClose
  <2>3. QED
    BY <2>1, <2>2, Zenon DEF Permits
<1>20. ASSUME NEW c \in Clients, WorkerProceed(c)
      PROVE  Permits'
  <2>1. PermitOK'
    BY <1>20, <1>a, SMTT(30) DEF WorkerProceed, Permits, PermitOK, Holds
  <2>2. NoUseAfterClose'
    BY <1>20, <1>a, ZenonT(40) DEF WorkerProceed, Permits, NoUseAfterClose
  <2>3. QED
    BY <2>1, <2>2, Zenon DEF Permits
<1>21. ASSUME NEW c \in Clients, WorkerClose(c)
      PROVE  Permits'
  <2>1. PermitOK'
    BY <1>21, <1>a, SMTT(30) DEF WorkerClose, Permits, PermitOK, Holds
  <2>2. NoUseAfterClose'
    BY <1>21, <1>a, SMTT(30) DEF WorkerClose, Permits, NoUseAfterClose, PermitOK, Holds
  <2>3. QED
    BY <2>1, <2>2, Zenon DEF Permits
<1>22. ASSUME NEW q \in Shutdowns, FinishClose(q)
      PROVE  Permits'
  <2>1. PermitOK'
    BY <1>22, <1>a, Zenon DEF FinishClose, Permits, PermitOK, Holds
  <2>2. NoUseAfterClose'
    BY <1>22, <1>a, Zenon DEF FinishClose, Permits, NoUseAfterClose
  <2>3. QED
    BY <2>1, <2>2, Zenon DEF Permits
<1>23. ASSUME NEW q \in Shutdowns, JoinClose(q)
      PROVE  Permits'
  <2>1. PermitOK'
    BY <1>23, <1>a, Zenon DEF JoinClose, Permits, PermitOK, Holds
  <2>2. NoUseAfterClose'
    BY <1>23, <1>a, Zenon DEF JoinClose, Permits, NoUseAfterClose
  <2>3. QED
    BY <2>1, <2>2, Zenon DEF Permits
<1>24. CASE UNCHANGED vars
  BY ZenonT(30), <1>24 DEF vars, Permits, PermitOK, NoUseAfterClose, Holds
<1>25. QED
  BY <1>1, <1>2, <1>3, <1>4, <1>5, <1>6, <1>7, <1>8, <1>9,
     <1>10, <1>11, <1>12, <1>13, <1>14, <1>15, <1>16, <1>17,
     <1>18, <1>19, <1>20, <1>21, <1>22, <1>23, <1>24,
     TimerCases, ZenonT(40) DEF Shape, Next, CallNext, AcquireNext, ShutdownNext

(* The permit of every consumer is in its gate or with one call. *)
LEMMA PermitsInvariant == Spec => []Permits
  BY ShapeInvariant, OwnershipInvariant, PermitsInit, PermitsNext, PTL DEF Spec

(* For every instance: two calls of Consume for one topic and group never    *)
(* work at the same time, whatever evictions, expiries and shutdowns happen. *)
THEOREM Serialization == Spec => []Serialized
<1>1. ASSUME Shape, Ownership, Permits PROVE Serialized
  <2> SUFFICES ASSUME NEW p \in Calls, NEW q \in Calls, p # q, Holds(p), Holds(q),
                      key[at[p]] = key[at[q]]
               PROVE  FALSE
    BY Zenon DEF Serialized
  <2>1. at[p] # None /\ at[q] # None
    BY <1>1, Zenon DEF Shape, Located, Holds
  <2>2. at[p] = at[q]
    BY <1>1, <2>1, Zenon DEF Ownership, PinsOK
  <2>3. QED
    BY ZenonT(30), <1>1, <2>2 DEF Permits, PermitOK
<1>2. QED
  BY <1>1, ShapeInvariant, OwnershipInvariant, PermitsInvariant, PTL

(* For every instance: no call works on a client that eviction, idle expiry  *)
(* or an unforced shutdown has closed.                                       *)
THEOREM ClientsOpenInUse == Spec => []NoUseAfterClose
<1>1. Permits => NoUseAfterClose
  BY Zenon DEF Permits
<1>2. QED
  BY <1>1, PermitsInvariant, PTL

(* For every instance: an open client has exactly one owner, a closed client *)
(* none, so that clients neither leak nor are closed twice.                  *)
THEOREM SingleOwner == Spec => []OwnedOnce
<1>1. ASSUME Shape, Ownership, NEW c \in Clients
      PROVE  Cardinality(Owners(c)) = IF client[c] = "open" THEN 1 ELSE 0
  <2>a. /\ closingIdle \subseteq Clients \X Nat
        /\ \A k \in Keys : consumers[k] = c => client[c] = "open" /\ closeStage[c] = "none"
        /\ \A k, l \in Keys : consumers[k] = c /\ consumers[l] = c => k = l
        /\ \A p \in Calls : evicting[p] = c => Detached(c)
        /\ \A g \in Nat : <<c, g>> \in closingIdle => Detached(c)
        /\ \A p, q \in Calls : evicting[p] = c /\ evicting[q] = c => p = q
        /\ \A g, h \in Nat : <<c, g>> \in closingIdle /\ <<c, h>> \in closingIdle => g = h
        /\ \A p \in Calls, g \in Nat : evicting[p] = c => <<c, g>> \notin closingIdle
        /\ ShutdownOwns(c) => client[c] = "open" /\ closeStage[c] # "none"
    <3>1. closingIdle \subseteq Clients \X Nat
      BY <1>1, Zenon DEF Shape, Typed
    <3>2. c # None
      BY PopAssumption, Zenon
    <3>3. /\ \A k \in Keys : consumers[k] = c => client[c] = "open" /\ closeStage[c] = "none"
          /\ \A k, l \in Keys : consumers[k] = c /\ consumers[l] = c => k = l
      BY <1>1, <3>2 DEF Ownership, CacheOK
    <3>4. /\ \A p \in Calls : evicting[p] = c => Detached(c)
          /\ \A g \in Nat : <<c, g>> \in closingIdle => Detached(c)
      BY <1>1, <3>2, Zenon DEF Ownership, ClosersOK
    <3>5. /\ \A p, q \in Calls : evicting[p] = c /\ evicting[q] = c => p = q
          /\ \A p \in Calls, g \in Nat : evicting[p] = c => <<c, g>> \notin closingIdle
      BY <1>1, <3>2 DEF Ownership, ClosersOK
    <3>6. \A g, h \in Nat : <<c, g>> \in closingIdle /\ <<c, h>> \in closingIdle => g = h
      BY <1>1, Zenon DEF Ownership, ClosersOK
    <3>7. ShutdownOwns(c) => client[c] = "open" /\ closeStage[c] # "none"
      BY <1>1, Zenon DEF Ownership, StagesOK, ShutdownOwns
    <3>8. QED
      BY <3>1, <3>3, <3>4, <3>5, <3>6, <3>7, Zenon
  <2>b. \A t \in closingIdle : t[1] = c => t[2] \in Nat /\ <<c, t[2]>> \in closingIdle
    BY <2>a
  <2>1. CASE client[c] # "open"
    <3>1. Owners(c) = {}
      BY ZenonT(30), <2>a, <2>b, <2>1 DEF Owners, Detached
    <3>2. QED
      BY <2>1, <3>1, FS_EmptySet, Zenon
  <2>2. ASSUME NEW k \in Keys, consumers[k] = c PROVE Owners(c) = {<<"cache", k>>}
    BY <2>2, <2>a, <2>b, Zenon DEF Owners, Detached, ShutdownOwns
  <2>3. ASSUME NEW p \in Calls, evicting[p] = c PROVE Owners(c) = {<<"evict", p>>}
    BY <2>3, <2>a, <2>b, Zenon DEF Owners, Detached, ShutdownOwns
  <2>4. ASSUME NEW g \in Nat, <<c, g>> \in closingIdle
        PROVE  Owners(c) = {<<"expire", g>>}
    BY <2>4, <2>a, <2>b, Zenon DEF Owners, Detached, ShutdownOwns
  <2>5. ASSUME ShutdownOwns(c) PROVE Owners(c) = {<<"shutdown", c>>}
    BY <2>5, <2>a, <2>b, Zenon DEF Owners, Detached
  <2>6. CASE client[c] = "open"
    BY ZenonT(30), <1>1, <2>2, <2>3, <2>4, <2>5, <2>6, FS_Singleton DEF Ownership, OpenOwned
  <2>7. QED
    BY <2>1, <2>6, Zenon
<1>2. Shape /\ Ownership => OwnedOnce
  BY <1>1, Zenon DEF OwnedOnce
<1>3. QED
  BY <1>2, ShapeInvariant, OwnershipInvariant, PTL

-----------------------------------------------------------------------------
(* Shutdown *)

Done ==
  /\ \A q \in Shutdowns : shut[q] = "closing" => isClosed
  /\ closeDone => isClosed
  /\ ClosedWhenDone

(* No shutdown has finished in a new manager. *)
LEMMA DoneInit == Init => Done
  BY Zenon DEF Init, Done, ClosedWhenDone

(* Nothing reopens, re-arms or adds after closeDone. *)
LEMMA DoneNext == Shape /\ Counted /\ Ownership /\ Done /\ [Next]_vars => Done'
<1> SUFFICES ASSUME Shape, Counted, Ownership, Done, [Next]_vars PROVE Done'
  BY Zenon
<1> USE DEF managerVars, consumerVars, timerVars, callVars, shutVars
<1>a. /\ shut \in [Shutdowns ->
                   {"start", "entered", "closing", "joining", "returned"}]
      /\ client \in [Clients -> {"absent", "open", "closed"}]
  BY Zenon DEF Shape, Typed
<1>1. ASSUME NEW p \in Calls, NEW k \in Keys, AcquireRefused(p, k)
      PROVE  Done'
  BY <1>1, <1>a, Zenon DEF AcquireRefused, Done, ClosedWhenDone, Timers
<1>2. ASSUME NEW p \in Calls, NEW k \in Keys, AcquireExisting(p, k)
      PROVE  Done'
  BY <1>2, <1>a, Zenon DEF AcquireExisting, Done, ClosedWhenDone, Timers
<1>3. ASSUME NEW p \in Calls, NEW k \in Keys, NEW c \in Clients,
             AcquireNew(p, k, c)
      PROVE  Done'
  BY <1>3, <1>a, Zenon DEF AcquireNew, Create, Stopped, Done, ClosedWhenDone, Timers
<1>4. ASSUME NEW p \in Calls, NEW k \in Keys, NEW c \in Clients,
             NEW v \in Clients,
             AcquireEvicting(p, k, c, v)
      PROVE  Done'
  BY <1>4, <1>a, Zenon DEF AcquireEvicting, Create, Stopped, Done, ClosedWhenDone, Timers
<1>5. ASSUME NEW p \in Calls, CloseEvicted(p)
      PROVE  Done'
  BY <1>5, <1>a, Zenon DEF CloseEvicted, Done, ClosedWhenDone, Timers
<1>6. ASSUME NEW p \in Calls, TakeGate(p)
      PROVE  Done'
  BY <1>6, <1>a, Zenon DEF TakeGate, Done, ClosedWhenDone, Timers
<1>7. ASSUME NEW p \in Calls, GiveUp(p)
      PROVE  Done'
  BY <1>7, <1>a, Zenon DEF GiveUp, Done, ClosedWhenDone, Timers
<1>8. ASSUME NEW p \in Calls, Recheck(p)
      PROVE  Done'
  BY <1>8, <1>a, Zenon DEF Recheck, Done, ClosedWhenDone, Timers
<1>9. ASSUME NEW p \in Calls, EndUse(p)
      PROVE  Done'
  BY <1>9, <1>a, Zenon DEF EndUse, Done, ClosedWhenDone, Timers
<1>10. ASSUME NEW p \in Calls, Release(p)
      PROVE  Done'
  BY ZenonT(30), <1>10, <1>a DEF Release, SchedulesIdle, Done, ClosedWhenDone, Timers
<1>11. ASSUME NEW p \in Calls, Cancel(p)
      PROVE  Done'
  BY <1>11, <1>a, Zenon DEF Cancel, Done, ClosedWhenDone, Timers
<1>12. ASSUME NEW c \in Clients, NEW g \in Nat, FireTimer(c, g)
      PROVE  Done'
  BY <1>12, <1>a, Zenon DEF FireTimer, Done, ClosedWhenDone, Timers
<1>13. ASSUME NEW c \in Clients, NEW g \in Nat, ExpireConsumer(c, g)
      PROVE  Done'
  BY ZenonT(30), <1>13, <1>a DEF ExpireConsumer, Done, ClosedWhenDone, Timers
<1>14. ASSUME NEW c \in Clients, NEW g \in Nat, CloseExpired(c, g)
      PROVE  Done'
  BY <1>14, <1>a, Zenon DEF CloseExpired, Done, ClosedWhenDone, Timers
<1>15. ASSUME NEW q \in Shutdowns, EnterClose(q)
      PROVE  Done'
  BY <1>15, <1>a, Zenon DEF EnterClose, Done, ClosedWhenDone, Timers
<1>16. ASSUME NEW q \in Shutdowns, ForceCancel(q)
      PROVE  Done'
  BY <1>16, <1>a, Zenon DEF ForceCancel, Done, ClosedWhenDone, Timers
<1>17. ASSUME NEW q \in Shutdowns, CloseFirst(q)
      PROVE  Done'
  BY ZenonT(30), <1>17, <1>a DEF CloseFirst, Done, ClosedWhenDone, Timers
<1>18. ASSUME NEW q \in Shutdowns, CloseAgain(q)
      PROVE  Done'
  BY <1>18, <1>a, Zenon DEF CloseAgain, Done, ClosedWhenDone, Timers
<1>19. ASSUME NEW c \in Clients, WorkerTake(c)
      PROVE  Done'
  BY <1>19, <1>a, Zenon DEF WorkerTake, Done, ClosedWhenDone, Timers
<1>20. ASSUME NEW c \in Clients, WorkerProceed(c)
      PROVE  Done'
  BY <1>20, <1>a, Zenon DEF WorkerProceed, Done, ClosedWhenDone, Timers
<1>21. ASSUME NEW c \in Clients, WorkerClose(c)
      PROVE  Done'
  BY <1>21, <1>a, Zenon DEF WorkerClose, Done, ClosedWhenDone, Timers
<1>22. ASSUME NEW q \in Shutdowns, FinishClose(q)
      PROVE  Done'
  <2>1. /\ Cardinality(armed) \in Nat /\ Cardinality(fired) \in Nat
        /\ Cardinality(closingIdle) \in Nat /\ Cardinality(Evictions) \in Nat
    BY FS_CardinalityType, EvictionsFinite, Zenon DEF Shape
  <2>2. closers = 0
    BY <1>22, Zenon DEF FinishClose, Joined
  <2>3. /\ Cardinality(armed) = 0 /\ Cardinality(fired) = 0
        /\ Cardinality(closingIdle) = 0 /\ Cardinality(Evictions) = 0
    BY <2>1, <2>2 DEF Counted, WaitGroupExact
  <2>4. armed = {} /\ fired = {} /\ closingIdle = {} /\ Evictions = {}
    BY <2>3, FS_EmptySet, EvictionsFinite, Zenon DEF Shape
  <2>5. isClosed
    BY <1>22, Zenon DEF FinishClose, Done
  <2>6. ASSUME NEW c \in Clients, client[c] = "open" PROVE FALSE
    <3>1. ~ShutdownOwns(c)
      BY <1>22, Zenon DEF FinishClose, Joined, ShutdownOwns
    <3>2. \A p \in Calls : evicting[p] # c
      BY <2>4, PopAssumption, Zenon DEF Evictions, Shape, Located
    <3>3. \A k \in Keys : consumers[k] # c
      BY <2>5, PopAssumption, Zenon DEF Ownership, CacheOK
    <3>4. QED
      BY <2>4, <2>6, <3>1, <3>2, <3>3, Zenon DEF Ownership, OpenOwned
  <2>7. QED
    BY <1>22, <1>a, <2>4, <2>5, <2>6, Zenon DEF FinishClose, Done, ClosedWhenDone, Timers
<1>23. ASSUME NEW q \in Shutdowns, JoinClose(q)
      PROVE  Done'
  BY <1>23, <1>a, Zenon DEF JoinClose, Done, ClosedWhenDone, Timers
<1>24. CASE UNCHANGED vars
  BY <1>24, Zenon DEF vars, Done, ClosedWhenDone, Timers
<1>25. QED
  BY <1>1, <1>2, <1>3, <1>4, <1>5, <1>6, <1>7, <1>8, <1>9,
     <1>10, <1>11, <1>12, <1>13, <1>14, <1>15, <1>16, <1>17,
     <1>18, <1>19, <1>20, <1>21, <1>22, <1>23, <1>24,
     TimerCases, ZenonT(40) DEF Shape, Next, CallNext, AcquireNext, ShutdownNext

(* For every instance: when CloseContext announces closeDone every Kafka      *)
(* client is closed and no timer or callback of the manager is left.          *)
THEOREM CloseComplete == Spec => []ClosedWhenDone
<1>1. Done => ClosedWhenDone
  BY Zenon DEF Done
<1>2. QED
  BY <1>1, ShapeInvariant, CountedInvariant, OwnershipInvariant, DoneInit, DoneNext,
     PTL DEF Spec

(* For every instance: after CloseContext set isClosed nothing adds to the    *)
(* WaitGroup it is about to wait for.                                         *)
THEOREM NoLateAdd == Spec => NoAddAfterClose
<1>1. ASSUME Shape, [Next]_vars PROVE isClosed => closers' <= closers
  <2> SUFFICES ASSUME isClosed PROVE closers' <= closers
    BY Zenon
  <2> USE DEF managerVars, consumerVars, timerVars, callVars, shutVars
  <2>1. closers \in Int /\ closers <= closers
    BY <1>1 DEF Shape, Typed
  <2>2. ASSUME NEW p \in Calls, CallNext(p) PROVE closers' <= closers
    <3>1. CASE AcquireNext(p)
      BY ZenonT(30), <2>1, <3>1 DEF AcquireNext, AcquireRefused, AcquireExisting, AcquireNew,
         AcquireEvicting, Create, Stopped
    <3>2. CASE CloseEvicted(p)
      BY <2>1, <3>2 DEF CloseEvicted
    <3>3. CASE Release(p)
      BY ZenonT(30), <2>1, <3>3 DEF Release, SchedulesIdle
    <3>4. CASE TakeGate(p) \/ GiveUp(p) \/ Recheck(p) \/ EndUse(p) \/ Cancel(p)
      <4>1. closers' = closers
        BY ZenonT(30), <3>4 DEF TakeGate, GiveUp, Recheck, EndUse, Cancel
      <4>2. QED
        BY <2>1, <4>1, Zenon
    <3>5. QED
      BY <2>2, <3>1, <3>2, <3>3, <3>4, Zenon DEF CallNext
  <2>3. CASE TimerNext
    <3>1. closers' = closers \/ closers' = closers - 1
      BY ZenonT(30), <2>3 DEF TimerNext, FireTimer, ExpireConsumer, CloseExpired
    <3>2. QED
      BY <2>1, <3>1
  <2>4. CASE ShutdownNext
    BY ZenonT(30), <2>1, <2>4 DEF ShutdownNext, EnterClose, ForceCancel, CloseFirst, CloseAgain,
       WorkerTake, WorkerProceed, WorkerClose, FinishClose, JoinClose
  <2>5. CASE UNCHANGED vars
    BY <2>1, <2>5, Zenon DEF vars
  <2>6. QED
    BY <1>1, <2>2, <2>3, <2>4, <2>5, Zenon DEF Next
<1>2. QED
  BY <1>1, ShapeInvariant, PTL DEF Spec, NoAddAfterClose
-----------------------------------------------------------------------------
(* The idle timers *)

InCache(c) == \E k \in Keys : consumers[k] = c

(* A timer that is scheduled is the current one of an idle consumer and has   *)
(* not started too.                                                           *)
ArmedOK ==
  \A c \in Clients, g \in Nat :
    <<c, g>> \in armed => /\ InCache(c) /\ users[c] = 0 /\ idleTimer[c] = g
                          /\ <<c, g>> \notin fired

(* No timer has a generation that its consumer has not reached, or the 0 of a *)
(* consumer without a timer.                                                  *)
GenerationsOK ==
  \A c \in Clients, g \in Nat :
    <<c, g>> \in armed \cup fired => g # 0 /\ g <= idleGeneration[c]

(* An idle consumer in the cache has a timer of its current generation. *)
IdleOK ==
  \A c \in Clients :
    InCache(c) /\ users[c] = 0 => /\ idleTimer[c] = idleGeneration[c]
                                  /\ <<c, idleTimer[c]>> \in armed \cup fired

IdleTimers == ArmedOK /\ GenerationsOK /\ IdleOK

(* Only these variables say anything about idle timers. *)
LEMMA IdleTimersKept ==
  ASSUME IdleTimers, UNCHANGED <<consumers, users, idleTimer, idleGeneration, armed, fired>>
  PROVE  IdleTimers'
  BY Zenon DEF IdleTimers, ArmedOK, GenerationsOK, IdleOK, InCache

(* A new manager has no timers and no consumers. *)
LEMMA IdleTimersInit == Init => IdleTimers
<1> SUFFICES ASSUME Init PROVE IdleTimers
  BY Zenon
<1>1. \A c \in Clients : ~InCache(c)
  BY PopAssumption, Zenon DEF Init, InCache
<1>2. QED
  BY <1>1, Zenon DEF Init, IdleTimers, ArmedOK, GenerationsOK, IdleOK

(* A call, a callback and a shutdown that change the idleness of a consumer   *)
(* or its place in the cache deal with its timer in the same step.            *)
LEMMA IdleTimersNext == Shape /\ Ownership /\ IdleTimers /\ [Next]_vars => IdleTimers'
<1> SUFFICES ASSUME Shape, Ownership, IdleTimers, [Next]_vars PROVE IdleTimers'
  BY Zenon
<1> USE DEF managerVars, consumerVars, timerVars, callVars, shutVars
<1>a. /\ consumers \in [Keys -> Clients \cup {None}]
      /\ users \in [Clients -> Nat]
      /\ idleTimer \in [Clients -> Nat]
      /\ idleGeneration \in [Clients -> Nat]
      /\ at \in [Calls -> Clients \cup {None}]
      /\ None \notin Clients
  BY PopAssumption, Zenon DEF Shape, Typed
<1>b. /\ ArmedOK /\ GenerationsOK /\ IdleOK
  BY Zenon DEF IdleTimers
<1>c. ASSUME NEW c \in Clients, InCache(c)
      PROVE  /\ key[c] \in Keys /\ consumers[key[c]] = c /\ client[c] = "open" /\ ~isClosed
             /\ \A k \in Keys : consumers[k] = c => k = key[c]
  <2>1. PICK k \in Keys : consumers[k] = c
    BY <1>c, Zenon DEF InCache
  <2>2. QED
    BY <1>a, <2>1 DEF Ownership, CacheOK
<1>2. ASSUME NEW p \in Calls, NEW k \in Keys, AcquireExisting(p, k)
      PROVE  IdleTimers'
  <2> DEFINE d == consumers[k]
  <2>1. d \in Clients
    BY <1>2, <1>a, Zenon DEF AcquireExisting
  <2>2. /\ armed' = armed \ {<<d, idleTimer[d]>>} /\ fired' = fired /\ consumers' = consumers
        /\ idleGeneration' = idleGeneration
        /\ idleTimer' = [idleTimer EXCEPT ![d] = 0] /\ users' = [users EXCEPT ![d] = @ + 1]
    BY <1>2, Zenon DEF AcquireExisting, Stoppable
  <2> HIDE DEF d
  <2>3. users'[d] # 0 /\ \A c \in Clients \ {d} : users'[c] = users[c]
                                                  /\ idleTimer'[c] = idleTimer[c]
    <3>1. users[d] + 1 # 0
      BY <1>a, <2>1
    <3>2. QED
      BY <1>a, <2>1, <2>2, <3>1, Zenon
  <2>4. \A g \in Nat : <<d, g>> \notin armed'
    BY <1>b, <2>1, <2>2, Zenon DEF ArmedOK
  <2>5. ArmedOK'
    BY <1>b, <2>1, <2>2, <2>3, <2>4, ZenonT(40) DEF ArmedOK, InCache
  <2>6. GenerationsOK'
    BY <1>b, <2>2, Zenon DEF GenerationsOK
  <2>7. IdleOK'
    <3>1. SUFFICES ASSUME NEW c \in Clients, InCache(c), users'[c] = 0
                   PROVE  /\ idleTimer'[c] = idleGeneration'[c]
                          /\ <<c, idleTimer'[c]>> \in armed' \cup fired'
      BY <2>2, Zenon DEF IdleOK, InCache
    <3>2. c # d /\ users[c] = 0 /\ idleTimer'[c] = idleTimer[c]
      BY <2>3, <3>1, Zenon
    <3>3. QED
      BY <1>b, <2>2, <3>1, <3>2 DEF IdleOK
  <2>8. QED
    BY <2>5, <2>6, <2>7, Zenon DEF IdleTimers
<1>3. ASSUME NEW p \in Calls, NEW k \in Keys, NEW d \in Clients, AcquireNew(p, k, d)
      PROVE  IdleTimers'
  <2>1. /\ armed' = armed /\ fired' = fired /\ idleGeneration' = idleGeneration
        /\ idleTimer' = idleTimer /\ users' = [users EXCEPT ![d] = 1]
        /\ consumers' = [consumers EXCEPT ![k] = d] /\ consumers[k] = None /\ client[d] = "absent"
    BY <1>3, Zenon DEF AcquireNew, Create
  <2>2. ~InCache(d)
    BY <1>c, <2>1, Zenon
  <2>3. \A c \in Clients \ {d} : (InCache(c))' <=> InCache(c)
    BY <1>a, <2>1, Zenon DEF InCache
  <2>4. users'[d] # 0 /\ \A c \in Clients \ {d} : users'[c] = users[c]
    BY <1>a, <2>1
  <2>5. \A g \in Nat : <<d, g>> \notin armed
    BY <1>b, <2>2, Zenon DEF ArmedOK
  <2>6. QED
    BY <1>b, <2>1, <2>3, <2>4, <2>5, Zenon DEF IdleTimers, ArmedOK, GenerationsOK, IdleOK
<1>4. ASSUME NEW p \in Calls, NEW k \in Keys, NEW d \in Clients, NEW v \in Clients,
             AcquireEvicting(p, k, d, v)
      PROVE  IdleTimers'
  <2>1. /\ armed' = armed \ {<<v, idleTimer[v]>>} /\ fired' = fired
        /\ idleGeneration' = idleGeneration
        /\ idleTimer' = [idleTimer EXCEPT ![v] = 0] /\ users' = [users EXCEPT ![d] = 1]
        /\ consumers' = [consumers EXCEPT ![key[v]] = None, ![k] = d]
        /\ consumers[k] = None /\ client[d] = "absent"
    BY <1>4, Zenon DEF AcquireEvicting, Create, Stoppable
  <2>2. InCache(v)
    BY <1>4, Zenon DEF AcquireEvicting, Victims, Cached, InCache
  <2>3. key[v] \in Keys /\ consumers[key[v]] = v /\ client[v] = "open" /\ key[v] # k /\ v # d
    BY <1>a, <1>c, <2>1, <2>2
  <2>4. ~InCache(d)
    BY <1>c, <2>1, Zenon
  <2>5. /\ consumers'[k] = d /\ consumers'[key[v]] = None
        /\ \A j \in Keys \ {k, key[v]} : consumers'[j] = consumers[j]
    BY <1>a, <2>1, <2>3, Zenon
  <2>6. \A c \in Clients \ {d, v} : (InCache(c))' <=> InCache(c)
    BY <1>a, <2>1, <2>3, <2>5, Zenon DEF InCache
  <2>7. ~(InCache(v))'
    BY <1>a, <1>c, <2>2, <2>3, <2>5, SMTT(30) DEF InCache
  <2>8. /\ users'[d] # 0 /\ \A c \in Clients \ {d} : users'[c] = users[c]
        /\ \A c \in Clients \ {v} : idleTimer'[c] = idleTimer[c]
    BY <1>a, <2>1
  <2>9. \A g \in Nat : <<d, g>> \notin armed /\ <<v, g>> \notin armed'
    BY <1>b, <2>1, <2>4, Zenon DEF ArmedOK
  <2>10. ArmedOK'
    BY <1>b, <2>1, <2>6, <2>8, <2>9, Zenon DEF ArmedOK
  <2>11. GenerationsOK'
    BY <1>b, <2>1, Zenon DEF GenerationsOK
  <2>12. IdleOK'
    BY <1>b, <2>1, <2>6, <2>7, <2>8 DEF IdleOK
  <2>13. QED
    BY <2>10, <2>11, <2>12, Zenon DEF IdleTimers
<1>10. ASSUME NEW p \in Calls, Release(p)
      PROVE  IdleTimers'
  <2> DEFINE d == at[p]
             u == IF users[d] > 0 THEN users[d] - 1 ELSE 0
             g == idleGeneration[d] + 1
  <2>1. d \in Clients /\ p \in Pinned(d)
    BY <1>10, <1>a, Zenon DEF Release, Pinned, Shape, Located
  <2>2. users[d] \in Nat /\ users[d] # 0 /\ u \in Nat /\ g \in Nat \ {0} /\ g > idleGeneration[d]
        /\ idleGeneration[d] \in Nat
    <3>1. IsFiniteSet(Pinned(d)) /\ Pinned(d) # {}
      BY <2>1, PopAssumption, FS_Subset, Zenon DEF Pinned
    <3>2. Cardinality(Pinned(d)) # 0
      BY <3>1, FS_EmptySet, Zenon
    <3>3. users[d] \in Nat /\ users[d] # 0 /\ idleGeneration[d] \in Nat
      BY <1>a, <2>1, <3>2, Zenon DEF Ownership, PinsCounted
    <3>4. QED
      BY <3>3
  <2>3. /\ fired' = fired /\ consumers' = consumers /\ users' = [users EXCEPT ![d] = u]
        /\ u = 0 /\ ~isClosed => /\ idleGeneration' = [idleGeneration EXCEPT ![d] = g]
                                 /\ idleTimer' = [idleTimer EXCEPT ![d] = g]
                                 /\ armed' = armed \cup {<<d, g>>}
        /\ ~(u = 0 /\ ~isClosed) => UNCHANGED <<idleGeneration, idleTimer, armed>>
    BY <1>10, Zenon DEF Release, SchedulesIdle
  <2>4. ~isClosed => InCache(d)
    BY <1>10, <1>a, <2>1, Zenon DEF Ownership, PinsOK, InCache
  <2> HIDE DEF u, g, d
  <2>5. users'[d] = u /\ \A c \in Clients \ {d} : users'[c] = users[c]
    BY <1>a, <2>1, <2>3, Zenon
  <2>6. \A h \in Nat : <<d, h>> \notin armed
    BY <1>b, <2>1, <2>2, Zenon DEF ArmedOK
  <2>7. CASE u = 0 /\ ~isClosed
    <3>1. /\ idleGeneration'[d] = g /\ idleTimer'[d] = g
          /\ \A c \in Clients \ {d} : /\ idleGeneration'[c] = idleGeneration[c]
                                      /\ idleTimer'[c] = idleTimer[c]
      BY <1>a, <2>1, <2>2, <2>3, <2>7, Zenon
    <3>2. <<d, g>> \notin fired
      <4>1. ~(g <= idleGeneration[d])
        BY <2>2
      <4>2. QED
        BY <1>b, <2>1, <2>2, <4>1, Zenon DEF GenerationsOK
    <3>3. ArmedOK'
      <4>1. SUFFICES ASSUME NEW c \in Clients, NEW h \in Nat, <<c, h>> \in armed'
                     PROVE  /\ InCache(c) /\ users'[c] = 0 /\ idleTimer'[c] = h
                            /\ <<c, h>> \notin fired
        BY <2>3, Zenon DEF ArmedOK, InCache
      <4>2. CASE c = d
        <5>1. h = g
          BY <2>3, <2>6, <2>7, <4>1, <4>2, Zenon
        <5>2. QED
          BY <2>4, <2>5, <2>7, <3>1, <3>2, <4>2, <5>1, Zenon
      <4>3. CASE c # d
        BY <1>b, <2>3, <2>5, <2>7, <3>1, <4>1, <4>3, SMTT(30) DEF ArmedOK
      <4>4. QED
        BY <4>2, <4>3, Zenon
    <3>4. GenerationsOK'
      <4>1. SUFFICES ASSUME NEW c \in Clients, NEW h \in Nat, <<c, h>> \in armed' \cup fired
                     PROVE  h # 0 /\ h <= idleGeneration'[c]
        BY <2>3, Zenon DEF GenerationsOK
      <4>2. CASE <<c, h>> \in armed \cup fired
        <5>1. h # 0 /\ h <= idleGeneration[c] /\ idleGeneration[c] \in Nat
          BY <1>a, <1>b, <4>2, Zenon DEF GenerationsOK
        <5>2. idleGeneration'[c] = idleGeneration[c] \/ (c = d /\ idleGeneration'[c] = g)
          BY <3>1, Zenon
        <5>3. QED
          BY <2>2, <5>1, <5>2
      <4>3. CASE <<c, h>> = <<d, g>>
        <5>1. c = d /\ h = g
          BY <4>3, Zenon
        <5>2. g <= g /\ g # 0
          BY <2>2
        <5>3. QED
          BY <3>1, <5>1, <5>2, Zenon
      <4>4. QED
        BY <2>3, <2>7, <4>1, <4>2, <4>3, Zenon
    <3>5. IdleOK'
      <4>1. SUFFICES ASSUME NEW c \in Clients, InCache(c), users'[c] = 0
                     PROVE  /\ idleTimer'[c] = idleGeneration'[c]
                            /\ <<c, idleTimer'[c]>> \in armed' \cup fired
        BY <2>3, Zenon DEF IdleOK, InCache
      <4>2. CASE c = d
        BY <2>3, <2>7, <3>1, <4>2, Zenon
      <4>3. CASE c # d
        BY <1>b, <2>3, <2>5, <2>7, <3>1, <4>1, <4>3, Zenon DEF IdleOK
      <4>4. QED
        BY <4>2, <4>3, Zenon
    <3>6. QED
      BY <3>3, <3>4, <3>5, Zenon DEF IdleTimers
  <2>8. CASE ~(u = 0 /\ ~isClosed)
    <3>1. UNCHANGED <<idleGeneration, idleTimer, armed, fired, consumers>>
      BY <2>3, <2>8, Zenon
    <3>2. ArmedOK'
      BY <1>b, <2>5, <2>6, <3>1, Zenon DEF ArmedOK, InCache
    <3>3. GenerationsOK'
      BY <1>b, <3>1, Zenon DEF GenerationsOK
    <3>4. IdleOK'
      <4>1. SUFFICES ASSUME NEW c \in Clients, InCache(c), users'[c] = 0
                     PROVE  /\ idleTimer[c] = idleGeneration[c]
                            /\ <<c, idleTimer[c]>> \in armed \cup fired
        BY <3>1, Zenon DEF IdleOK, InCache
      <4>2. ~isClosed
        BY <1>c, <4>1, Zenon
      <4>3. c # d
        BY <2>5, <2>8, <4>1, <4>2, Zenon
      <4>4. QED
        BY <1>b, <2>5, <4>1, <4>3, Zenon DEF IdleOK
    <3>5. QED
      BY <3>2, <3>3, <3>4, Zenon DEF IdleTimers
  <2>9. QED
    BY <2>7, <2>8, Zenon
<1>12. ASSUME NEW d \in Clients, NEW g \in Nat, FireTimer(d, g)
      PROVE  IdleTimers'
  <2>1. /\ armed' = armed \ {<<d, g>>} /\ fired' = fired \cup {<<d, g>>} /\ <<d, g>> \in armed
        /\ UNCHANGED <<consumers, users, idleTimer, idleGeneration>>
    BY <1>12, Zenon DEF FireTimer
  <2>2. ArmedOK'
    BY <1>b, <2>1, Zenon DEF ArmedOK, InCache
  <2>3. armed' \cup fired' = armed \cup fired
    BY <2>1, Zenon
  <2>4. QED
    BY <1>b, <2>1, <2>2, <2>3, Zenon DEF IdleTimers, GenerationsOK, IdleOK, InCache
<1>13. ASSUME NEW d \in Clients, NEW g \in Nat, ExpireConsumer(d, g)
      PROVE  IdleTimers'
  <2>1. /\ <<d, g>> \in fired /\ fired' = fired \ {<<d, g>>} /\ armed' = armed
        /\ UNCHANGED <<users, idleGeneration>>
    BY <1>13, Zenon DEF ExpireConsumer
  <2>2. GenerationsOK'
    BY <1>b, <2>1, Zenon DEF GenerationsOK
  <2>3. CASE MayExpire(d, g) /\ consumers' = [consumers EXCEPT ![key[d]] = None]
                             /\ idleTimer' = [idleTimer EXCEPT ![d] = 0]
    <3>1. key[d] \in Keys /\ consumers[key[d]] = d /\ users[d] = 0 /\ idleGeneration[d] = g
      BY <1>13, <2>1, <2>3, Zenon DEF MayExpire, Ownership, StagesOK
    <3>2. InCache(d)
      BY <3>1, Zenon DEF InCache
    <3>3. /\ consumers'[key[d]] = None
          /\ \A j \in Keys \ {key[d]} : consumers'[j] = consumers[j]
          /\ \A c \in Clients \ {d} : idleTimer'[c] = idleTimer[c]
      BY <1>a, <2>3, <3>1, Zenon
    <3>4. \A c \in Clients \ {d} : (InCache(c))' <=> InCache(c)
      BY <1>a, <3>1, <3>3, ZenonT(40) DEF InCache
    <3>5. ~(InCache(d))'
      BY <1>a, <1>c, <3>1, <3>2, <3>3, Zenon DEF InCache
    <3>6. \A h \in Nat : <<d, h>> \notin armed
      BY <1>b, <2>1, <3>1, <3>2, Zenon DEF ArmedOK, IdleOK
    <3>7. ArmedOK'
      BY <1>b, <2>1, <3>3, <3>4, <3>6, Zenon DEF ArmedOK
    <3>8. IdleOK'
      <4>1. SUFFICES ASSUME NEW c \in Clients, (InCache(c))', users[c] = 0
                     PROVE  /\ idleTimer'[c] = idleGeneration[c]
                            /\ <<c, idleTimer'[c]>> \in armed \cup fired'
        BY <2>1, Zenon DEF IdleOK
      <4>2. c # d /\ InCache(c) /\ idleTimer'[c] = idleTimer[c]
        BY <3>3, <3>4, <3>5, <4>1, Zenon
      <4>3. idleTimer[c] = idleGeneration[c] /\ <<c, idleTimer[c]>> \in armed \cup fired
        BY <1>b, <4>1, <4>2, Zenon DEF IdleOK
      <4>4. <<c, idleTimer[c]>> # <<d, g>>
        BY <4>2, Zenon
      <4>5. QED
        BY <2>1, <4>2, <4>3, <4>4, Zenon
    <3>9. QED
      BY <2>2, <3>7, <3>8, Zenon DEF IdleTimers
  <2>4. CASE ~MayExpire(d, g) /\ UNCHANGED <<consumers, idleTimer>>
    <3>1. ArmedOK'
      BY <1>b, <2>1, <2>4, Zenon DEF ArmedOK, InCache
    <3>2. IdleOK'
      <4>1. SUFFICES ASSUME NEW c \in Clients, InCache(c), users[c] = 0
                     PROVE  /\ idleTimer[c] = idleGeneration[c]
                            /\ <<c, idleTimer[c]>> \in armed \cup fired'
        BY <2>1, <2>4, Zenon DEF IdleOK, InCache
      <4>2. idleTimer[c] = idleGeneration[c] /\ <<c, idleTimer[c]>> \in armed \cup fired
        BY <1>b, <4>1, Zenon DEF IdleOK
      <4>3. c = d /\ idleTimer[c] = g => FALSE
        <5>1. g # 0
          BY <1>b, <2>1, Zenon DEF GenerationsOK
        <5>2. QED
          BY <1>c, <2>4, <4>1, <4>2, <5>1, Zenon DEF MayExpire
      <4>4. <<c, idleTimer[c]>> # <<d, g>>
        BY <4>3, Zenon
      <4>5. QED
        BY <2>1, <4>2, <4>4, Zenon
    <3>3. QED
      BY <2>2, <3>1, <3>2, Zenon DEF IdleTimers
  <2>5. QED
    BY <1>13, <2>3, <2>4, Zenon DEF ExpireConsumer
<1>17. ASSUME NEW q \in Shutdowns, CloseFirst(q)
      PROVE  IdleTimers'
  <2>1. /\ armed' = armed \ UNION {Stoppable(c) : c \in Cached} /\ fired' = fired
        /\ idleGeneration' = idleGeneration /\ consumers' = [k \in Keys |-> None]
    BY <1>17, Zenon DEF CloseFirst
  <2>2. ASSUME NEW c \in Clients, NEW g \in Nat, <<c, g>> \in armed'
        PROVE  FALSE
    <3>1. <<c, g>> \in armed
      BY <2>1, <2>2, Zenon
    <3>2. c \in Cached /\ idleTimer[c] = g
      BY <1>a, <1>b, <3>1 DEF ArmedOK, InCache, Cached
    <3>3. <<c, g>> \in Stoppable(c)
      BY <3>1, <3>2, Zenon DEF Stoppable
    <3>4. QED
      BY <2>1, <2>2, <3>2, <3>3, Zenon
  <2>3. \A c \in Clients : ~(InCache(c))'
    BY <1>a, <2>1, Zenon DEF InCache
  <2>4. QED
    BY <1>b, <2>1, <2>2, <2>3, Zenon DEF IdleTimers, ArmedOK, GenerationsOK, IdleOK
<1>20. ASSUME NEW p \in Calls,
              \/ \E k \in Keys : AcquireRefused(p, k)
              \/ CloseEvicted(p) \/ TakeGate(p) \/ GiveUp(p) \/ Recheck(p) \/ EndUse(p) \/ Cancel(p)
       PROVE  IdleTimers'
  <2>1. UNCHANGED <<consumers, users, idleTimer, idleGeneration, armed, fired>>
    BY <1>20, ZenonT(30) DEF AcquireRefused, CloseEvicted, TakeGate, GiveUp, Recheck, EndUse, Cancel
  <2>2. QED
    BY <2>1, IdleTimersKept, Zenon
<1>21. ASSUME NEW c \in Clients, NEW g \in Nat, CloseExpired(c, g)
       PROVE  IdleTimers'
  BY <1>21, IdleTimersKept, Zenon DEF CloseExpired
<1>22. ASSUME NEW q \in Shutdowns,
              EnterClose(q) \/ ForceCancel(q) \/ CloseAgain(q) \/ FinishClose(q) \/ JoinClose(q)
       PROVE  IdleTimers'
  BY <1>22, IdleTimersKept, ZenonT(30) DEF EnterClose, ForceCancel, CloseAgain, FinishClose,
       JoinClose
<1>23. ASSUME NEW c \in Clients, WorkerTake(c) \/ WorkerProceed(c) \/ WorkerClose(c)
       PROVE  IdleTimers'
  BY <1>23, IdleTimersKept, ZenonT(30) DEF WorkerTake, WorkerProceed, WorkerClose
<1>24. CASE UNCHANGED vars
  BY <1>24, IdleTimersKept, Zenon DEF vars
<1>25. QED
  BY <1>2, <1>3, <1>4, <1>10, <1>12, <1>13, <1>17, <1>20, <1>21, <1>22, <1>23, <1>24,
     TimerCases, ZenonT(40) DEF Shape, Next, CallNext, AcquireNext, ShutdownNext

(* For every instance: a scheduled idle timer is the current one of a cached  *)
(* consumer without users, and every such consumer has a timer or a callback  *)
(* that will take it out of the cache and leave its Kafka group.              *)
THEOREM IdleTimersAgree == Spec => []IdleTimersExact
<1>1. Shape /\ IdleTimers => IdleTimersExact
  <2> SUFFICES ASSUME Shape, IdleTimers PROVE IdleTimersExact
    BY Zenon
  <2>1. ASSUME NEW t \in armed
        PROVE  t[1] \in Cached /\ users[t[1]] = 0 /\ idleTimer[t[1]] = t[2]
    <3>1. PICK c \in Clients, g \in Nat : t = <<c, g>>
      BY <2>1 DEF Shape, Typed
    <3>2. t[1] = c /\ t[2] = g
      BY <3>1, Zenon
    <3>3. c \in Cached /\ users[c] = 0 /\ idleTimer[c] = g
      BY <2>1, <3>1, PopAssumption DEF IdleTimers, ArmedOK, InCache, Cached
    <3>4. QED
      BY <3>2, <3>3, Zenon
  <2>2. ASSUME NEW c \in Cached, users[c] = 0
        PROVE  idleTimer[c] = idleGeneration[c] /\ <<c, idleTimer[c]>> \in armed \cup fired
    <3>1. c \in Clients /\ InCache(c)
      BY <2>2 DEF Shape, Typed, Cached, InCache
    <3>2. QED
      BY <2>2, <3>1, Zenon DEF IdleTimers, IdleOK
  <2>3. QED
    BY <2>1, <2>2, Zenon DEF IdleTimersExact
<1>2. QED
  BY <1>1, ShapeInvariant, OwnershipInvariant, IdleTimersInit, IdleTimersNext, PTL DEF Spec

-----------------------------------------------------------------------------
(* The records of a key *)

(* Where a call can be in its work on the client. *)
Steps == {"none", "poll", "polled", "pollError", "handle", "handled", "commit", "leave"}

(* The types of what KafkaPopDelivery adds.                                 *)
DTyped ==
  /\ step \in [Calls -> Steps] /\ rec \in [Calls -> Nat]
  /\ position \in [Clients -> Nat] /\ assigned \subseteq Clients
  /\ owner \in [Keys -> Clients \cup {None}]
  /\ committed \in [Keys -> Nat] /\ handled \in [Keys -> SUBSET Nat]

(* Consume works on a record between processing.begin and finish.           *)
Working == \A p \in Calls : step[p] # "none" <=> pc[p] = "use"

(* A client is created for a key, and the owner of a partition believes that *)
(* it owns it.                                                              *)
Members ==
  /\ \A c \in Clients : client[c] # "absent" => key[c] \in Keys
  /\ \A c \in assigned : client[c] # "absent"
  /\ \A k \in Keys : owner[k] # None => owner[k] \in assigned /\ key[owner[k]] = k

(* Handlers have finished a prefix of the records: all that are committed,  *)
(* and at most one more.                                                    *)
Prefix(k) ==
  /\ committed[k] \in 1 .. MaxOffset + 1
  /\ \/ handled[k] = 1 .. committed[k] - 1
     \/ committed[k] <= MaxOffset /\ handled[k] = 1 .. committed[k]

(* Client c may hand out the record n: it is not beyond the first           *)
(* uncommitted one, and a member that may commit is at most one behind.     *)
Near(c, n) ==
  /\ n <= committed[key[c]]
  /\ owner[key[c]] = c => committed[key[c]] <= n + 1

(* A call has a record that it neither committed nor gave up.               *)
InHand(p) == rec[p] # 0 /\ step[p] \notin {"none", "poll", "leave"}

(* What a call knows of the record in hand.  After a forced shutdown a      *)
(* record is not handed out any more, and its position is not restored.     *)
Hand(p) ==
  /\ step[p] \in {"handle", "handled", "commit"} => rec[p] # 0 /\ Near(at[p], rec[p])
  /\ step[p] \in {"handled", "commit"} => rec[p] \in handled[Key(p)]
  /\ InHand(p) => /\ rec[p] \in Offsets
                  /\ position[at[p]] = rec[p] + 1
                  /\ ~forced => Near(at[p], rec[p])

(* Where a member reads on.                                                 *)
Positioned(c) == ~forced /\ (\A p \in Calls : at[p] = c => ~InHand(p)) => Near(c, position[c])

(* The inductive invariant of KafkaPopDelivery, beside those of KafkaPop.    *)
Delivery ==
  /\ DTyped /\ Working /\ Members
  /\ \A k \in Keys : Prefix(k)
  /\ \A p \in Calls : Hand(p)
  /\ \A c \in assigned : Positioned(c)

(* What the cache does beside the calls that work on a client: those calls   *)
(* keep their clients, clients keep their keys, and a forced shutdown stays. *)
Calm ==
  /\ \A q \in Calls : /\ pc'[q] = "use" <=> pc[q] = "use"
                      /\ pc[q] = "use" => at'[q] = at[q]
  /\ \A c \in Clients :
       /\ client[c] # "absent" => client'[c] # "absent" /\ key'[c] = key[c]
       /\ client'[c] # "absent" => client[c] # "absent" \/ key'[c] \in Keys
  /\ forced => forced'

(* A step of the cache that neither begins nor ends the use of a client is   *)
(* calm: only a client that did not exist before gets a key.                 *)
LEMMA CacheCalm ==
  ASSUME Shape, Ownership, NEW p \in Calls,
         AcquireNext(p) \/ TakeGate(p) \/ GiveUp(p) \/ Release(p) \/ Cancel(p)
  PROVE  Calm
<1> USE DEF Calm
<1>1. ASSUME NEW k \in Keys, AcquireRefused(p, k) PROVE Calm
  BY <1>1, Zenon DEF Shape, Typed, AcquireRefused, managerVars, consumerVars
<1>2. ASSUME NEW k \in Keys, AcquireExisting(p, k) PROVE Calm
  BY <1>2, Zenon DEF Shape, Typed, AcquireExisting
<1>3. ASSUME NEW k \in Keys, NEW c \in Clients, Create(p, k, c), forced' = forced,
             pc' = [pc EXCEPT ![p] = "wait"] \/ pc' = [pc EXCEPT ![p] = "evict"]
      PROVE  Calm
  BY <1>3, Zenon DEF Shape, Typed, Create
<1>4. ASSUME NEW k \in Keys, NEW c \in Clients, AcquireNew(p, k, c) PROVE Calm
  BY <1>3, <1>4, Zenon DEF AcquireNew
<1>5. ASSUME NEW k \in Keys, NEW c \in Clients, NEW v \in Clients,
             AcquireEvicting(p, k, c, v)
      PROVE  Calm
  BY <1>3, <1>5, Zenon DEF AcquireEvicting
<1>6. CASE TakeGate(p)
  BY <1>6, Zenon DEF Shape, Typed, TakeGate, managerVars
<1>7. CASE GiveUp(p)
  BY <1>7, Zenon DEF Shape, Typed, GiveUp, managerVars, consumerVars
<1>8. CASE Release(p)
  BY <1>8, Zenon DEF Shape, Typed, Release
<1>9. CASE Cancel(p)
  BY <1>9, Zenon DEF Shape, Typed, Cancel, managerVars, consumerVars
<1>10. QED
  BY <1>1, <1>2, <1>4, <1>5, <1>6, <1>7, <1>8, <1>9, Zenon DEF AcquireNext

(* So is a step of an eviction, a timer or CloseContext: it closes a client  *)
(* that exists.                                                              *)
LEMMA ClosingCalm ==
  ASSUME Shape, Ownership, ClosingStep
  PROVE  Calm
<1>1. ASSUME NEW c \in Clients, client[c] # "absent", forced' = forced, key' = key,
             client' = [client EXCEPT ![c] = "closed"], at' = at,
             \A q \in Calls : pc'[q] = "use" <=> pc[q] = "use"
      PROVE  Calm
  BY <1>1, Zenon DEF Calm, Shape, Typed
<1>2. ASSUME NEW p \in Calls, CloseEvicted(p) PROVE Calm
  <2>1. evicting[p] # None /\ evicting[p] \in Clients
    BY <1>2, Zenon DEF Shape, Typed, Located, CloseEvicted
  <2>2. client[evicting[p]] # "absent"
    BY <2>1, Zenon DEF Ownership, ClosersOK, Detached
  <2>3. \A q \in Calls : pc'[q] = "use" <=> pc[q] = "use"
    BY <1>2, Zenon DEF Shape, Typed, CloseEvicted
  <2>4. QED
    BY <1>1, <1>2, <2>1, <2>2, <2>3, Zenon DEF CloseEvicted
<1>3. CASE TimerNext
  <2>1. ASSUME NEW t \in closingIdle, CloseExpired(t[1], t[2]) PROVE Calm
    <3>1. t[1] \in Clients /\ client[t[1]] # "absent"
      BY <2>1 DEF Shape, Typed, Ownership, ClosersOK, Detached
    <3>2. QED
      BY <1>1, <2>1, <3>1, Zenon DEF CloseExpired, callVars
  <2>2. ASSUME NEW t \in armed, FireTimer(t[1], t[2]) PROVE Calm
    BY <2>2, Zenon DEF Calm, FireTimer, managerVars, consumerVars, callVars
  <2>3. ASSUME NEW t \in fired, ExpireConsumer(t[1], t[2]) PROVE Calm
    BY <2>3, Zenon DEF Calm, ExpireConsumer, callVars
  <2>4. QED
    BY <1>3, <2>1, <2>2, <2>3, Zenon DEF TimerNext
<1>4. CASE ShutdownNext
  <2>1. ASSUME NEW c \in Clients, WorkerClose(c) PROVE Calm
    <3>1. client[c] # "absent"
      BY <2>1, Zenon DEF WorkerClose, Ownership, StagesOK, ShutdownOwns
    <3>2. QED
      BY <1>1, <2>1, <3>1, Zenon DEF WorkerClose, managerVars, callVars
  <2>2. ASSUME NEW c \in Clients, WorkerTake(c) \/ WorkerProceed(c) PROVE Calm
    <3>1. UNCHANGED <<forced, key, client, pc, at>>
      BY <2>2, Zenon DEF WorkerTake, WorkerProceed, managerVars, consumerVars, callVars
    <3>2. QED
      BY <3>1, Zenon DEF Calm
  <2>3. ASSUME NEW q \in Shutdowns,
               \/ EnterClose(q) \/ ForceCancel(q) \/ CloseFirst(q)
               \/ CloseAgain(q) \/ FinishClose(q) \/ JoinClose(q)
        PROVE Calm
    <3>1. (forced => forced') /\ UNCHANGED <<key, client, pc, at>>
      BY <2>3 DEF EnterClose, ForceCancel, CloseFirst, CloseAgain, FinishClose, JoinClose,
                  managerVars, consumerVars, callVars
    <3>2. QED
      BY <3>1, ZenonT(40) DEF Calm
  <2>4. QED
    BY <1>4, <2>1, <2>2, <2>3, Zenon DEF ShutdownNext
<1>5. QED
  BY <1>2, <1>3, <1>4, Zenon DEF ClosingStep

(* A call that works on a client is the only one that does.                  *)
LEMMA UserFacts ==
  ASSUME Shape, Ownership, Permits, Working, NEW p \in Calls, step[p] # "none"
  PROVE  /\ pc[p] = "use" /\ at[p] \in Clients /\ Key(p) \in Keys
         /\ client[at[p]] # "absent"
         /\ \A q \in Calls : step[q] # "none" /\ q # p => at[q] # at[p]
<1>1. pc[p] = "use"
  BY Zenon DEF Working
<1>2. at[p] # None /\ at[p] \in Clients
  <2>1. at[p] # None
    BY <1>1, Zenon DEF Shape, Located
  <2>2. QED
    BY <2>1, Zenon DEF Shape, Typed
<1>3. Key(p) \in Keys /\ client[at[p]] # "absent"
  BY <1>2, Zenon DEF Ownership, PinsOK, Key
<1>4. ASSUME NEW q \in Calls, step[q] # "none", q # p PROVE at[q] # at[p]
  <2>1. Holds(p) /\ Holds(q)
    BY <1>1, <1>4, Zenon DEF Working, Holds
  <2>2. QED
    BY <1>4, <2>1, Zenon DEF Permits, PermitOK
<1>5. QED
  BY <1>1, <1>2, <1>3, <1>4, Zenon

(* What a calm step keeps of the deliveries when it leaves the records and   *)
(* the positions alone: a member can only lose its partition.                *)
LEMMA CalmDelivery ==
  ASSUME Shape, Ownership, Permits, Delivery, Calm, Members', assigned' \subseteq assigned,
         owner' \in [Keys -> Clients \cup {None}],
         \A k \in Keys : owner'[k] = owner[k] \/ owner'[k] = None,
         UNCHANGED <<step, rec, position, committed, handled>>
  PROVE  Delivery'
<1> USE DEF Delivery
<1>1. DTyped'
  BY Zenon DEF DTyped
<1>2. Working'
  BY Zenon DEF Working, Calm
<1>3. (\A k \in Keys : Prefix(k))'
  BY Zenon DEF Prefix
<1>4. ASSUME NEW c \in Clients, client[c] # "absent"
      PROVE  key'[c] = key[c] /\ key[c] \in Keys
  BY <1>4, Zenon DEF Calm, Members
<1>5. ASSUME NEW c \in Clients, client[c] # "absent", NEW n, Near(c, n)
      PROVE  Near(c, n)'
  <2>1. owner'[key[c]] = c => owner[key[c]] = c
    BY <1>4, <1>5, PopAssumption, Zenon
  <2>2. QED
    BY <1>4, <1>5, <2>1, Zenon DEF Near
<1>6. ASSUME NEW p \in Calls, step[p] # "none"
      PROVE  /\ at'[p] = at[p] /\ at[p] \in Clients /\ client[at[p]] # "absent"
             /\ Key(p)' = Key(p)
  <2>1. pc[p] = "use" /\ at[p] \in Clients /\ client[at[p]] # "absent"
    BY <1>6, UserFacts, Zenon
  <2>2. at'[p] = at[p]
    BY <2>1, Zenon DEF Calm
  <2>3. QED
    BY <1>4, <2>1, <2>2, Zenon DEF Key
<1>7. ASSUME NEW p \in Calls PROVE InHand(p)' <=> InHand(p)
  BY Zenon DEF InHand
<1>8. ASSUME NEW p \in Calls PROVE Hand(p)'
  <2>1. CASE step[p] = "none"
    BY <2>1, Zenon DEF Hand, InHand
  <2>2. CASE step[p] # "none"
    <3>1. Hand(p)
      BY Zenon
    <3>2. Near(at[p], rec[p]) => Near(at[p], rec[p])'
      BY <1>5, <1>6, <2>2, Zenon DEF Near
    <3>3. forced => forced'
      BY Zenon DEF Calm
    <3>4. QED
      BY <1>6, <1>7, <2>2, <3>1, <3>2, <3>3, Zenon DEF Hand
  <2>3. QED
    BY <2>1, <2>2, Zenon
<1>9. ASSUME NEW c \in assigned' PROVE Positioned(c)'
  <2>1. c \in assigned /\ c \in Clients /\ client[c] # "absent"
    BY <1>9, Zenon DEF DTyped, Members
  <2>2. SUFFICES ASSUME ~forced', \A p \in Calls : at'[p] = c => ~InHand(p)'
                 PROVE  Near(c, position[c])'
    BY Zenon DEF Positioned
  <2>3. ASSUME NEW p \in Calls, at[p] = c PROVE ~InHand(p)
    <3>1. CASE step[p] = "none"
      BY <3>1, Zenon DEF InHand
    <3>2. CASE step[p] # "none"
      BY <1>6, <1>7, <2>2, <2>3, <3>2, Zenon
    <3>3. QED
      BY <3>1, <3>2, Zenon
  <2>4. ~forced
    BY <2>2, Zenon DEF Calm
  <2>5. Near(c, position[c])
    BY <2>1, <2>3, <2>4, Zenon DEF Positioned
  <2>6. QED
    BY <1>5, <2>1, <2>5, Zenon
<1>10. QED
  BY <1>1, <1>2, <1>3, <1>8, <1>9, Zenon

(* A step of a call that works on a client keeps the deliveries if it keeps  *)
(* what concerns that call and its client.                                   *)
LEMMA UserDelivery ==
  ASSUME Shape, Ownership, Permits, Delivery, DTyped', UNCHANGED <<vars, assigned, owner>>,
         NEW p \in Calls, step[p] # "none", step'[p] # "none",
         \A q \in Calls : q # p => step'[q] = step[q] /\ rec'[q] = rec[q],
         \A d \in Clients : d # at[p] => position'[d] = position[d],
         \A k \in Keys : handled[k] \subseteq handled'[k] /\ Prefix(k)',
         \A d \in Clients : \A n \in Nat :
           d # at[p] /\ key[d] \in Keys /\ Near(d, n) => Near(d, n)',
         Hand(p)', at[p] \in assigned => Positioned(at[p])'
  PROVE  Delivery'
<1> USE DEF Delivery
<1>1. UNCHANGED <<pc, at, key, client, forced>>
  BY Zenon DEF vars, managerVars, consumerVars, callVars
<1>2. Working'
  BY <1>1, Zenon DEF Working
<1>3. Members'
  BY <1>1, Zenon DEF Members
<1>4. ASSUME NEW q \in Calls, q # p PROVE InHand(q)' <=> InHand(q)
  BY <1>4, Zenon DEF InHand
<1>5. ASSUME NEW q \in Calls PROVE Hand(q)'
  <2>1. CASE q = p
    BY <2>1, Zenon
  <2>2. CASE q # p /\ step[q] = "none"
    BY <2>2, Zenon DEF Hand, InHand
  <2>3. CASE q # p /\ step[q] # "none"
    <3>1. Hand(q) /\ step'[q] = step[q] /\ rec'[q] = rec[q] /\ rec[q] \in Nat
      BY <2>3, Zenon DEF DTyped
    <3>2. at[q] # at[p] /\ at[q] \in Clients /\ Key(q) \in Keys
      BY <2>3, UserFacts, Zenon
    <3>3. position'[at[q]] = position[at[q]] /\ handled[Key(q)] \subseteq handled'[Key(q)]
      BY <3>2, Zenon
    <3>4. Near(at[q], rec[q]) => Near(at[q], rec[q])'
      BY <1>1, <3>1, <3>2, Zenon DEF Key, Near
    <3>5. Key(q)' = Key(q)
      BY <1>1, Zenon DEF Key
    <3>6. QED
      BY <1>1, <1>4, <2>3, <3>1, <3>3, <3>4, <3>5, Zenon DEF Hand
  <2>4. QED
    BY <2>1, <2>2, <2>3, Zenon
<1>6. ASSUME NEW d \in assigned PROVE Positioned(d)'
  <2>1. CASE d = at[p]
    BY <1>1, <1>6, <2>1, Zenon DEF Positioned, Near
  <2>2. CASE d # at[p]
    <3>1. d \in Clients /\ key[d] \in Keys
      BY <1>6, Zenon DEF DTyped, Members
    <3>2. position'[d] = position[d] /\ position[d] \in Nat
      BY <2>2, <3>1, Zenon DEF DTyped
    <3>3. Near(d, position[d]) => Near(d, position[d])'
      BY <2>2, <3>1, <3>2, Zenon DEF Near
    <3>4. (\A q \in Calls : at[q] = d => ~InHand(q)') => \A q \in Calls : at[q] = d => ~InHand(q)
      BY <1>4, <2>2, Zenon
    <3>5. QED
      BY <1>1, <3>3, <3>4, Zenon DEF Positioned
  <2>3. QED
    BY <2>1, <2>2, Zenon
<1>7. QED
  BY <1>2, <1>3, <1>5, <1>6, Zenon

(* What a step may do to the records of all keys: nothing, finish the first  *)
(* uncommitted record of a key, or commit a finished one.                    *)
Progress ==
  \/ UNCHANGED <<committed, handled>>
  \/ \E k \in Keys : /\ handled[k] = 1 .. committed[k] - 1 /\ committed[k] <= MaxOffset
                     /\ handled' = [handled EXCEPT ![k] = 1 .. committed[k]]
                     /\ UNCHANGED committed
  \/ \E k \in Keys : /\ handled[k] = 1 .. committed[k]
                     /\ committed' = [committed EXCEPT ![k] = @ + 1]
                     /\ UNCHANGED handled

(* A handler finishes a record that is not beyond the committed offset.      *)
LEMMA Finishes ==
  ASSUME DTyped, \A j \in Keys : Prefix(j), NEW k \in Keys, NEW r \in Offsets,
         r <= committed[k], committed' = committed,
         handled' = [handled EXCEPT ![k] = @ \cup {r}]
  PROVE  /\ Progress /\ handled' \in [Keys -> SUBSET Nat]
         /\ \A j \in Keys : handled[j] \subseteq handled'[j] /\ Prefix(j)'
<1>1. /\ handled \in [Keys -> SUBSET Nat] /\ committed[k] \in Nat /\ r \in Nat
      /\ 1 <= r /\ r <= MaxOffset /\ MaxOffset \in Nat
  BY MaxOffsetAssumption DEF DTyped, Offsets
<1>2. handled' \in [Keys -> SUBSET Nat] /\ handled'[k] = handled[k] \cup {r}
  <2>1. handled[k] \cup {r} \in SUBSET Nat
    BY <1>1, Zenon
  <2>2. QED
    BY <1>1, <2>1, Zenon
<1>3. ASSUME NEW j \in Keys, j # k PROVE handled'[j] = handled[j] /\ Prefix(j)'
  BY <1>1, <1>3, Zenon DEF Prefix
<1>4. CASE handled[k] = 1 .. committed[k] - 1 /\ r = committed[k]
  <2>1. handled[k] \cup {r} = 1 .. committed[k]
    BY <1>1, <1>4
  <2>2. Prefix(k)'
    <3>1. Prefix(k)
      BY Zenon
    <3>2. committed[k] <= MaxOffset
      BY <1>1, <1>4, Zenon
    <3>3. QED
      BY <1>2, <2>1, <3>1, <3>2, Zenon DEF Prefix
  <2>3. Progress
    <3>1. handled' = [handled EXCEPT ![k] = 1 .. committed[k]]
      BY <2>1, <1>1, Zenon
    <3>2. committed[k] <= MaxOffset
      BY <1>1, <1>4, Zenon
    <3>3. QED
      BY <1>4, <3>1, <3>2, Zenon DEF Progress
  <2>4. QED
    BY <1>2, <1>3, <2>2, <2>3, Zenon
<1>5. CASE ~(handled[k] = 1 .. committed[k] - 1 /\ r = committed[k])
  <2>1. r \in handled[k]
    <3>1. CASE handled[k] = 1 .. committed[k] - 1
      BY <1>1, <1>5, <3>1
    <3>2. CASE handled[k] = 1 .. committed[k]
      BY <1>1, <3>2
    <3>3. QED
      BY <3>1, <3>2, Zenon DEF Prefix
  <2>2. handled[k] \cup {r} = handled[k]
    BY <2>1, Zenon
  <2>3. handled' = handled
    BY <1>1, <2>2, Zenon
  <2>4. QED
    BY <1>2, <2>3, Zenon DEF Progress, Prefix
<1>6. QED
  BY <1>4, <1>5, Zenon

(* The group's offset moves to behind a finished record that is the first    *)
(* uncommitted or the last committed one.                                    *)
LEMMA Advances ==
  ASSUME DTyped, \A j \in Keys : Prefix(j), NEW k \in Keys, NEW r \in Nat, r \in handled[k],
         r <= committed[k], committed[k] <= r + 1, handled' = handled,
         committed' = [committed EXCEPT ![k] = r + 1]
  PROVE  /\ Progress /\ committed' \in [Keys -> Nat] /\ committed[k] <= committed'[k]
         /\ \A j \in Keys : Prefix(j)'
<1>1. /\ committed \in [Keys -> Nat] /\ committed[k] \in Nat /\ MaxOffset \in Nat
  BY MaxOffsetAssumption, Zenon DEF DTyped
<1>2. committed' \in [Keys -> Nat] /\ committed'[k] = r + 1
  BY <1>1
<1>3. committed[k] <= committed'[k]
  BY <1>2, Zenon
<1>4. ASSUME NEW j \in Keys, j # k PROVE Prefix(j)'
  BY <1>1, <1>4, Zenon DEF Prefix
<1>5. CASE r = committed[k]
  <2>1. Prefix(k) /\ r \notin 1 .. committed[k] - 1
    BY <1>1, <1>5
  <2>2. handled[k] = 1 .. committed[k] /\ committed[k] <= MaxOffset
    BY <2>1, Zenon DEF Prefix
  <2>3. committed'[k] - 1 = committed[k] /\ committed'[k] \in 1 .. MaxOffset + 1
    BY <1>1, <1>2, <1>5, <2>2, SMTT(30)
  <2>4. Prefix(k)'
    BY <2>2, <2>3, Zenon DEF Prefix
  <2>5. committed' = [committed EXCEPT ![k] = @ + 1]
    BY <1>1, <1>5, Zenon
  <2>6. Progress
    BY <2>2, <2>5, Zenon DEF Progress
  <2>7. QED
    BY <1>2, <1>3, <1>4, <2>4, <2>6, Zenon
<1>6. CASE r # committed[k]
  <2>1. r + 1 = committed[k]
    BY <1>1, <1>6
  <2>2. committed' = committed
    BY <1>1, <2>1, Zenon
  <2>3. QED
    BY <1>1, <1>2, <1>3, <2>2, Zenon DEF Progress, Prefix
<1>7. QED
  BY <1>5, <1>6, Zenon

(* That is what PopQueue allows.                                             *)
LEMMA ProgressIsQueueStep ==
  ASSUME DTyped, \A k \in Keys : Prefix(k), Progress
  PROVE  [Queue!QueueNext]_(Queue!queueVars)
<1> DEFINE f == [k \in Keys |-> Cardinality(handled[k])]
<1>1. CASE UNCHANGED <<committed, handled>>
  BY <1>1, Zenon DEF Queue!queueVars
<1>2. ASSUME NEW k \in Keys, handled[k] = 1 .. committed[k] - 1, committed[k] <= MaxOffset,
             handled' = [handled EXCEPT ![k] = 1 .. committed[k]], UNCHANGED committed
      PROVE  Queue!Finish(k)
  <2>1. committed[k] \in Nat /\ committed[k] >= 1 /\ handled \in [Keys -> SUBSET Nat]
    BY DEF DTyped, Prefix
  <2>2. Cardinality(1 .. committed[k]) = committed[k]
    BY <2>1, FS_Interval
  <2>3. Cardinality(1 .. committed[k] - 1) = committed[k] - 1
    BY <2>1, FS_Interval, SMTT(30)
  <2>4. f[k] < committed[k]
    BY <1>2, <2>1, <2>3
  <2>5. f' = [f EXCEPT ![k] = committed[k]]
    <3>1. \A j \in Keys : f'[j] = IF j = k THEN committed[k] ELSE f[j]
      BY <1>2, <2>1, <2>2, Zenon
    <3>2. QED
      BY <3>1, Zenon
  <2>6. QED
    BY <1>2, <2>4, <2>5, Zenon DEF Queue!Finish
<1>3. ASSUME NEW k \in Keys, handled[k] = 1 .. committed[k], UNCHANGED handled,
             committed' = [committed EXCEPT ![k] = @ + 1]
      PROVE  Queue!Commit(k)
  <2>1. committed[k] \in Nat /\ committed[k] >= 1
    BY DEF DTyped, Prefix
  <2>2. Cardinality(1 .. committed[k]) = committed[k]
    BY <2>1, FS_Interval
  <2>3. f[k] = committed[k] /\ f' = f
    BY <1>3, <2>2, Zenon
  <2>4. QED
    BY <1>3, <2>3, Zenon DEF Queue!Commit
<1>4. QED
  BY <1>1, <1>2, <1>3, Zenon DEF Progress, Queue!QueueNext

(* A step that touches no client and no call is calm.                        *)
LEMMA StillCalm == UNCHANGED vars => Calm
<1> SUFFICES ASSUME UNCHANGED <<pc, at, key, client, forced>> PROVE Calm
  BY Zenon DEF vars, managerVars, consumerVars, callVars
<1> QED
  BY Zenon DEF Calm

(* Rebalances keep the deliveries: a member that joins reads from the        *)
(* committed offset, and one that is removed can no longer commit.           *)
LEMMA GroupDelivery ==
  ASSUME Shape, Ownership, Permits, Delivery, GroupNext
  PROVE  Delivery' /\ Progress
<1>1. ASSUME NEW c \in Clients, Revoke(c) PROVE Delivery' /\ Progress
  <2>1. UNCHANGED <<vars, step, rec, position, committed, handled>>
    BY <1>1, Zenon DEF Revoke, callWork
  <2>2. key' = key /\ client' = client
    BY <2>1, Zenon DEF vars, consumerVars
  <2>3. c \in assigned /\ key[c] \in Keys
    BY <1>1, Zenon DEF Revoke, Delivery, Members, DTyped
  <2>4. /\ owner' \in [Keys -> Clients \cup {None}]
        /\ \A k \in Keys : owner'[k] = owner[k] \/ owner'[k] = None
        /\ \A k \in Keys : owner'[k] # None => owner'[k] = owner[k] /\ owner[k] # c
    <3>1. owner \in [Keys -> Clients \cup {None}]
      BY Zenon DEF Delivery, DTyped
    <3>2. CASE owner[key[c]] = c
      <4>1. owner' = [owner EXCEPT ![key[c]] = None]
        BY <1>1, <3>2, Zenon DEF Revoke
      <4>2. \A k \in Keys : owner[k] = c => k = key[c]
        BY PopAssumption, Zenon DEF Delivery, Members
      <4>3. QED
        BY <2>3, <3>1, <4>1, <4>2, Zenon
    <3>3. CASE owner[key[c]] # c
      <4>1. owner' = [owner EXCEPT ![key[c]] = @]
        BY <1>1, <3>3, Zenon DEF Revoke
      <4>2. owner' = owner
        BY <3>1, <4>1, Zenon
      <4>3. \A k \in Keys : owner[k] # c
        BY <3>3, PopAssumption, Zenon DEF Delivery, Members
      <4>4. QED
        BY <3>1, <4>2, <4>3, Zenon
    <3>4. QED
      BY <3>2, <3>3, Zenon
  <2>5. assigned' = assigned \ {c}
    BY <1>1, Zenon DEF Revoke
  <2>6. Members'
    BY <2>2, <2>4, <2>5, Zenon DEF Delivery, Members
  <2>7. Delivery'
    BY <2>1, <2>4, <2>5, <2>6, CalmDelivery, StillCalm, Zenon
  <2>8. QED
    BY <2>1, <2>7, Zenon DEF Progress
<1>2. ASSUME NEW c \in Clients, Fence(c) PROVE Delivery' /\ Progress
  <2>1. UNCHANGED <<vars, step, rec, position, committed, handled, assigned>>
    BY <1>2, Zenon DEF Fence, callWork
  <2>2. key' = key /\ client' = client
    BY <2>1, Zenon DEF vars, consumerVars
  <2>3. /\ owner' \in [Keys -> Clients \cup {None}]
        /\ \A k \in Keys : owner'[k] = owner[k] \/ owner'[k] = None
    BY <1>2, Zenon DEF Fence, Delivery, DTyped
  <2>4. Members'
    BY <2>1, <2>2, <2>3, Zenon DEF Delivery, Members
  <2>5. Delivery'
    BY <2>1, <2>3, <2>4, CalmDelivery, StillCalm, Zenon
  <2>6. QED
    BY <2>1, <2>5, Zenon DEF Progress
<1>3. ASSUME NEW c \in Clients, Assign(c) PROVE Delivery' /\ Progress
  <2>1. UNCHANGED <<vars, step, rec, committed, handled>>
    BY <1>3, Zenon DEF Assign, callWork
  <2>2. UNCHANGED <<pc, at, key, client, forced>>
    BY <2>1, Zenon DEF vars, managerVars, consumerVars, callVars
  <2>3. client[c] # "absent" /\ key[c] \in Keys /\ c \notin assigned /\ owner[key[c]] = None
    BY <1>3, Zenon DEF Assign, Delivery, Members
  <2>4. /\ owner' = [owner EXCEPT ![key[c]] = c] /\ assigned' = assigned \cup {c}
        /\ position' = [position EXCEPT ![c] = committed[key[c]]]
        /\ \A q \in Calls : step[q] # "none" => at[q] # c
    BY <1>3, Zenon DEF Assign, Blocking, Delivery, Working
  <2>5. DTyped'
    BY <2>1, <2>3, <2>4, Zenon DEF Delivery, DTyped
  <2>6. Working' /\ \A k \in Keys : Prefix(k)'
    BY <2>1, <2>2, Zenon DEF Delivery, Working, Prefix
  <2>7. Members'
    BY <2>2, <2>3, <2>4, PopAssumption, Zenon DEF Delivery, Members, DTyped
  <2>8. ASSUME NEW d \in Clients, d # c, NEW n, key[d] \in Keys, Near(d, n)
        PROVE  Near(d, n)'
    <3>1. owner'[key[d]] = d => owner[key[d]] = d
      BY <2>4, <2>8, Zenon DEF Delivery, DTyped
    <3>2. QED
      BY <2>1, <2>2, <2>8, <3>1, Zenon DEF Near
  <2>9. ASSUME NEW q \in Calls PROVE Hand(q)'
    <3>1. CASE step[q] = "none"
      BY <2>1, <3>1, Zenon DEF Hand, InHand
    <3>2. CASE step[q] # "none"
      <4>1. Hand(q) /\ at[q] # c /\ at[q] \in Clients /\ Key(q) \in Keys
        BY <2>4, <3>2, UserFacts, Zenon DEF Delivery
      <4>2. position'[at[q]] = position[at[q]]
        BY <2>4, <4>1, Zenon DEF Delivery, DTyped
      <4>3. Near(at[q], rec[q]) => Near(at[q], rec[q])'
        BY <2>1, <2>2, <2>8, <4>1, Zenon DEF Key, Near
      <4>4. InHand(q)' <=> InHand(q)
        BY <2>1, Zenon DEF InHand
      <4>5. QED
        BY <2>1, <2>2, <4>1, <4>2, <4>3, <4>4, Zenon DEF Hand, Key
    <3>3. QED
      BY <3>1, <3>2, Zenon
  <2>10. ASSUME NEW d \in assigned' PROVE Positioned(d)'
    <3>1. CASE d = c
      <4>1. position'[c] = committed[key[c]] /\ committed[key[c]] \in Nat
        BY <2>3, <2>4, Zenon DEF Delivery, DTyped
      <4>2. Near(c, position[c])'
        BY <2>1, <2>2, <4>1 DEF Near
      <4>3. QED
        BY <3>1, <4>2, Zenon DEF Positioned
    <3>2. CASE d # c
      <4>1. d \in assigned /\ d \in Clients /\ key[d] \in Keys /\ Positioned(d)
        BY <2>4, <2>10, <3>2, Zenon DEF Delivery, Members, DTyped
      <4>2. position'[d] = position[d]
        BY <2>4, <3>2, <4>1, Zenon DEF Delivery, DTyped
      <4>3. Near(d, position[d]) => Near(d, position[d])'
        BY <2>8, <3>2, <4>1, <4>2, Zenon DEF Near
      <4>4. \A q \in Calls : InHand(q)' <=> InHand(q)
        BY <2>1, Zenon DEF InHand
      <4>5. QED
        BY <2>2, <4>1, <4>3, <4>4, Zenon DEF Positioned
    <3>3. QED
      BY <3>1, <3>2, Zenon
  <2>11. QED
    BY <2>1, <2>5, <2>6, <2>7, <2>9, <2>10, Zenon DEF Delivery, Progress
<1>4. ASSUME UNCHANGED <<vars, step, rec, position, assigned, owner>>, Progress, DTyped',
             \A k \in Keys : handled[k] \subseteq handled'[k] /\ Prefix(k)',
             NEW j \in Keys, owner[j] = None, committed[j] <= committed'[j],
             \A k \in Keys : k # j => committed'[k] = committed[k]
      PROVE  Delivery' /\ Progress
  <2>1. UNCHANGED <<pc, at, key, client, forced>>
    BY <1>4, Zenon DEF vars, managerVars, consumerVars, callVars
  <2>2. Working' /\ Members'
    BY <1>4, <2>1, Zenon DEF Delivery, Working, Members
  <2>3. ASSUME NEW d \in Clients, NEW n \in Nat, key[d] \in Keys, Near(d, n)
        PROVE  Near(d, n)'
    <3>1. CASE key[d] = j
      <4>1. owner'[key[d]] # d
        BY <1>4, <3>1, PopAssumption, Zenon
      <4>2. committed[j] \in Nat /\ committed'[j] \in Nat
        BY <1>4, ZenonT(40) DEF Delivery, DTyped
      <4>3. n <= committed'[j]
        BY <1>4, <2>3, <3>1, <4>2 DEF Near
      <4>4. QED
        BY <2>1, <3>1, <4>1, <4>3, Zenon DEF Near
    <3>2. CASE key[d] # j
      BY <1>4, <2>1, <2>3, <3>2, Zenon DEF Near
    <3>3. QED
      BY <3>1, <3>2, Zenon
  <2>4. \A q \in Calls : InHand(q)' <=> InHand(q)
    BY <1>4, Zenon DEF InHand
  <2>5. ASSUME NEW q \in Calls PROVE Hand(q)'
    <3>1. CASE step[q] = "none"
      BY <1>4, <3>1, Zenon DEF Hand, InHand
    <3>2. CASE step[q] # "none"
      <4>1. Hand(q) /\ at[q] \in Clients /\ Key(q) \in Keys /\ rec[q] \in Nat
        BY <3>2, UserFacts, Zenon DEF Delivery, DTyped
      <4>2. Near(at[q], rec[q]) => Near(at[q], rec[q])'
        BY <1>4, <2>1, <2>3, <4>1, Zenon DEF Key, Near
      <4>3. handled[Key(q)] \subseteq handled'[Key(q)] /\ Key(q)' = Key(q)
        BY <1>4, <2>1, <4>1, Zenon DEF Key
      <4>4. QED
        BY <1>4, <2>1, <2>4, <4>1, <4>2, <4>3, Zenon DEF Hand
    <3>3. QED
      BY <3>1, <3>2, Zenon
  <2>6. ASSUME NEW d \in assigned' PROVE Positioned(d)'
    <3>1. d \in Clients /\ key[d] \in Keys /\ Positioned(d) /\ position[d] \in Nat
      BY <1>4, <2>6, Zenon DEF Delivery, Members, DTyped
    <3>2. Near(d, position[d]) => Near(d, position[d])'
      BY <1>4, <2>3, <3>1, Zenon DEF Near
    <3>3. QED
      BY <2>1, <2>4, <3>1, <3>2, Zenon DEF Positioned
  <2>7. QED
    BY <1>4, <2>2, <2>5, <2>6, Zenon DEF Delivery
<1>5. ASSUME NEW k \in Keys, PeerFinish(k) PROVE Delivery' /\ Progress
  <2>1. /\ UNCHANGED <<vars, step, rec, position, assigned, owner, committed>>
        /\ owner[k] = None /\ committed[k] \in Offsets
        /\ handled' = [handled EXCEPT ![k] = @ \cup {committed[k]}]
    BY <1>5, Zenon DEF PeerFinish, callWork, groupVars
  <2>2. committed[k] <= committed[k]
    BY <2>1 DEF Offsets
  <2>3. DTyped /\ \A j \in Keys : Prefix(j)
    BY Zenon DEF Delivery
  <2>4. /\ Progress /\ handled' \in [Keys -> SUBSET Nat]
        /\ \A j \in Keys : handled[j] \subseteq handled'[j] /\ Prefix(j)'
    BY <2>1, <2>2, <2>3, Finishes, Zenon
  <2>5. DTyped'
    BY <2>1, <2>3, <2>4, Zenon DEF DTyped
  <2>6. committed[k] <= committed'[k]
    BY <2>1, <2>2, Zenon
  <2>7. QED
    BY <1>4, <2>1, <2>4, <2>5, <2>6, Zenon
<1>6. ASSUME NEW k \in Keys, PeerCommit(k) PROVE Delivery' /\ Progress
  <2>1. /\ UNCHANGED <<vars, step, rec, position, assigned, owner, handled>>
        /\ owner[k] = None /\ committed[k] \in handled[k]
        /\ committed' = [committed EXCEPT ![k] = committed[k] + 1]
    BY <1>6, Zenon DEF PeerCommit, callWork
  <2>2. DTyped /\ (\A j \in Keys : Prefix(j)) /\ committed[k] \in Nat
    BY Zenon DEF Delivery, DTyped
  <2>3. committed[k] <= committed[k] /\ committed[k] <= committed[k] + 1
    BY <2>2
  <2>4. /\ Progress /\ committed' \in [Keys -> Nat] /\ committed[k] <= committed'[k]
        /\ \A j \in Keys : Prefix(j)'
    BY <2>1, <2>2, <2>3, Advances, Zenon
  <2>5. DTyped'
    BY <2>1, <2>2, <2>4, Zenon DEF DTyped
  <2>6. \A j \in Keys : handled[j] \subseteq handled'[j] /\ (j # k => committed'[j] = committed[j])
    BY <2>1, <2>2, Zenon DEF DTyped
  <2>7. QED
    BY <1>4, <2>1, <2>4, <2>5, <2>6, Zenon
<1>7. QED
  BY <1>1, <1>2, <1>3, <1>5, <1>6, Zenon DEF GroupNext

(* What the poll returns is in hand, at the position it was read from.       *)
LEMMA PollDelivery ==
  ASSUME Shape, Ownership, Permits, Delivery, NEW p \in Calls,
         NEW hasRecord \in BOOLEAN, NEW hasError \in BOOLEAN,
         PollReturns(p, hasRecord, hasError)
  PROVE  Delivery' /\ Progress
<1>1. /\ step[p] = "poll" /\ UNCHANGED <<vars, assigned, owner, committed, handled>>
      /\ hasRecord => at[p] \in assigned /\ position[at[p]] \in Offsets
      /\ rec' = [rec EXCEPT ![p] = IF hasRecord THEN position[at[p]] ELSE 0]
      /\ position' = IF hasRecord THEN [position EXCEPT ![at[p]] = @ + 1] ELSE position
      /\ step' = [step EXCEPT ![p] = IF hasError THEN "pollError" ELSE "polled"]
  BY Zenon DEF PollReturns
<1>2. UNCHANGED <<pc, at, key, client, forced>>
  BY <1>1, Zenon DEF vars, managerVars, consumerVars, callVars
<1>3. DTyped /\ Working /\ \A k \in Keys : Prefix(k)
  BY Zenon DEF Delivery
<1>4. /\ at[p] \in Clients /\ Key(p) \in Keys
      /\ \A q \in Calls : step[q] # "none" /\ q # p => at[q] # at[p]
  BY <1>1, <1>3, UserFacts, Zenon
<1>5. position[at[p]] \in Nat /\ position[at[p]] + 1 \in Nat
  BY <1>3, <1>4 DEF DTyped
<1>6. /\ step'[p] \in {"polled", "pollError"} /\ step' \in [Calls -> Steps]
      /\ \A q \in Calls : q # p => step'[q] = step[q] /\ rec'[q] = rec[q]
  <2>1. PICK s : s = IF hasError THEN "pollError" ELSE "polled"
    BY Zenon
  <2>2. s \in {"polled", "pollError"} /\ s \in Steps /\ step' = [step EXCEPT ![p] = s]
    BY <1>1, <2>1, Zenon DEF Steps
  <2>3. QED
    BY <1>1, <1>3, <2>2, Zenon DEF DTyped
<1>7. (\A k \in Keys : handled[k] \subseteq handled'[k] /\ Prefix(k)') /\ Progress
  BY <1>1, <1>3, Zenon DEF Prefix, Progress
<1>8. \A d \in Clients : \A n \in Nat :
        d # at[p] /\ key[d] \in Keys /\ Near(d, n) => Near(d, n)'
  BY <1>1, <1>2, Zenon DEF Near
<1>9. ~InHand(p) /\ \A q \in Calls : at[q] = at[p] => ~InHand(q)
  BY <1>1, <1>4, ZenonT(40) DEF InHand
<1>10. CASE hasRecord
  <2>1. /\ rec' = [rec EXCEPT ![p] = position[at[p]]]
        /\ position' = [position EXCEPT ![at[p]] = position[at[p]] + 1]
    BY <1>1, <1>10, Zenon
  <2>2. /\ rec' \in [Calls -> Nat] /\ position' \in [Clients -> Nat]
        /\ rec'[p] = position[at[p]] /\ position'[at[p]] = position[at[p]] + 1
        /\ \A d \in Clients : d # at[p] => position'[d] = position[d]
    BY <1>3, <1>4, <1>5, <2>1, Zenon DEF DTyped
  <2>3. DTyped'
    BY <1>1, <1>3, <1>6, <2>2, Zenon DEF DTyped
  <2>4. rec'[p] \in Offsets /\ rec'[p] # 0
    BY <1>1, <1>10, <2>2 DEF Offsets
  <2>5. InHand(p)'
    BY <1>6, <2>4, Zenon DEF InHand
  <2>6. ~forced => Near(at[p], position[at[p]])
    BY <1>1, <1>9, <1>10, Zenon DEF Delivery, Positioned
  <2>7. Hand(p)'
    <3>1. ~forced' => Near(at[p], rec[p])'
      BY <1>1, <1>2, <2>2, <2>6, Zenon DEF Near
    <3>2. (position[at[p]] = rec[p] + 1)'
      BY <1>2, <2>2, Zenon
    <3>3. step'[p] \notin {"handle", "handled", "commit"}
      BY <1>6, Zenon
    <3>4. QED
      BY <2>4, <3>1, <3>2, <3>3, Zenon DEF Hand, Offsets
  <2>8. Positioned(at[p])'
    BY <2>5, Zenon DEF Positioned
  <2>9. step'[p] # "none"
    BY <1>6, ZenonT(40)
  <2>10. QED
    BY <1>1, <1>6, <1>7, <1>8, <2>2, <2>3, <2>7, <2>8, <2>9, UserDelivery, ZenonT(40)
<1>11. CASE ~hasRecord
  <2>1. rec' = [rec EXCEPT ![p] = 0] /\ position' = position
    BY <1>1, <1>11, Zenon
  <2>2. rec' \in [Calls -> Nat] /\ rec'[p] = 0
    BY <1>3, <2>1, Zenon DEF DTyped
  <2>3. DTyped'
    BY <1>1, <1>3, <1>6, <2>1, <2>2, Zenon DEF DTyped
  <2>4. ~InHand(p)' /\ step'[p] \notin {"handle", "handled", "commit", "none"}
    BY <1>6, <2>2, Zenon DEF InHand
  <2>5. Hand(p)'
    BY <2>4, Zenon DEF Hand
  <2>6. at[p] \in assigned => Positioned(at[p])'
    <3>1. at[p] \in assigned => Positioned(at[p])
      BY Zenon DEF Delivery
    <3>2. QED
      BY <1>1, <1>2, <1>9, <2>1, <3>1, Zenon DEF Positioned, Near
  <2>7. step'[p] # "none" /\ \A d \in Clients : d # at[p] => position'[d] = position[d]
    BY <2>1, <2>4, Zenon
  <2>8. QED
    BY <1>1, <1>6, <1>7, <1>8, <2>3, <2>5, <2>6, <2>7, UserDelivery, ZenonT(40)
<1>12. QED
  BY <1>10, <1>11, Zenon

(* A call leaves its work, or goes on with the record in hand: the committed *)
(* offset and the finished records are as before.                            *)
LEMMA MovesOn ==
  ASSUME Shape, Ownership, Permits, Delivery, NEW p \in Calls, step[p] # "none",
         UNCHANGED <<vars, rec, assigned, owner, committed, handled>>,
         NEW s \in Steps \ {"none", "poll"}, step' = [step EXCEPT ![p] = s],
         position' = position \/ position' = Rewound(p), Hand(p)',
         s = "leave" /\ ~forced =>
           IF rec[p] = 0 THEN position' = position
           ELSE position' = Rewound(p) /\ Near(at[p], rec[p]),
         s # "leave" => InHand(p)'
  PROVE  Delivery' /\ Progress
<1>1. UNCHANGED <<pc, at, key, client, forced>>
  BY Zenon DEF vars, managerVars, consumerVars, callVars
<1>2. DTyped /\ Working /\ \A k \in Keys : Prefix(k)
  BY Zenon DEF Delivery
<1>3. /\ at[p] \in Clients /\ Key(p) \in Keys
      /\ \A q \in Calls : step[q] # "none" /\ q # p => at[q] # at[p]
  BY <1>2, UserFacts, Zenon
<1>4. /\ step'[p] = s /\ s # "none" /\ step' \in [Calls -> Steps] /\ rec[p] \in Nat
      /\ \A q \in Calls : q # p => step'[q] = step[q] /\ rec'[q] = rec[q]
  BY <1>2, Zenon DEF DTyped
<1>5. /\ position' \in [Clients -> Nat]
      /\ \A d \in Clients : d # at[p] => position'[d] = position[d]
      /\ position' = Rewound(p) => position'[at[p]] = rec[p]
  BY <1>2, <1>3, <1>4, Zenon DEF DTyped, Rewound
<1>6. DTyped'
  BY <1>2, <1>4, <1>5, Zenon DEF DTyped
<1>7. (\A k \in Keys : handled[k] \subseteq handled'[k] /\ Prefix(k)') /\ Progress
  BY <1>2, Zenon DEF Prefix, Progress
<1>8. \A d \in Clients : \A n \in Nat :
        d # at[p] /\ key[d] \in Keys /\ Near(d, n) => Near(d, n)'
  BY <1>1, Zenon DEF Near
<1>9. at[p] \in assigned => Positioned(at[p])'
  <2>1. CASE s # "leave"
    BY <1>1, <2>1, Zenon DEF Positioned
  <2>2. CASE s = "leave" /\ forced
    BY <1>1, <2>2, Zenon DEF Positioned
  <2>3. CASE s = "leave" /\ ~forced /\ rec[p] # 0
    <3>1. position' = Rewound(p) /\ Near(at[p], rec[p])
      BY <2>3, Zenon
    <3>2. Near(at[p], position[at[p]])'
      BY <1>1, <1>5, <3>1, Zenon DEF Near
    <3>3. QED
      BY <3>2, Zenon DEF Positioned
  <2>4. CASE s = "leave" /\ ~forced /\ rec[p] = 0
    <3>1. position' = position
      BY <2>4, Zenon
    <3>2. \A q \in Calls : at[q] = at[p] => ~InHand(q)
      BY <1>3, <2>4, Zenon DEF InHand
    <3>3. at[p] \in assigned => Near(at[p], position[at[p]])
      BY <2>4, <3>2, Zenon DEF Delivery, Positioned
    <3>4. QED
      BY <1>1, <3>1, <3>3, Zenon DEF Positioned, Near
  <2>5. QED
    BY <2>1, <2>2, <2>3, <2>4, Zenon
<1>10. QED
  BY <1>4, <1>5, <1>6, <1>7, <1>8, <1>9, UserDelivery, ZenonT(40)

(* A call that leaves knows nothing of a record any more.                    *)
LEMMA LeavesHand ==
  ASSUME NEW p \in Calls, step'[p] = "leave"
  PROVE  Hand(p)'
  BY Zenon DEF Hand, InHand

(* The decisions after the poll and after the handler, and a failed handler. *)
LEMMA DecisionDelivery ==
  ASSUME Shape, Ownership, Permits, Delivery, NEW p \in Calls,
         AfterPoll(p) \/ AfterHandle(p) \/ HandleFails(p)
  PROVE  Delivery' /\ Progress
<1>1. Hand(p) /\ step \in [Calls -> Steps]
  BY Zenon DEF Delivery, DTyped
<1>2. UNCHANGED <<vars, rec, assigned, owner, committed, handled>>
  BY Zenon DEF AfterPoll, AfterHandle, HandleFails
<1>3. UNCHANGED <<at, key, forced>>
  BY <1>2, Zenon DEF vars, managerVars, consumerVars, callVars
<1>4. CASE AfterPoll(p)
  <2>1. step[p] \in {"polled", "pollError"} /\ (rec[p] # 0 => InHand(p))
    BY <1>4, Zenon DEF AfterPoll, InHand
  <2>2. CASE Delivers(p)
    <3>1. /\ step' = [step EXCEPT ![p] = "handle"] /\ position' = position
          /\ ~forced /\ rec[p] # 0
      BY <1>4, <2>2, Zenon DEF AfterPoll, Delivers, Rewinds
    <3>2. step'[p] = "handle"
      BY <1>1, <3>1, Zenon
    <3>3. InHand(p)'
      BY <1>2, <3>1, <3>2, Zenon DEF InHand
    <3>4. Near(at[p], rec[p]) /\ rec[p] \in Offsets /\ position[at[p]] = rec[p] + 1
      BY <1>1, <2>1, <3>1, Zenon DEF Hand
    <3>5. Near(at[p], rec[p])'
      BY <1>2, <1>3, <3>4, Zenon DEF Near
    <3>6. Hand(p)'
      BY <1>2, <1>3, <3>1, <3>2, <3>4, <3>5, ZenonT(40) DEF Hand, Offsets
    <3>7. QED
      BY <1>2, <2>1, <3>1, <3>3, <3>6, MovesOn, Zenon DEF Steps
  <2>3. CASE ~Delivers(p)
    <3>1. step' = [step EXCEPT ![p] = "leave"]
      BY <1>4, <2>3, Zenon DEF AfterPoll
    <3>2. Hand(p)'
      BY <1>1, <3>1, LeavesHand, ZenonT(40)
    <3>3. CASE Rewinds(p)
      <4>1. position' = Rewound(p) /\ rec[p] # 0 /\ ~forced
        BY <1>4, <3>3, Zenon DEF AfterPoll, Rewinds
      <4>2. Near(at[p], rec[p])
        BY <1>1, <2>1, <4>1, Zenon DEF Hand
      <4>3. QED
        BY <1>2, <2>1, <3>1, <3>2, <4>1, <4>2, MovesOn, ZenonT(40) DEF Steps
    <3>4. CASE ~Rewinds(p)
      <4>1. position' = position
        BY <1>4, <3>4, Zenon DEF AfterPoll
      <4>2. forced \/ rec[p] = 0
        BY <2>1, <2>3, <3>4, Zenon DEF Delivers, Rewinds
      <4>3. QED
        BY <1>2, <2>1, <3>1, <3>2, <4>1, <4>2, MovesOn, ZenonT(40) DEF Steps
    <3>5. QED
      BY <3>3, <3>4, Zenon
  <2>4. QED
    BY <2>2, <2>3, Zenon
<1>5. ASSUME step[p] \in {"handle", "handled"}, step' = [step EXCEPT ![p] = "leave"],
             position' = Rewound(p) \/ (forced /\ position' = position)
      PROVE  Delivery' /\ Progress
  <2>1. rec[p] # 0 /\ Near(at[p], rec[p])
    BY <1>1, <1>5, Zenon DEF Hand
  <2>2. Hand(p)'
    BY <1>1, <1>5, LeavesHand, ZenonT(40)
  <2>3. QED
    BY <1>2, <1>5, <2>1, <2>2, MovesOn, ZenonT(40) DEF Steps
<1>6. CASE HandleFails(p)
  BY <1>5, <1>6, Zenon DEF HandleFails
<1>7. CASE AfterHandle(p)
  <2>1. step[p] = "handled" /\ InHand(p) /\ rec[p] # 0
    BY <1>1, <1>7, Zenon DEF AfterHandle, InHand, Hand
  <2>2. CASE forced \/ interrupted[p]
    <3>1. step' = [step EXCEPT ![p] = "leave"]
      BY <1>7, <2>2, ZenonT(40) DEF AfterHandle
    <3>2. position' = Rewound(p) \/ (forced /\ position' = position)
      BY <1>7, <2>2, Zenon DEF AfterHandle
    <3>3. QED
      BY <1>5, <2>1, <3>1, <3>2, Zenon
  <2>3. CASE ~(forced \/ interrupted[p])
    <3>1. step' = [step EXCEPT ![p] = "commit"] /\ position' = position
      BY <1>7, <2>3, Zenon DEF AfterHandle
    <3>2. step'[p] = "commit"
      BY <1>1, <3>1, Zenon
    <3>3. InHand(p)'
      BY <1>2, <2>1, <3>2, ZenonT(40) DEF InHand
    <3>4. /\ Near(at[p], rec[p]) /\ rec[p] \in Offsets /\ position[at[p]] = rec[p] + 1
          /\ rec[p] \in handled[Key(p)]
      BY <1>1, <2>1, Zenon DEF Hand
    <3>5. Near(at[p], rec[p])' /\ (rec[p] \in handled[Key(p)])'
      BY <1>2, <1>3, <3>4, ZenonT(40) DEF Near, Key
    <3>6. Hand(p)'
      BY <1>2, <1>3, <2>1, <3>1, <3>4, <3>5, Zenon DEF Hand, Offsets
    <3>7. QED
      BY <1>2, <2>1, <3>1, <3>3, <3>6, MovesOn, ZenonT(40) DEF Steps
  <2>4. QED
    BY <2>2, <2>3, ZenonT(40)
<1>8. QED
  BY <1>4, <1>6, <1>7, Zenon

(* A handler finishes the record in hand.                                    *)
LEMMA HandleDelivery ==
  ASSUME Shape, Ownership, Permits, Delivery, NEW p \in Calls, HandleSucceeds(p)
  PROVE  Delivery' /\ Progress
<1>1. /\ step[p] = "handle" /\ UNCHANGED <<vars, rec, position, assigned, owner, committed>>
      /\ step' = [step EXCEPT ![p] = "handled"]
      /\ handled' = [handled EXCEPT ![Key(p)] = @ \cup {rec[p]}]
  BY Zenon DEF HandleSucceeds, groupVars
<1>2. UNCHANGED <<pc, at, key, client, forced>>
  BY <1>1, Zenon DEF vars, managerVars, consumerVars, callVars
<1>3. DTyped /\ Working /\ Hand(p) /\ \A k \in Keys : Prefix(k)
  BY Zenon DEF Delivery
<1>4. at[p] \in Clients /\ Key(p) \in Keys /\ step[p] # "none"
  BY <1>1, <1>3, UserFacts, ZenonT(40)
<1>5. /\ rec[p] # 0 /\ rec[p] \in Offsets /\ position[at[p]] = rec[p] + 1
      /\ Near(at[p], rec[p])
  BY <1>1, <1>3, Zenon DEF Hand, InHand
<1>6. rec[p] <= committed[Key(p)]
  BY <1>5, Zenon DEF Near, Key
<1>7. /\ Progress /\ handled' \in [Keys -> SUBSET Nat]
      /\ \A k \in Keys : handled[k] \subseteq handled'[k] /\ Prefix(k)'
  BY <1>1, <1>3, <1>4, <1>5, <1>6, Finishes, Zenon
<1>8. step'[p] = "handled" /\ \A q \in Calls : q # p => step'[q] = step[q] /\ rec'[q] = rec[q]
  BY <1>1, <1>3, Zenon DEF DTyped
<1>9. DTyped'
  <2>1. step' \in [Calls -> Steps]
    BY <1>1, <1>3, Zenon DEF DTyped, Steps
  <2>2. QED
    BY <1>1, <1>3, <1>7, <2>1, Zenon DEF DTyped
<1>10. \A d \in Clients : \A n \in Nat :
        d # at[p] /\ key[d] \in Keys /\ Near(d, n) => Near(d, n)'
  BY <1>1, <1>2, Zenon DEF Near
<1>11. Hand(p)' /\ InHand(p)'
  <2>1. InHand(p)'
    BY <1>1, <1>5, <1>8, Zenon DEF InHand
  <2>2. Near(at[p], rec[p])'
    BY <1>1, <1>2, <1>5, Zenon DEF Near
  <2>3. (rec[p] \in handled[Key(p)])'
    BY <1>1, <1>2, <1>3, <1>4, Zenon DEF DTyped, Key
  <2>4. QED
    BY <1>1, <1>2, <1>5, <2>1, <2>2, <2>3, Zenon DEF Hand, Offsets
<1>12. Positioned(at[p])'
  BY <1>11, Zenon DEF Positioned
<1>13. step'[p] # "none" /\ \A d \in Clients : d # at[p] => position'[d] = position[d]
  BY <1>1, <1>8, ZenonT(40)
<1>14. QED
  BY <1>1, <1>4, <1>7, <1>8, <1>9, <1>10, <1>11, <1>12, <1>13, UserDelivery, ZenonT(40)

(* A commit, or a failed one that was applied all the same.                  *)
LEMMA CommitDelivery ==
  ASSUME Shape, Ownership, Permits, Delivery, NEW p \in Calls,
         step[p] = "commit", owner[Key(p)] = at[p], committed' = Committed(p),
         step' = [step EXCEPT ![p] = "leave"],
         position' = position \/ position' = Rewound(p),
         UNCHANGED <<vars, rec, assigned, owner, handled>>
  PROVE  Delivery' /\ Progress
<1>1. UNCHANGED <<pc, at, key, client, forced>>
  BY Zenon DEF vars, managerVars, consumerVars, callVars
<1>2. DTyped /\ Working /\ Hand(p) /\ \A k \in Keys : Prefix(k)
  BY Zenon DEF Delivery
<1>3. at[p] \in Clients /\ Key(p) \in Keys /\ step[p] # "none"
  BY <1>2, UserFacts, ZenonT(40)
<1>4. /\ rec[p] \in handled[Key(p)] /\ position[at[p]] = rec[p] + 1
      /\ Near(at[p], rec[p]) /\ rec[p] \in Nat
  BY <1>2, Zenon DEF Hand, InHand, DTyped
<1>5. rec[p] <= committed[Key(p)] /\ committed[Key(p)] <= rec[p] + 1
  BY <1>4, Zenon DEF Near, Key
<1>6. committed' = [committed EXCEPT ![Key(p)] = rec[p] + 1]
  BY Zenon DEF Committed
<1>7. /\ Progress /\ committed' \in [Keys -> Nat] /\ committed[Key(p)] <= committed'[Key(p)]
      /\ \A k \in Keys : Prefix(k)'
  BY <1>2, <1>3, <1>4, <1>5, <1>6, Advances, Zenon
<1>8. step'[p] = "leave" /\ \A q \in Calls : q # p => step'[q] = step[q] /\ rec'[q] = rec[q]
  BY <1>2, Zenon DEF DTyped
<1>9. /\ position' \in [Clients -> Nat]
      /\ \A d \in Clients : d # at[p] => position'[d] = position[d]
      /\ position'[at[p]] = rec[p] \/ position'[at[p]] = rec[p] + 1
  BY <1>2, <1>3, <1>4, Zenon DEF DTyped, Rewound
<1>10. DTyped'
  <2>1. step' \in [Calls -> Steps]
    BY <1>2, Zenon DEF DTyped, Steps
  <2>2. QED
    BY <1>2, <1>7, <1>9, <2>1, Zenon DEF DTyped
<1>11. ASSUME NEW d \in Clients, NEW n \in Nat, d # at[p], key[d] \in Keys, Near(d, n)
       PROVE  Near(d, n)'
  <2>1. CASE key[d] = Key(p)
    <3>1. owner'[key[d]] # d
      BY <1>11, <2>1, Zenon
    <3>2. committed[Key(p)] \in Nat /\ committed'[Key(p)] \in Nat
      BY <1>2, <1>3, <1>7, Zenon DEF DTyped
    <3>3. n <= committed'[key[d]]
      BY <1>7, <1>11, <2>1, <3>2 DEF Near
    <3>4. QED
      BY <1>1, <3>1, <3>3, Zenon DEF Near
  <2>2. CASE key[d] # Key(p)
    <3>1. committed'[key[d]] = committed[key[d]]
      BY <1>2, <1>3, <1>6, <1>11, <2>2, Zenon DEF DTyped
    <3>2. QED
      BY <1>1, <1>11, <3>1, Zenon DEF Near
  <2>3. QED
    BY <2>1, <2>2, Zenon
<1>12. Hand(p)'
  BY <1>8, LeavesHand, Zenon
<1>13. Positioned(at[p])'
  <2>1. committed'[key'[at'[p]]] = rec[p] + 1
    BY <1>1, <1>2, <1>3, <1>6, Zenon DEF DTyped, Key
  <2>2. position'[at'[p]] = rec[p] \/ position'[at'[p]] = rec[p] + 1
    BY <1>1, <1>9, Zenon
  <2>3. Near(at[p], position[at[p]])'
    <3>1. rec[p] <= rec[p] + 1 /\ rec[p] + 1 <= rec[p] + 1 /\ rec[p] + 1 <= rec[p] + 1 + 1
      BY <1>4
    <3>2. CASE position'[at'[p]] = rec[p]
      BY <2>1, <3>1, <3>2, Zenon DEF Near
    <3>3. CASE position'[at'[p]] = rec[p] + 1
      BY <2>1, <3>1, <3>3, Zenon DEF Near
    <3>4. QED
      BY <2>2, <3>2, <3>3, Zenon
  <2>4. QED
    BY <2>3, Zenon DEF Positioned
<1>14. step'[p] # "none" /\ \A k \in Keys : handled[k] \subseteq handled'[k] /\ Prefix(k)'
  BY <1>7, <1>8, Zenon
<1>15. QED
  BY <1>3, <1>7, <1>8, <1>9, <1>10, <1>11, <1>12, <1>13, <1>14, UserDelivery, ZenonT(40)

(* A commit that failed and was not applied rewinds the client.              *)
LEMMA CommitsDelivery ==
  ASSUME Shape, Ownership, Permits, Delivery, NEW p \in Calls,
         CommitSucceeds(p) \/ \E applied \in BOOLEAN : CommitFails(p, applied)
  PROVE  Delivery' /\ Progress
<1>1. CASE CommitSucceeds(p)
  BY <1>1, CommitDelivery, ZenonT(40) DEF CommitSucceeds
<1>2. ASSUME NEW applied \in BOOLEAN, CommitFails(p, applied) PROVE Delivery' /\ Progress
  <2>1. CASE applied
    BY <1>2, <2>1, CommitDelivery, Zenon DEF CommitFails
  <2>2. CASE ~applied
    <3>1. /\ UNCHANGED <<vars, rec, assigned, owner, committed, handled>>
          /\ step[p] = "commit" /\ step' = [step EXCEPT ![p] = "leave"]
          /\ position' = Rewound(p)
      BY <1>2, <2>2, Zenon DEF CommitFails
    <3>2. Hand(p) /\ step \in [Calls -> Steps]
      BY Zenon DEF Delivery, DTyped
    <3>3. rec[p] # 0 /\ Near(at[p], rec[p])
      BY <3>1, <3>2, Zenon DEF Hand
    <3>4. Hand(p)'
      BY <3>1, <3>2, LeavesHand, Zenon
    <3>5. QED
      BY <3>1, <3>3, <3>4, MovesOn, ZenonT(40) DEF Steps
  <2>3. QED
    BY <2>1, <2>2, Zenon
<1>3. QED
  BY <1>1, <1>2, Zenon

(* A call begins or ends its work on a client.                               *)
LEMMA SwitchDelivery ==
  ASSUME Shape, Ownership, Permits, Delivery, NEW p \in Calls, BeginPoll(p) \/ Leave(p)
  PROVE  Delivery' /\ Progress
<1>1. UNCHANGED <<at, key, client, forced, position, assigned, owner, committed, handled>>
  BY Zenon DEF BeginPoll, Recheck, Leave, EndUse, groupVars, managerVars
<1>2. DTyped /\ Working /\ Members /\ (\A k \in Keys : Prefix(k)) /\ pc \in [Calls -> PcValues]
  BY Zenon DEF Delivery, Shape, Typed
<1>3. /\ DTyped' /\ Working' /\ step[p] \in {"none", "leave"} /\ step'[p] \in {"none", "poll"}
      /\ \A q \in Calls : q # p => step'[q] = step[q] /\ rec'[q] = rec[q]
  <2>1. CASE Leave(p)
    <3>1. /\ step[p] = "leave" /\ step' = [step EXCEPT ![p] = "none"]
          /\ rec' = [rec EXCEPT ![p] = 0] /\ pc' = [pc EXCEPT ![p] = "unpin"]
      BY <2>1, Zenon DEF Leave, EndUse
    <3>2. rec' \in [Calls -> Nat] /\ step' \in [Calls -> Steps]
      BY <1>2, <3>1, Zenon DEF DTyped, Steps
    <3>3. DTyped'
      BY <1>1, <1>2, <3>2, Zenon DEF DTyped
    <3>4. step'[p] = "none" /\ pc'[p] = "unpin"
      BY <1>2, <3>1, Zenon DEF DTyped
    <3>5. \A q \in Calls : q # p => step'[q] = step[q] /\ rec'[q] = rec[q] /\ pc'[q] = pc[q]
      BY <1>2, <3>1, Zenon DEF DTyped
    <3>6. Working'
      BY <1>2, <3>4, <3>5, Zenon DEF Working
    <3>7. QED
      BY <3>1, <3>3, <3>4, <3>5, <3>6, Zenon
  <2>2. CASE BeginPoll(p)
    <3>1. /\ pc[p] = "check" /\ rec' = rec
          /\ pc' = [pc EXCEPT ![p] = "use"] \/ pc' = [pc EXCEPT ![p] = "unpin"]
          /\ step' = IF pc'[p] = "use" THEN [step EXCEPT ![p] = "poll"] ELSE step
      BY <2>2, Zenon DEF BeginPoll, Recheck
    <3>2. step[p] = "none" /\ rec \in [Calls -> Nat] /\ step \in [Calls -> Steps]
      BY <1>2, <3>1, Zenon DEF Working, DTyped
    <3>3. CASE pc' = [pc EXCEPT ![p] = "use"]
      <4>1. step' = [step EXCEPT ![p] = "poll"] /\ pc'[p] = "use"
        BY <1>2, <3>1, <3>3, Zenon
      <4>2. step' \in [Calls -> Steps] /\ step'[p] = "poll"
        BY <3>2, <4>1, Zenon DEF Steps
      <4>3. \A q \in Calls : q # p => step'[q] = step[q] /\ pc'[q] = pc[q]
        BY <1>2, <3>2, <3>3, <4>1, Zenon
      <4>4. DTyped'
        BY <1>1, <1>2, <3>1, <4>2, Zenon DEF DTyped
      <4>5. Working'
        BY <1>2, <4>1, <4>2, <4>3, Zenon DEF Working
      <4>6. QED
        BY <3>1, <3>2, <4>2, <4>3, <4>4, <4>5, Zenon
    <3>4. CASE pc' = [pc EXCEPT ![p] = "unpin"]
      <4>1. step' = step /\ pc'[p] = "unpin"
        BY <1>2, <3>1, <3>4, Zenon
      <4>2. \A q \in Calls : q # p => pc'[q] = pc[q]
        BY <1>2, <3>4, Zenon
      <4>3. DTyped'
        BY <1>1, <1>2, <3>1, <4>1, ZenonT(40) DEF DTyped
      <4>4. Working'
        BY <1>2, <3>2, <4>1, <4>2, Zenon DEF Working
      <4>5. QED
        BY <3>1, <3>2, <4>1, <4>3, <4>4, Zenon
    <3>5. QED
      BY <3>1, <3>3, <3>4, Zenon
  <2>3. QED
    BY <2>1, <2>2, Zenon
<1>4. Members' /\ (\A k \in Keys : Prefix(k)') /\ Progress
  BY <1>1, <1>2, Zenon DEF Members, Prefix, Progress
<1>5. ASSUME NEW q \in Calls PROVE InHand(q)' <=> InHand(q)
  <2>1. CASE q = p
    BY <1>3, <2>1, Zenon DEF InHand
  <2>2. CASE q # p
    BY <1>3, <2>2, Zenon DEF InHand
  <2>3. QED
    BY <2>1, <2>2, ZenonT(40)
<1>6. ASSUME NEW q \in Calls PROVE Hand(q)'
  <2>1. CASE q = p
    BY <1>3, <2>1, Zenon DEF Hand, InHand
  <2>2. CASE q # p
    BY <1>1, <1>3, <1>5, <2>2, Zenon DEF Delivery, Hand, Near, Key
  <2>3. QED
    BY <2>1, <2>2, ZenonT(40)
<1>7. ASSUME NEW c \in assigned PROVE Positioned(c)'
  BY <1>1, <1>5, <1>7, Zenon DEF Delivery, Positioned, Near
<1>8. QED
  BY <1>1, <1>3, <1>4, <1>6, <1>7, Zenon DEF Delivery

(* Nothing is delivered at first.                                            *)
LEMMA DeliveryInit == DInit => Delivery
<1> SUFFICES ASSUME DInit PROVE Delivery
  BY Zenon
<1>1. DTyped
  BY Zenon DEF DInit, DTyped, Steps
<1>2. Working /\ Members
  BY Zenon DEF DInit, Init, Working, Members
<1>3. ASSUME NEW k \in Keys PROVE Prefix(k)
  <2>1. committed[k] = 1 /\ handled[k] = {}
    BY Zenon DEF DInit
  <2>2. 1 .. 1 - 1 = {} /\ 1 \in 1 .. MaxOffset + 1
    BY MaxOffsetAssumption
  <2>3. QED
    BY <2>1, <2>2, Zenon DEF Prefix
<1>4. ASSUME NEW p \in Calls PROVE Hand(p)
  BY Zenon DEF DInit, Hand, InHand
<1>5. assigned = {}
  BY Zenon DEF DInit
<1>6. QED
  BY <1>1, <1>2, <1>3, <1>4, <1>5, Zenon DEF Delivery

(* The cache goes on beside the calls, and clients that are closed leave     *)
(* their groups.                                                             *)
LEMMA CacheDelivery ==
  ASSUME Shape, Ownership, Permits, Delivery,
         (\E p \in Calls : CacheStep(p) \/ Interrupt(p)) \/ (ClosingStep /\ LeaveGroup)
  PROVE  Delivery' /\ Progress
<1>1. UNCHANGED <<step, rec, position, committed, handled>>
  BY Zenon DEF CacheStep, Interrupt, LeaveGroup, deliveryVars, callWork, groupVars
<1>2. Calm
  BY CacheCalm, ClosingCalm, StillCalm, Zenon DEF CacheStep, Interrupt
<1>3. DTyped /\ Members
  BY Zenon DEF Delivery
<1>4. /\ assigned' \subseteq assigned /\ owner' \in [Keys -> Clients \cup {None}]
      /\ \A k \in Keys : owner'[k] = owner[k] \/ owner'[k] = None
      /\ \A k \in Keys : owner'[k] # None => owner'[k] \notin assigned \ assigned'
  <2>1. CASE \E p \in Calls : CacheStep(p) \/ Interrupt(p)
    <3>1. UNCHANGED <<assigned, owner>>
      BY <2>1, Zenon DEF CacheStep, Interrupt, deliveryVars, groupVars
    <3>2. QED
      BY <1>3, <3>1, Zenon DEF DTyped
  <2>2. CASE LeaveGroup
    <3>1. /\ assigned' = {c \in assigned : client'[c] # "closed"}
          /\ owner' = [k \in Keys |-> IF owner[k] \in assigned \ assigned'
                                      THEN None ELSE owner[k]]
      BY <2>2, Zenon DEF LeaveGroup
    <3>2. assigned' \subseteq assigned
      BY <3>1, Zenon
    <3>3. ASSUME NEW k \in Keys
          PROVE  /\ owner'[k] = owner[k] \/ owner'[k] = None
                 /\ owner'[k] # None => owner'[k] \notin assigned \ assigned'
                 /\ owner'[k] \in Clients \cup {None}
      BY <1>3, <3>1, Zenon DEF DTyped
    <3>4. owner' \in [Keys -> Clients \cup {None}]
      BY <3>1, <3>3, Zenon
    <3>5. QED
      BY <3>2, <3>3, <3>4, Zenon
  <2>3. QED
    BY <2>1, <2>2, Zenon
<1>5. Members'
  <2>1. ASSUME NEW c \in Clients, client'[c] # "absent" PROVE key'[c] \in Keys
    BY <1>2, <1>3, <2>1, Zenon DEF Calm, Members
  <2>2. ASSUME NEW c \in assigned' PROVE client'[c] # "absent"
    BY <1>2, <1>3, <1>4, <2>2, Zenon DEF Calm, Members, DTyped
  <2>3. ASSUME NEW k \in Keys, owner'[k] # None
        PROVE  owner'[k] \in assigned' /\ key'[owner'[k]] = k
    <3>1. PICK c : c = owner[k]
      BY Zenon
    <3>2. owner'[k] = c /\ c \in assigned /\ key[c] = k
      BY <1>3, <1>4, <2>3, <3>1, Zenon DEF Members
    <3>3. c \in assigned' /\ client[c] # "absent" /\ c \in Clients
      BY <1>3, <1>4, <2>3, <3>2, Zenon DEF Members, DTyped
    <3>4. QED
      BY <1>2, <3>2, <3>3, Zenon DEF Calm
  <2>4. QED
    BY <2>1, <2>2, <2>3, Zenon DEF Members
<1>6. Delivery'
  BY <1>1, <1>2, <1>4, <1>5, CalmDelivery, Zenon
<1>7. QED
  BY <1>1, <1>6, Zenon DEF Progress

(* Every step keeps the deliveries and is a step of the records.             *)
LEMMA DeliveryNext ==
  ASSUME Shape, Ownership, Permits, Delivery, [DNext]_allVars
  PROVE  Delivery' /\ Progress
<1>1. CASE UNCHANGED allVars
  <2>1. UNCHANGED <<vars, step, rec, position, committed, handled, assigned, owner>>
    BY <1>1, Zenon DEF allVars, deliveryVars, callWork, groupVars
  <2>2. UNCHANGED <<key, client>>
    BY <2>1, Zenon DEF vars, consumerVars
  <2>3. Members' /\ owner' \in [Keys -> Clients \cup {None}]
    BY <2>1, <2>2, Zenon DEF Delivery, Members, DTyped
  <2>4. Delivery'
    BY <2>1, <2>3, CalmDelivery, StillCalm, Zenon
  <2>5. QED
    BY <2>1, <2>4, Zenon DEF Progress
<1>2. ASSUME NEW p \in Calls, ConsumeStep(p) \/ HandlerReturns(p) \/ BeginPoll(p)
      PROVE  Delivery' /\ Progress
  <2>1. CASE \E hasRecord, hasError \in BOOLEAN : PollReturns(p, hasRecord, hasError)
    BY <2>1, PollDelivery, Zenon
  <2>2. CASE AfterPoll(p) \/ AfterHandle(p) \/ HandleFails(p)
    BY <2>2, DecisionDelivery, Zenon
  <2>3. CASE HandleSucceeds(p)
    BY <2>3, HandleDelivery, Zenon
  <2>4. CASE CommitSucceeds(p) \/ \E applied \in BOOLEAN : CommitFails(p, applied)
    BY <2>4, CommitsDelivery, Zenon
  <2>5. CASE BeginPoll(p) \/ Leave(p)
    BY <2>5, SwitchDelivery, Zenon
  <2>6. QED
    BY <1>2, <2>1, <2>2, <2>3, <2>4, <2>5, Zenon DEF ConsumeStep, HandlerReturns
<1>3. CASE DNext
  BY <1>2, <1>3, CacheDelivery, GroupDelivery, Zenon DEF DNext
<1>4. QED
  BY <1>1, <1>3, Zenon

(* The deliveries take place in the cache of KafkaPop: what is proved there  *)
(* holds here.                                                               *)
LEMMA DeliveryRefinesCache == DSpec => Spec
<1>1. DInit => Init
  BY Zenon DEF DInit
<1>2. [DNext]_allVars => [Next]_vars
  <2> SUFFICES ASSUME [DNext]_allVars PROVE [Next]_vars
    BY Zenon
  <2>1. CASE UNCHANGED allVars
    BY <2>1, Zenon DEF allVars
  <2>2. ASSUME NEW p \in Calls, CacheStep(p) PROVE Next
    BY <2>2, Zenon DEF CacheStep, Next, CallNext
  <2>3. ASSUME NEW p \in Calls, BeginPoll(p) \/ Leave(p) PROVE Next
    BY <2>3, Zenon DEF BeginPoll, Leave, Next, CallNext
  <2>4. ASSUME NEW p \in Calls, ConsumeStep(p) \/ HandlerReturns(p) \/ Interrupt(p)
        PROVE  Leave(p) \/ UNCHANGED vars
    BY <2>4, Zenon DEF ConsumeStep, HandlerReturns, Interrupt, PollReturns, AfterPoll,
          AfterHandle, CommitSucceeds, CommitFails, HandleSucceeds, HandleFails
  <2>5. CASE ClosingStep
    BY <2>5, Zenon DEF ClosingStep, Next, CallNext
  <2>6. CASE GroupNext
    BY <2>6, Zenon DEF GroupNext, Assign, Revoke, Fence, PeerFinish, PeerCommit
  <2>7. QED
    BY <2>1, <2>2, <2>3, <2>4, <2>5, <2>6, ZenonT(40) DEF DNext
<1>3. QED
  BY <1>1, <1>2, PTL DEF DSpec, Spec

(* For every instance: whatever fails, is interrupted, fenced, expired or    *)
(* closed, Consume delivers the records of a key as PopQueue promises.  None *)
(* is lost, none overtakes another, and the committed offset moves over a    *)
(* record only after a handler finished it.                                  *)
THEOREM DeliveryImplementsQueue == DSpec => RefinesQueue
<1>1. DInit => Queue!QueueInit
  <2> SUFFICES ASSUME DInit PROVE Queue!QueueInit
    BY Zenon
  <2>1. committed = [k \in Keys |-> 1] /\ handled = [k \in Keys |-> {}]
    BY Zenon DEF DInit
  <2>2. \A k \in Keys : Cardinality(handled[k]) = 0
    BY <2>1, FS_EmptySet, Zenon
  <2>3. QED
    BY <2>1, <2>2, Zenon DEF Queue!QueueInit
<1>2. Shape /\ Ownership /\ Permits /\ Delivery /\ [DNext]_allVars => Delivery'
  BY DeliveryNext, Zenon
<1>3. Shape /\ Ownership /\ Permits /\ Delivery /\ [DNext]_allVars
        => [Queue!QueueNext]_(Queue!queueVars)
  BY DeliveryNext, ProgressIsQueueStep, Zenon DEF Delivery
<1>4. DSpec => [](Shape /\ Ownership /\ Permits)
  BY DeliveryRefinesCache, ShapeInvariant, OwnershipInvariant, PermitsInvariant, PTL
<1>5. QED
  BY <1>1, <1>2, <1>3, <1>4, DeliveryInit, PTL DEF DSpec, RefinesQueue, Queue!QueueSpec
=============================================================================
