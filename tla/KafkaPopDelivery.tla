-------------------------- MODULE KafkaPopDelivery --------------------------
(***************************************************************************)
(* Consume between acquire and release: PollRecords, the handler, the      *)
(* commit, the rewinds, and what interrupts them: a rebalance of the Kafka *)
(* group and a forced shutdown.  The module adds the work on the client to *)
(* the cache of KafkaPop.  The Kafka client and its group are modelled as  *)
(* far as manager.go relies on them (external); a topic has one partition. *)
(***************************************************************************)
EXTENDS KafkaPop

CONSTANT MaxOffset   \* every topic holds the records 1 .. MaxOffset

ASSUME MaxOffsetAssumption == MaxOffset \in Nat \ {0}

VARIABLES
  step,         \* where Consume is between begin and the deferred finish
  rec,          \* the record in hand, 0 for none
  interrupted,  \* rebalanceCtx is cancelled
  position,     \* the client's local position: the next offset it returns
  assigned,     \* clients that believe they own their key's partition
  owner,        \* per key: the client the group coordinator accepts commits of
  committed,    \* per key: the group's committed offset
  handled       \* per key: the records a handler returned nil for

callWork == <<step, rec, interrupted>>
groupVars == <<position, assigned, owner, committed>>
deliveryVars == <<callWork, groupVars, handled>>
allVars == <<vars, deliveryVars>>

Offsets == 1 .. MaxOffset
Key(p) == key[at[p]]

DInit ==
  /\ Init
  /\ step = [p \in Calls |-> "none"]
  /\ rec = [p \in Calls |-> 0]
  /\ interrupted = [p \in Calls |-> FALSE]
  /\ position = [c \in Clients |-> 1]
  /\ assigned = {}
  /\ owner = [k \in Keys |-> None]
  /\ committed = [k \in Keys |-> 1]
  /\ handled = [k \in Keys |-> {}]

-----------------------------------------------------------------------------
(* The Kafka client and its group (external) *)

(* BlockRebalanceOnPoll: from PollRecords to AllowRebalance.                *)
Blocking(c) == \E p \in Calls : pc[p] = "use" /\ at[p] = c

(* A member joins or wins the partition back: it reads from the committed   *)
(* offset.                                                                  *)
Assign(c) ==
  /\ client[c] = "open" /\ ~Blocking(c)
  /\ c \notin assigned /\ owner[key[c]] = None
  /\ owner' = [owner EXCEPT ![key[c]] = c]
  /\ assigned' = assigned \cup {c}
  /\ position' = [position EXCEPT ![c] = committed[key[c]]]
  /\ UNCHANGED <<vars, callWork, committed, handled>>

(* A rebalance takes the partition away from a member that does not block   *)
(* it, or a member learns that it was removed.                              *)
Revoke(c) ==
  /\ c \in assigned /\ ~Blocking(c)
  /\ assigned' = assigned \ {c}
  /\ owner' = [owner EXCEPT ![key[c]] = IF @ = c THEN None ELSE @]
  /\ UNCHANGED <<vars, callWork, position, committed, handled>>

(* The coordinator removes a member whose session or rebalance timeout      *)
(* expired; the member does not know yet.                                   *)
Fence(c) ==
  /\ client[c] = "open" /\ owner[key[c]] = c
  /\ owner' = [owner EXCEPT ![key[c]] = None]
  /\ UNCHANGED <<vars, callWork, position, assigned, committed, handled>>

(* Another gateway replica owns the partition; it keeps PopQueue's promise. *)
PeerFinish(k) ==
  /\ owner[k] = None /\ committed[k] \in Offsets
  /\ handled' = [handled EXCEPT ![k] = @ \cup {committed[k]}]
  /\ UNCHANGED <<vars, callWork, groupVars>>

PeerCommit(k) ==
  /\ owner[k] = None /\ committed[k] \in handled[k]
  /\ committed' = [committed EXCEPT ![k] = @ + 1]
  /\ UNCHANGED <<vars, callWork, position, assigned, owner, handled>>

(* A closed client has left its group. *)
LeaveGroup ==
  /\ assigned' = {c \in assigned : client'[c] # "closed"}
  /\ owner' = [k \in Keys |-> IF owner[k] \in assigned \ assigned'
                              THEN None ELSE owner[k]]
  /\ UNCHANGED <<callWork, position, committed, handled>>

-----------------------------------------------------------------------------
(* Consume between begin and finish *)

(* OnPartitionsCallbackBlocked -> rebalanceCancellation.interrupt *)
Interrupt(p) ==
  /\ pc[p] = "use" /\ ~interrupted[p]
  /\ interrupted' = [interrupted EXCEPT ![p] = TRUE]
  /\ UNCHANGED <<vars, step, rec, groupVars, handled>>

(* waitForConsumer succeeded; processing.begin; PollRecords is called *)
BeginPoll(p) ==
  /\ Recheck(p)
  /\ step' = IF pc'[p] = "use" THEN [step EXCEPT ![p] = "poll"] ELSE step
  /\ UNCHANGED <<rec, interrupted, groupVars, handled>>

(* PollRecords(pollCtx, 1) returns at most one record and may report an     *)
(* error beside it.                                                         *)
PollReturns(p, hasRecord, hasError) ==
  /\ step[p] = "poll"
  /\ hasRecord => at[p] \in assigned /\ position[at[p]] \in Offsets
  /\ rec' = [rec EXCEPT ![p] = IF hasRecord THEN position[at[p]] ELSE 0]
  /\ position' = IF hasRecord THEN [position EXCEPT ![at[p]] = @ + 1]
                              ELSE position
  /\ step' = [step EXCEPT ![p] = IF hasError THEN "pollError" ELSE "polled"]
  /\ UNCHANGED <<vars, interrupted, assigned, owner, committed, handled>>

(* rewindRecord: SetOffsets to the record's own offset *)
Rewound(p) == [position EXCEPT ![at[p]] = rec[p]]

(* The decisions after the poll.  A forced shutdown returns ErrClosed       *)
(* without a rewind: the client is not used again.                          *)
Rewinds(p) ==
  ~forced /\ rec[p] # 0 /\ (interrupted[p] \/ step[p] = "pollError")

Delivers(p) == ~forced /\ rec[p] # 0 /\ ~interrupted[p] /\ step[p] = "polled"

AfterPoll(p) ==
  /\ step[p] \in {"polled", "pollError"}
  /\ position' = IF Rewinds(p) THEN Rewound(p) ELSE position
  /\ step' = [step EXCEPT ![p] = IF Delivers(p) THEN "handle" ELSE "leave"]
  /\ UNCHANGED <<vars, rec, interrupted, assigned, owner, committed, handled>>

(* handleCtx: the request's context, cancelled by a pending rebalance and by *)
(* a forced shutdown too.                                                    *)
HandleCtxOfRequest(p) == cancelled[p]
HandleCtxDone(p) == interrupted[p] \/ forced \/ cancelled[p]

(* The handler may succeed or fail whatever happened to its context. *)
HandleSucceeds(p) ==
  /\ step[p] = "handle"
  /\ handled' = [handled EXCEPT ![Key(p)] = @ \cup {rec[p]}]
  /\ step' = [step EXCEPT ![p] = "handled"]
  /\ UNCHANGED <<vars, rec, interrupted, groupVars>>

HandleFails(p) ==
  /\ step[p] = "handle"
  /\ position' = Rewound(p)
  /\ step' = [step EXCEPT ![p] = "leave"]
  /\ UNCHANGED <<vars, rec, interrupted, assigned, owner, committed, handled>>

AfterHandle(p) ==
  /\ step[p] = "handled"
  /\ position' = IF ~forced /\ interrupted[p] THEN Rewound(p) ELSE position
  /\ step' = [step EXCEPT ![p] =
                IF forced \/ interrupted[p] THEN "leave" ELSE "commit"]
  /\ UNCHANGED <<vars, rec, interrupted, assigned, owner, committed, handled>>

Committed(p) == [committed EXCEPT ![Key(p)] = rec[p] + 1]

(* CommitRecords: the coordinator accepts it from the owner only; an error  *)
(* (a timeout, a cancelled commitCtx) leaves open whether it was applied.   *)
CommitSucceeds(p) ==
  /\ step[p] = "commit" /\ owner[Key(p)] = at[p]
  /\ committed' = Committed(p)
  /\ step' = [step EXCEPT ![p] = "leave"]
  /\ UNCHANGED <<vars, rec, interrupted, position, assigned, owner, handled>>

CommitFailsInPlace(p, applied) ==
  /\ step[p] = "commit"
  /\ applied => owner[Key(p)] = at[p]
  /\ committed' = IF applied THEN Committed(p) ELSE committed
  /\ step' = [step EXCEPT ![p] = "leave"]
  /\ UNCHANGED <<vars, rec, interrupted, position, assigned, owner, handled>>

CommitFails(p, applied) ==
  /\ step[p] = "commit"
  /\ applied => owner[Key(p)] = at[p]
  /\ committed' = IF applied THEN Committed(p) ELSE committed
  /\ position' = Rewound(p)
  /\ step' = [step EXCEPT ![p] = "leave"]
  /\ UNCHANGED <<vars, rec, interrupted, assigned, owner, handled>>

(* finish, AllowRebalance, and the permit goes back. *)
Leave(p) ==
  /\ step[p] = "leave"
  /\ EndUse(p)
  /\ step' = [step EXCEPT ![p] = "none"]
  /\ rec' = [rec EXCEPT ![p] = 0]
  /\ interrupted' = [interrupted EXCEPT ![p] = FALSE]
  /\ UNCHANGED <<groupVars, handled>>

-----------------------------------------------------------------------------
HandlerReturns(p) == HandleSucceeds(p) \/ HandleFails(p)

ConsumeStep(p) ==
  \/ \E hasRecord, hasError \in BOOLEAN : PollReturns(p, hasRecord, hasError)
  \/ AfterPoll(p) \/ AfterHandle(p)
  \/ CommitSucceeds(p) \/ \E applied \in BOOLEAN : CommitFails(p, applied)
  \/ Leave(p)

CacheStep(p) ==
  /\ AcquireNext(p) \/ TakeGate(p) \/ GiveUp(p) \/ Release(p) \/ Cancel(p)
  /\ UNCHANGED deliveryVars

(* Where clients are closed; a closed client leaves its group.               *)
ClosingStep == (\E p \in Calls : CloseEvicted(p)) \/ TimerNext \/ ShutdownNext

GroupNext ==
  \/ \E c \in Clients : Assign(c) \/ Revoke(c) \/ Fence(c)
  \/ \E k \in Keys : PeerFinish(k) \/ PeerCommit(k)

DNext ==
  \/ \E p \in Calls : \/ CacheStep(p) \/ BeginPoll(p) \/ ConsumeStep(p)
                      \/ HandlerReturns(p) \/ Interrupt(p)
  \/ ClosingStep /\ LeaveGroup
  \/ GroupNext

DSpec == DInit /\ [][DNext]_allVars

(* The steps of Consume are taken; a poll and a commit end within m.timeout; *)
(* a handler is only known to return once its context is cancelled.          *)
DFairness ==
  \A p \in Calls :
    /\ WF_allVars(ConsumeStep(p))
    /\ WF_allVars(HandlerReturns(p) /\ HandleCtxDone(p))

DFairSpec == DSpec /\ DFairness

-----------------------------------------------------------------------------
(* Consume's work on the records of a key implements PopQueue.               *)
Queue == INSTANCE PopQueue
           WITH finished <- [k \in Keys |-> Cardinality(handled[k])]

(* No record is lost and none overtakes another: the committed offset moves  *)
(* over a record only after some handler finished it, one at a time and      *)
(* never back, and no handler finishes a record beyond the first uncommitted *)
(* one, whatever failed, was interrupted, fenced, expired or closed.         *)
RefinesQueue == Queue!QueueSpec

(* A rebalance that Consume blocks is let through: the interrupted call      *)
(* reaches AllowRebalance although its handler would not return by itself.   *)
BlockedRebalanceProceeds ==
  \A p \in Calls : interrupted[p] ~> pc[p] # "use"
=============================================================================
