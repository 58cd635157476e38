------------------------------ MODULE SplunkHEC ------------------------------
(***************************************************************************)
(* internal/splunkhec: the buffered log handler.  Handle queues an event   *)
(* under handlerCore.mu; the periodic worker, callers of Flush and Close   *)
(* take the whole queue, send it in batches and put what was not sent back *)
(* to its front.  Events are numbered in the order in which they are       *)
(* handled, and have a size.                                               *)
(***************************************************************************)
EXTENDS Naturals, SequencesExt

CONSTANTS
  NumEvents, Size,        \* Size[e]: bytes of the encoded event
  MaxPending, MaxBatch,   \* maxPendingBytes, maxBatchBytes
  Callers                 \* callers of Flush

ASSUME SplunkAssumption ==
  /\ NumEvents \in Nat /\ MaxPending \in Nat /\ MaxBatch \in Nat
  /\ Size \in [1 .. NumEvents -> Nat \ {0}]
  /\ Callers \cap {"worker", "closer"} = {}

Flushers == Callers \cup {"worker", "closer"}

VARIABLES
  handled,   \* events handled so far
  pending,   \* handlerCore.pending
  dropped,   \* handlerCore.dropped
  closed,    \* handlerCore.closed
  permit,    \* is flushPermit in its channel?
  stage,     \* per flusher: "idle", "waiting" for the permit or "sending"
  hand,      \* per flusher: its local slice of events still to be sent
  cancelled, \* per flusher: its context is done
  done,      \* handlerCore.done: the worker has returned
  closing,   \* Close: "no", "stopping", "flushing", "ok" or "failed"
  received,  \* events the collector has received, by their first receipt
  acked,     \* history: events of batches that were acknowledged,
  lost,      \*          events dropped, counted or not,
  reported   \*          and drops that a flush has reported

vars == <<handled, pending, dropped, closed, permit, stage, hand, cancelled,
          done, closing, received, acked, lost, reported>>

Init ==
  /\ handled = 0 /\ pending = <<>> /\ dropped = 0 /\ closed = FALSE
  /\ permit = TRUE
  /\ stage = [f \in Flushers |-> "idle"]
  /\ hand = [f \in Flushers |-> <<>>]
  /\ cancelled = [f \in Flushers |-> FALSE]
  /\ done = FALSE /\ closing = "no"
  /\ received = <<>> /\ acked = {} /\ lost = {} /\ reported = 0

Bytes(s) ==
  LET sum[i \in 0 .. Len(s)] == IF i = 0 THEN 0 ELSE sum[i - 1] + Size[s[i]]
  IN sum[Len(s)]

-----------------------------------------------------------------------------
(* Handle and enqueue; once closed an event goes to the local handler only. *)

Overflows(e) == Bytes(pending) + Size[e] > MaxPending

Handle ==
  LET e == handled + 1 IN
  /\ handled < NumEvents /\ ~closed
  /\ handled' = e
  /\ \/ /\ Overflows(e)
        /\ dropped' = dropped + 1 /\ lost' = lost \cup {e}
        /\ UNCHANGED pending
     \/ /\ ~Overflows(e)
        /\ pending' = Append(pending, e)
        /\ UNCHANGED <<dropped, lost>>
  /\ UNCHANGED <<closed, permit, stage, hand, cancelled, done, closing,
                 received, acked, reported>>

-----------------------------------------------------------------------------
(* flush *)

(* The worker's tick, a call of Flush, or Close once the worker is done.     *)
MayBeginBesideWorker(f) ==
  /\ f = "worker" => ~done
  /\ f = "closer" => closing = "stopping"

MayBegin(f) ==
  /\ f = "worker" => ~done
  /\ f = "closer" => closing = "stopping" /\ done

Begin(f) ==
  /\ stage[f] = "idle" /\ MayBegin(f)
  /\ stage' = [stage EXCEPT ![f] = "waiting"]
  /\ closing' = IF f = "closer" THEN "flushing" ELSE closing
  /\ cancelled' = IF f \in Callers THEN [cancelled EXCEPT ![f] = FALSE] ELSE cancelled
  /\ UNCHANGED <<handled, pending, dropped, closed, permit, hand, done, received,
                 acked, lost, reported>>

(* Flush returns: only Close does something with the result. *)
Returned(f, result) ==
  /\ stage' = [stage EXCEPT ![f] = "idle"]
  /\ hand' = [hand EXCEPT ![f] = <<>>]
  /\ closing' = IF f = "closer" THEN result ELSE closing

GiveUp(f) ==
  /\ stage[f] = "waiting" /\ cancelled[f]
  /\ Returned(f, "failed")
  /\ UNCHANGED <<handled, pending, dropped, closed, permit, cancelled, done,
                 received, acked, lost, reported>>

PermitFree == permit

(* takePending, and the report of dropped events *)
Take(f) ==
  /\ stage[f] = "waiting" /\ PermitFree
  /\ pending' = <<>> /\ dropped' = 0 /\ reported' = reported + dropped
  /\ IF pending = <<>> THEN Returned(f, "ok") /\ UNCHANGED permit
     ELSE /\ stage' = [stage EXCEPT ![f] = "sending"]
          /\ hand' = [hand EXCEPT ![f] = pending]
          /\ permit' = FALSE
          /\ UNCHANGED closing
  /\ UNCHANGED <<handled, closed, cancelled, done, received, acked, lost>>

(* batchEventCount: the longest prefix within the limit, but never empty.    *)
Fits(s, n) == Bytes(SubSeq(s, 1, n)) + n <= MaxBatch
BatchEventCount(s) ==
  CHOOSE n \in 1 .. Len(s) :
    /\ n = 1 \/ Fits(s, n)
    /\ n = Len(s) \/ ~Fits(s, n + 1)

Batch(f) == SubSeq(hand[f], 1, BatchEventCount(hand[f]))
Receive(batch) ==
  LET got[i \in 0 .. Len(batch)] ==
        IF i = 0 THEN received
        ELSE LET s == got[i - 1]
             IN IF batch[i] \in ToSet(s) THEN s ELSE Append(s, batch[i])
  IN got[Len(batch)]

KeepsPermit == UNCHANGED permit
ReleasesPermit == permit' = TRUE

(* The collector acknowledges the batch with code 0. *)
SendSucceeds(f) ==
  LET rest == SubSeq(hand[f], Len(Batch(f)) + 1, Len(hand[f])) IN
  /\ stage[f] = "sending"
  /\ received' = Receive(Batch(f))
  /\ acked' = acked \cup ToSet(Batch(f))
  /\ IF rest = <<>> THEN Returned(f, "ok") /\ ReleasesPermit
     ELSE hand' = [hand EXCEPT ![f] = rest] /\ UNCHANGED <<stage, closing, permit>>
  /\ UNCHANGED <<handled, pending, dropped, closed, cancelled, done, lost, reported>>

(* restorePending: what was not sent comes first, and newer events are kept  *)
(* as far as they fit.                                                       *)
Enqueued(s, e) == IF Bytes(s) + Size[e] > MaxPending THEN s ELSE Append(s, e)

(* Mutant: what was not sent goes behind the newer events.                   *)
RestoredBehind(events, current) ==
  LET kept[i \in 0 .. Len(events)] ==
        IF i = 0 THEN current ELSE Enqueued(kept[i - 1], events[i])
  IN kept[Len(events)]

Restored(events, current) ==
  LET kept[i \in 0 .. Len(current)] ==
        IF i = 0 THEN events ELSE Enqueued(kept[i - 1], current[i])
  IN kept[Len(current)]

(* What a failed send gives back: the failed batch and all that follow it.   *)
Unsent(f) == hand[f]

DroppedAfter(n) == dropped + n

(* The request fails, with or without the collector having the batch.        *)
SendFails(f) ==
  LET after == Restored(Unsent(f), pending) IN
  /\ stage[f] = "sending"
  /\ received' \in {received, Receive(Batch(f))}
  /\ pending' = after
  /\ dropped' = DroppedAfter(Len(Unsent(f)) + Len(pending) - Len(after))
  /\ lost' = lost \cup ((ToSet(pending) \cup ToSet(Unsent(f))) \ ToSet(after))
  /\ Returned(f, "failed")
  /\ ReleasesPermit
  /\ UNCHANGED <<handled, closed, cancelled, done, acked, reported>>

-----------------------------------------------------------------------------
(* run, Close and contexts *)

WorkerExitsOnError ==
  /\ stage["worker"] = "idle" /\ ~done
  /\ done' = TRUE
  /\ UNCHANGED <<handled, pending, dropped, closed, permit, stage, hand,
                 cancelled, closing, received, acked, lost, reported>>

WorkerExit ==
  /\ stage["worker"] = "idle" /\ cancelled["worker"] /\ ~done
  /\ done' = TRUE
  /\ UNCHANGED <<handled, pending, dropped, closed, permit, stage, hand,
                 cancelled, closing, received, acked, lost, reported>>

(* closeOnce: further calls wait for this one and return its error.          *)
Close ==
  /\ closing = "no"
  /\ closed' = TRUE /\ closing' = "stopping"
  /\ cancelled' = [cancelled EXCEPT !["worker"] = TRUE]
  /\ UNCHANGED <<handled, pending, dropped, permit, stage, hand, done, received,
                 acked, lost, reported>>

CloseGivesUp ==
  /\ closing = "stopping" /\ cancelled["closer"]
  /\ closing' = "failed"
  /\ UNCHANGED <<handled, pending, dropped, closed, permit, stage, hand,
                 cancelled, done, received, acked, lost, reported>>

(* A deadline passes: of Close while it runs, or of a call of Flush.          *)
ContextDone(f) ==
  /\ ~cancelled[f]
  /\ IF f = "closer" THEN closing \in {"stopping", "flushing"} ELSE stage[f] # "idle"
  /\ f # "worker"
  /\ cancelled' = [cancelled EXCEPT ![f] = TRUE]
  /\ UNCHANGED <<handled, pending, dropped, closed, permit, stage, hand, done,
                 closing, received, acked, lost, reported>>

FlushNext(f) ==
  Begin(f) \/ GiveUp(f) \/ Take(f) \/ SendSucceeds(f) \/ SendFails(f) \/ ContextDone(f)

Next == Handle \/ (\E f \in Flushers : FlushNext(f)) \/ WorkerExit \/ Close \/ CloseGivesUp

Spec == Init /\ [][Next]_vars

(* The worker's ticker fires, a waiting flush gets the permit in its turn, an  *)
(* HTTP request ends, and select does not ignore the worker's context forever. *)
(* Nothing is assumed of the collector's answers.                              *)
FairSpec ==
  /\ Spec
  /\ \A f \in {"worker", "closer"} : WF_vars(Begin(f))
  /\ \A f \in Flushers : SF_vars(Take(f))
  /\ \A f \in Flushers : WF_vars(SendSucceeds(f) \/ SendFails(f))
  /\ SF_vars(WorkerExit)

-----------------------------------------------------------------------------
InHand == UNION {ToSet(hand[f]) : f \in Flushers}
Increasing(s) == \A i, j \in 1 .. Len(s) : i < j => s[i] < s[j]

(* An event handled before Close is in exactly one place: acknowledged by the  *)
(* collector, queued, in the hands of the one flush that runs, or dropped; and *)
(* every drop is counted once, in what a flush has reported or will report.    *)
(* Failed batches, restored queues and concurrent flushes never reorder        *)
(* events: the collector sees them in the order in which they were logged,     *)
(* repetitions of a batch aside.  What is queued keeps to maxPendingBytes,     *)
(* also when a failed flush puts its events back.                              *)
EventsAccounted ==
  LET places == <<acked, ToSet(pending), InHand, lost>> IN
  /\ UNION {places[i] : i \in 1 .. 4} = 1 .. handled
  /\ \A i, j \in 1 .. 4 : i # j => places[i] \cap places[j] = {}
  /\ Cardinality(lost) = reported + dropped
  /\ Increasing(received)
  /\ \A f \in Flushers : Increasing(hand[f] \o pending)
  /\ Bytes(pending) <= MaxPending

(* A Close that reports success has delivered everything that was not dropped, *)
(* the events of flushes that ran beside it included.                          *)
CloseDelivers == closing = "ok" => pending = <<>> /\ InHand = {} /\ done

(* Close returns although the collector may fail every request.                *)
CloseReturns == closing = "stopping" ~> closing \in {"ok", "failed"}

(* An event is delivered, unless the queue overflows, the handler is closed or *)
(* the collector fails over and over: events that a failed flush puts back are *)
(* not starved by newer ones, and the worker does not stop trying.             *)
EventsDelivered ==
  \/ []<><<\E f \in Flushers : SendFails(f)>>_vars
  \/ \A e \in 1 .. NumEvents : handled >= e ~> e \in acked \cup lost \/ closed
=============================================================================
