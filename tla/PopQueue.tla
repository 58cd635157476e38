------------------------------ MODULE PopQueue ------------------------------
(***************************************************************************)
(* What the pop API promises for the records of one topic and group,       *)
(* whoever serves them: records are handed to a handler in offset order,   *)
(* the committed offset moves over a record only after a handler finished  *)
(* it, and at most one finished record is not committed yet (the one that  *)
(* is delivered again when the commit is lost).                            *)
(***************************************************************************)
EXTENDS Naturals

CONSTANTS Keys, MaxOffset

VARIABLES
  committed,  \* per key: the next offset the group will read
  finished    \* per key: how many records some handler has finished

queueVars == <<committed, finished>>

QueueInit == /\ committed = [k \in Keys |-> 1]
             /\ finished = [k \in Keys |-> 0]

(* A handler finishes the record at the committed offset (for the first time). *)
Finish(k) ==
  /\ finished[k] < committed[k]
  /\ committed[k] <= MaxOffset
  /\ finished' = [finished EXCEPT ![k] = committed[k]]
  /\ UNCHANGED committed

Commit(k) ==
  /\ finished[k] = committed[k]
  /\ committed' = [committed EXCEPT ![k] = @ + 1]
  /\ UNCHANGED finished

QueueNext == \E k \in Keys : Finish(k) \/ Commit(k)

QueueSpec == QueueInit /\ [][QueueNext]_queueVars
=============================================================================
