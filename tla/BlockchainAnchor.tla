--------------------------- MODULE BlockchainAnchor ---------------------------
(***************************************************************************)
(* The blockchain-anchor service: one process consumes                     *)
(* telemetry.batched.v1 with manual commits, one message at a time.  A     *)
(* batch whose payload the chain already shows for the CPS node is         *)
(* skipped, else it is submitted in a set_payload extrinsic, and its       *)
(* offset is committed once the extrinsic is finalized.  Every failure     *)
(* ends the process, so that it resumes from the committed offset.         *)
(*                                                                         *)
(* The chain is external.  It includes the account's extrinsics in the     *)
(* order of their nonces, so the extrinsics sent are one sequence: the     *)
(* first `final' are finalized, the first `best' are in the best chain     *)
(* (which storage queries read) and the rest wait in the pool.             *)
(***************************************************************************)
EXTENDS Integers, Sequences, FiniteSetsExt, Functions

CONSTANTS
  Partitions,     (* partitions of telemetry.batched.v1                    *)
  Contents,       (* payloads of batches; a payload stands for its hash    *)
  Kinds,          (* what else the records may be, see OtherKinds          *)
  RepeatedContent,(* the batcher may have published a payload twice        *)
  MaxPerPartition,(* bound: records of one partition                       *)
  MaxRecords,     (* bound: records of all partitions                      *)
  MaxFaults,      (* bound: failed calls, crashes and lost extrinsics      *)
  MaxReorgs       (* bound: reorganisations of the best chain              *)

(***************************************************************************)
(* oversized  a batch larger than ANCHOR_MAX_PAYLOAD_BYTES                 *)
(* invalid    fromBinary throws on it                                      *)
(* ignored    a record without a value, or of another event type           *)
(***************************************************************************)
OtherKinds == {"oversized", "invalid", "ignored"}

ASSUME AnchorAssumption ==
  /\ Partitions # {} /\ IsFiniteSet(Partitions)
  /\ Contents # {} /\ Contents \cap OtherKinds = {}
  /\ Kinds \subseteq OtherKinds
  /\ RepeatedContent \in BOOLEAN
  /\ MaxPerPartition \in Nat /\ MaxRecords \in Nat
  /\ MaxFaults \in Nat /\ MaxReorgs \in Nat

VARIABLES
  log,        (* log[p][o]: record o of partition p, a payload or a kind   *)
  committed,  (* committed[p]: the group's committed offset                *)
  dlq,        (* telemetry.dlq.v1: the records routed to it                *)
  txs,        (* the account's extrinsics, in the order of their nonces    *)
  best,       (* how many of them the best chain includes                  *)
  final,      (* how many of them are finalized                            *)
  position,   (* position[p]: records the stream has delivered             *)
  current,    (* the record being processed, << >> if none                 *)
  watched,    (* the extrinsic signAndSend watches, 0 if none              *)
  pc,         (* where the run loop is                                     *)
  phase,      (* what the process as a whole is doing                      *)
  faults,     (* failed calls, crashes and lost extrinsics so far          *)
  reorgs      (* reorganisations so far                                    *)

kafka == <<log, committed, dlq>>
chain == <<txs, best, final, reorgs>>
loop  == <<position, current, watched, pc>>
vars  == <<log, committed, dlq, txs, best, final, reorgs, position, current,
           watched, pc, phase, faults>>

Record == Partitions \X (1..MaxPerPartition)
Pcs    == {"await", "reject", "query", "submit", "watch", "commit", "done"}
Phases == {"running", "stopping", "closed", "down"}

ContentOf(r) == log[r[1]][r[2]]

Repeats(l) == \E r, s \in Record : /\ r # s /\ r[2] <= Len(l[r[1]]) /\ s[2] <= Len(l[s[1]])
                                   /\ l[r[1]][r[2]] = l[s[1]][s[2]]
                                   /\ l[r[1]][r[2]] \in Contents

Logs == {l \in [Partitions -> UNION {[1..n -> Contents \cup Kinds] : n \in 0..MaxPerPartition}] :
           /\ MapThenSumSet(LAMBDA p : Len(l[p]), Partitions) <= MaxRecords
           /\ Repeats(l) => RepeatedContent}

Init ==
  /\ log \in Logs
  /\ committed = [p \in Partitions |-> 0]
  /\ dlq = {}
  /\ txs = << >> /\ best = 0 /\ final = 0
  /\ position = [p \in Partitions |-> 0]
  /\ current = << >> /\ watched = 0 /\ pc = "await"
  /\ phase = "running"
  /\ faults = 0 /\ reorgs = 0

-----------------------------------------------------------------------------
(* The chain.                                                              *)
OnChain == {k \in 1..best : txs[k].ok}

(* Mutant of Shows: a cached answer, the first payload ever anchored.      *)
ShowedFirst(content) == OnChain # {} /\ ContentOf(txs[Min(OnChain)].record) = content

(* What api.query.cps.payload(node_id) answers, compared with a payload.   *)
Shows(content) == OnChain # {} /\ ContentOf(txs[Max(OnChain)].record) = content

Include ==
  /\ best < Len(txs)
  /\ best' = best + 1
  /\ UNCHANGED <<kafka, loop, txs, final, reorgs, phase, faults>>

Finalize ==
  /\ final < best
  /\ final' = final + 1
  /\ UNCHANGED <<kafka, loop, txs, best, reorgs, phase, faults>>

(* Another fork becomes the best chain; the extrinsics it lacks are in the *)
(* pool again.                                                             *)
Reorg ==
  /\ reorgs < MaxReorgs
  /\ reorgs' = reorgs + 1
  /\ best' \in final..(best - 1)
  /\ UNCHANGED <<kafka, loop, txs, final, phase, faults>>

(* The pool drops extrinsics: one that is invalid takes those that wait    *)
(* for its nonce with it.                                                  *)
DropFromPool ==
  /\ faults < MaxFaults
  /\ faults' = faults + 1
  /\ \E n \in best..(Len(txs) - 1) : txs' = SubSeq(txs, 1, n)
  /\ UNCHANGED <<kafka, loop, best, final, reorgs, phase>>

-----------------------------------------------------------------------------
(* The run loop, one action per awaited call.                              *)
At(label) == pc = label /\ UNCHANGED <<log, position, phase, reorgs>>

NextRecord(p) ==
  /\ phase = "running" /\ pc = "await"
  /\ position[p] < Len(log[p])
  /\ position' = [position EXCEPT ![p] = @ + 1]
  /\ UNCHANGED <<kafka, chain, watched, phase, faults>>

(* continue without a commit                                               *)
SkipRecord(p) ==
  /\ NextRecord(p)
  /\ log[p][position[p] + 1] = "ignored"
  /\ UNCHANGED <<current, pc>>

TakeRecord(p) ==
  /\ NextRecord(p)
  /\ log[p][position[p] + 1] # "ignored"
  /\ current' = <<p, position[p] + 1>>
  /\ pc' = CASE log[p][position[p] + 1] = "invalid"   -> "commit"
             [] log[p][position[p] + 1] = "oversized" -> "reject"
             [] OTHER                                 -> "query"

PublishOversized ==
  /\ At("reject")
  /\ dlq' = dlq \cup {current}
  /\ pc' = "commit"
  /\ UNCHANGED <<committed, txs, best, final, current, watched, faults>>

(* getAnchoredPayload() and the comparison of the hashes.                  *)
CheckAnchored ==
  /\ At("query")
  /\ pc' = IF Shows(ContentOf(current)) THEN "commit" ELSE "submit"
  /\ UNCHANGED <<committed, dlq, txs, best, final, current, watched, faults>>

(* A query that fails answers null, which matches nothing.                 *)
CheckFails ==
  /\ At("query")
  /\ faults < MaxFaults /\ faults' = faults + 1
  /\ pc' = "submit"
  /\ UNCHANGED <<committed, dlq, txs, best, final, current, watched>>

(* Mutant of Submit: the batch is committed once it is in the pool.        *)
SubmitWithoutWaiting ==
  /\ At("submit")
  /\ txs' = Append(txs, [record |-> current, ok |-> TRUE])
  /\ pc' = "commit"
  /\ UNCHANGED <<committed, dlq, best, final, current, watched, faults>>

(* signAndSend() hands the extrinsic to the pool.  Whether its dispatch    *)
(* will fail in the block is chosen here; such a failure is a fault.       *)
Submit ==
  /\ At("submit")
  /\ \E ok \in BOOLEAN :
       /\ txs' = Append(txs, [record |-> current, ok |-> ok])
       /\ IF ok THEN UNCHANGED faults ELSE faults < MaxFaults /\ faults' = faults + 1
  /\ watched' = Len(txs) + 1
  /\ pc' = "watch"
  /\ UNCHANGED <<committed, dlq, best, final, current>>

(* Mutant of Finalized: the offset is not committed.                       *)
FinalizedUncommitted ==
  /\ At("watch")
  /\ watched <= final /\ txs[watched].ok
  /\ watched' = 0
  /\ current' = << >>
  /\ pc' = "await"
  /\ UNCHANGED <<committed, dlq, txs, best, final, faults>>

(* The watched extrinsic is finalized without ExtrinsicFailed.             *)
Finalized ==
  /\ At("watch")
  /\ watched <= final /\ txs[watched].ok
  /\ watched' = 0
  /\ pc' = "commit"
  /\ UNCHANGED <<committed, dlq, txs, best, final, current, faults>>

Commit ==
  /\ At("commit")
  /\ committed' = [committed EXCEPT ![current[1]] = current[2]]
  /\ current' = << >>
  /\ pc' = "await"
  /\ UNCHANGED <<dlq, txs, best, final, watched, faults>>

ProcessLost ==
  /\ phase' = "down"
  /\ position' = [p \in Partitions |-> 0]
  /\ current' = << >> /\ watched' = 0 /\ pc' = "await"

(* Mutant of Rethrow: the error is logged and the loop goes on.            *)
LogAndGoOn ==
  /\ current' = << >> /\ watched' = 0 /\ pc' = "await"
  /\ UNCHANGED <<position, phase>>

(* An error is rethrown out of the loop.  Nobody handles the rejection of  *)
(* the run promise, so Node ends the process, unless stop() awaits it.     *)
Rethrow ==
  \/ ProcessLost
  \/ /\ phase = "stopping"
     /\ current' = << >> /\ watched' = 0 /\ pc' = "done"
     /\ UNCHANGED <<position, phase>>

(* Mutant of AnchorRejected: isError is not handled.                       *)
AnchorFailedInBlock ==
  /\ pc = "watch"
  /\ watched <= final /\ ~txs[watched].ok
  /\ Rethrow
  /\ UNCHANGED <<kafka, chain, faults>>

(* The finalized block reports ExtrinsicFailed, or the pool has dropped    *)
(* the extrinsic (isError).                                                *)
AnchorRejected ==
  /\ pc = "watch"
  /\ \/ watched <= final /\ ~txs[watched].ok
     \/ watched > Len(txs)
  /\ Rethrow
  /\ UNCHANGED <<kafka, chain, faults>>

(* A call fails although it may have taken effect: the DLQ publish, the    *)
(* submission, the subscription (FinalityTimeout), the commit.             *)
CallFails ==
  /\ faults < MaxFaults /\ faults' = faults + 1
  /\ \/ /\ pc = "reject"
        /\ dlq' \in {dlq, dlq \cup {current}}
        /\ UNCHANGED <<committed, txs>>
     \/ /\ pc = "submit"
        /\ txs' \in {txs, Append(txs, [record |-> current, ok |-> TRUE])}
        /\ UNCHANGED <<committed, dlq>>
     \/ /\ pc = "watch"
        /\ watched <= best /\ watched > final
        /\ UNCHANGED <<committed, dlq, txs>>
     \/ /\ pc = "commit"
        /\ committed' \in {committed, [committed EXCEPT ![current[1]] = current[2]]}
        /\ UNCHANGED <<dlq, txs>>
  /\ Rethrow
  /\ UNCHANGED <<log, best, final, reorgs>>

-----------------------------------------------------------------------------
(* stop(): sets shouldStop, closes the consumer, awaits the run loop, then *)
(* disconnects the chain API and closes the producer.                      *)
Stop ==
  /\ phase = "running"
  /\ phase' = "stopping"
  /\ UNCHANGED <<kafka, chain, loop, faults>>

(* Mutant of LoopEnds: shouldStop is looked at when a record arrives.      *)
LoopEndsOnRecord ==
  /\ phase = "stopping" /\ pc = "await"
  /\ \E p \in Partitions : position[p] < Len(log[p])
  /\ pc' = "done"
  /\ UNCHANGED <<kafka, chain, position, current, watched, phase, faults>>

LoopEnds ==
  /\ phase = "stopping" /\ pc = "await"
  /\ pc' = "done"
  /\ UNCHANGED <<kafka, chain, position, current, watched, phase, faults>>

Disconnect ==
  /\ phase = "stopping" /\ pc = "done"
  /\ phase' = "closed"
  /\ UNCHANGED <<kafka, chain, loop, faults>>

Exit ==
  /\ phase = "closed"
  /\ ProcessLost
  /\ UNCHANGED <<kafka, chain, faults>>

Crash ==
  /\ phase # "down"
  /\ faults < MaxFaults /\ faults' = faults + 1
  /\ ProcessLost
  /\ UNCHANGED <<kafka, chain>>

(* Mutant of Restart: the committed offset is taken for the last record    *)
(* processed, not for the next one.                                        *)
RestartOneBefore ==
  /\ phase = "down"
  /\ phase' = "running"
  /\ position' = [p \in Partitions |-> committed[p] - 1]
  /\ UNCHANGED <<kafka, chain, current, watched, pc, faults>>

(* A new process; the group resumes from its committed offsets.            *)
Restart ==
  /\ phase = "down"
  /\ phase' = "running"
  /\ position' = committed
  /\ UNCHANGED <<kafka, chain, current, watched, pc, faults>>

-----------------------------------------------------------------------------
Next ==
  \/ Include
  \/ Finalize
  \/ Reorg
  \/ DropFromPool
  \/ \E p \in Partitions : SkipRecord(p)
  \/ \E p \in Partitions : TakeRecord(p)
  \/ PublishOversized
  \/ CheckAnchored
  \/ CheckFails
  \/ Submit
  \/ Finalized
  \/ Commit
  \/ AnchorRejected
  \/ CallFails
  \/ Stop
  \/ LoopEnds
  \/ Disconnect
  \/ Exit
  \/ Crash
  \/ Restart

Spec == Init /\ [][Next]_vars

-----------------------------------------------------------------------------
(* Fairness: the calls of the loop return, and the chain goes on including *)
(* and finalizing; nothing forces a failure, a stop or a reorganisation.   *)
LoopStep == \/ \E p \in Partitions : SkipRecord(p) \/ TakeRecord(p)
            \/ PublishOversized \/ CheckAnchored \/ Submit \/ Finalized \/ Commit

Fairness ==
  /\ WF_vars(LoopStep)
  /\ WF_vars(AnchorRejected)
  /\ WF_vars(Include)
  /\ WF_vars(Finalize)
  /\ WF_vars(LoopEnds)
  /\ WF_vars(Disconnect)
  /\ WF_vars(Exit)
  /\ WF_vars(Restart)

LiveSpec == Spec /\ Fairness

-----------------------------------------------------------------------------
(* Every variable has its type.                                            *)
TypeOK ==
  /\ log \in [Partitions -> Seq(Contents \cup Kinds)]
  /\ committed \in [Partitions -> Nat]
  /\ dlq \subseteq Record
  /\ txs \in Seq([record : Record, ok : BOOLEAN])
  /\ final \in 0..best /\ best \in 0..Len(txs)
  /\ position \in [Partitions -> Nat]
  /\ current \in Record \cup {<< >>}
  /\ watched \in Nat
  /\ pc \in Pcs
  /\ phase \in Phases
  /\ faults \in Nat /\ reorgs \in Nat

(* The records that must reach the chain or the DLQ, and those that have.  *)
(* A batch is known by its payload, as the service knows it.               *)
Owed == {r \in Record : r[2] <= Len(log[r[1]]) /\ ContentOf(r) \notin {"ignored", "invalid"}}

Anchored(content) == \E k \in OnChain : ContentOf(txs[k].record) = content

Settled == {r \in Owed : IF ContentOf(r) = "oversized" THEN r \in dlq ELSE Anchored(ContentOf(r))}

(* The service is an at-least-once consumer of its log: an offset is       *)
(* committed only when every batch up to it is on the chain or in the DLQ, *)
(* through failed calls, dropped extrinsics, crashes and restarts          *)
(* (services/blockchain-anchor/README.md, Overview).  Until the first      *)
(* reorganisation: up to there what the best chain includes stays.         *)
ALO == INSTANCE AtLeastOnce WITH owed <- Owed, settled <- Settled
ImplementsAtLeastOnce == ALO!ALOInit /\ [][reorgs' = 0 => ALO!ALONext]_(ALO!aloVars)

(* A failure costs at most one duplicate: beyond the first extrinsic of    *)
(* each batch, no more are submitted than calls have failed or processes   *)
(* crashed.  A graceful stop and restart costs none.                       *)
SentRecords == {txs[k].record : k \in 1..Len(txs)}

DuplicatesWithinFaults == Len(txs) <= Cardinality(SentRecords) + faults

(* The batches of a partition are submitted in the order of their offsets: *)
(* nothing is anchored over a batch that failed and was not retried.       *)
AnchoredInOrder ==
  \A j, k \in 1..Len(txs) :
    (j < k /\ txs[j].record[1] = txs[k].record[1]) => txs[j].record[2] <= txs[k].record[2]

(* A batch that the chain has included is not submitted again by a check   *)
(* that got its answer (services/blockchain-anchor/README.md,              *)
(* Idempotency).                                                           *)
Resubmits == /\ pc = "query" /\ pc' = "submit" /\ faults' = faults
             /\ Anchored(ContentOf(current))

AnchoredIsSkipped == [][~Resubmits]_vars

(* The same on a log with the batches of one partition, without a payload  *)
(* that comes twice: there the crash window between finalization and       *)
(* commit is closed.                                                       *)
SoleKey == ~Repeats(log) /\ \A p, q \in Partitions : p # q => log[p] = << >> \/ log[q] = << >>

SoleAnchoredIsSkipped == [][SoleKey => ~Resubmits]_vars

(* The payload of a committed batch is on the chain or on its way.         *)
CommittedIsSubmitted ==
  \A r \in Owed : (r[2] <= committed[r[1]] /\ ContentOf(r) # "oversized") =>
                    \E k \in 1..Len(txs) : txs[k].ok /\ ContentOf(txs[k].record) = ContentOf(r)

(* A graceful stop ends: the message in flight runs to completion, then    *)
(* the API is disconnected.                                                *)
StopCompletes == phase = "stopping" ~> phase \in {"closed", "down"}

(* No batch is stuck for good: unless the service is stopped again and     *)
(* again, every record is anchored or routed, and committed.               *)
EventuallyCommitted ==
  \/ []<>(phase = "stopping")
  \/ <>(\A r \in Owed : r[2] <= committed[r[1]])

-----------------------------------------------------------------------------
(* The inductive invariant of the refinement and of AnchoredInOrder.       *)
Busy == {"reject", "query", "submit", "watch", "commit"}

Ignored(p, m, n) == \A o \in m..n : log[p][o] = "ignored"

(* The log stays as it was, and nothing is read or committed past its end. *)
LogBound ==
  /\ log \in Logs
  /\ \A p \in Partitions : position[p] <= Len(log[p]) /\ committed[p] <= Len(log[p])

(* While the loop runs, what it has passed since the committed offset is   *)
(* ignored, but for the record it is at.                                   *)
Following ==
  (phase # "down" /\ pc # "done") =>
    \A p \in Partitions :
      /\ committed[p] <= position[p]
      /\ Ignored(p, committed[p] + 1, IF current # << >> /\ current[1] = p THEN position[p] - 1 ELSE position[p])

(* The record in progress, and what is known of it at each await.          *)
InProgress ==
  /\ phase = "down" => pc = "await"
  /\ current # << >> <=> pc \in Busy
  /\ pc \in Busy =>
       /\ current[2] = position[current[1]] /\ committed[current[1]] < current[2]
       /\ ContentOf(current) # "ignored"
  /\ pc = "reject" => ContentOf(current) = "oversized"
  /\ pc \in {"query", "submit", "watch"} => ContentOf(current) \in Contents
  /\ pc = "watch" => watched > 0 /\ (watched <= Len(txs) => txs[watched].record = current)
  /\ (pc = "commit" /\ current \in Owed /\ reorgs = 0) => current \in Settled

(* An extrinsic carries a batch of the log, and only ignored records are   *)
(* between the committed offset and that batch.                            *)
Sent ==
  \A k \in 1..Len(txs) :
    LET p == txs[k].record[1]
        o == txs[k].record[2]
    IN /\ o <= Len(log[p]) /\ log[p][o] \in Contents
       /\ Ignored(p, committed[p] + 1, o - 1)

CommittedIsSettled ==
  reorgs = 0 => \A r \in Owed : r[2] <= committed[r[1]] => r \in Settled

IInv ==
  /\ TypeOK
  /\ LogBound
  /\ Following
  /\ InProgress
  /\ Sent
  /\ AnchoredInOrder
  /\ CommittedIsSettled

(* The inductive invariant of DuplicatesWithinFaults: each batch that was  *)
(* submitted and may have to be submitted again, because it is not         *)
(* committed and the loop is not about to commit it, has its fault too.    *)
Landing == \/ pc = "commit"
           \/ pc = "watch" /\ watched <= Len(txs) /\ txs[watched].ok

AtRisk == {r \in SentRecords : committed[r[1]] < r[2] /\ ~(Landing /\ r = current)}

CostInv ==
  /\ Len(txs) + Cardinality(AtRisk) <= Cardinality(SentRecords) + faults
  /\ phase = "closed" => pc = "done"

=============================================================================
