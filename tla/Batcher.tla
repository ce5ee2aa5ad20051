------------------------------- MODULE Batcher -------------------------------
(***************************************************************************)
(* The batcher service: one process consumes telemetry.authorized.v1 with  *)
(* manual commits, accumulates records in the batch flusher and, when the  *)
(* batch is full, the lag is high, the timer fires or the service stops,   *)
(* detaches the batch, routes poison and oversized records to the          *)
(* dead-letter queue, produces the rest to telemetry.batched.v1 and only   *)
(* then commits the source offsets.                                        *)
(*                                                                         *)
(* Node runs one callback at a time, so an action is the code between two  *)
(* awaits: the consume loop, the timer callback and the flush handler      *)
(* interleave at the awaits only.  A crash may fall between any two steps. *)
(***************************************************************************)
EXTENDS Integers, Sequences, FiniteSetsExt, Functions, Bags

CONSTANTS
  Partitions,     (* partitions of telemetry.authorized.v1                 *)
  Kinds,          (* what the records of the log may be, see RecordKinds   *)
  BatchSize,      (* config.batchSize                                      *)
  LagCountsUncommitted, (* consumer.getLag() counts from the committed     *)
                        (* offset, else from the last delivered record     *)
  MaxPerPartition,(* bound: records of one partition                       *)
  MaxRecords,     (* bound: records of all partitions                      *)
  MaxFaults       (* bound: failed calls and crashes                       *)

(***************************************************************************)
(* good          parses, and its compressed event fits a payload           *)
(* oversized     parses, but does not fit a payload even alone             *)
(* poison        fromBinary throws on it                                   *)
(* unaddressable parses, but formatSensorId throws on its sensor id        *)
(* ignored       a record without a value, or of another event type        *)
(***************************************************************************)
RecordKinds == {"good", "oversized", "poison", "unaddressable", "ignored"}

ASSUME BatcherAssumption ==
  /\ Partitions # {} /\ IsFiniteSet(Partitions)
  /\ Kinds \subseteq RecordKinds
  /\ BatchSize \in Nat \ {0}
  /\ LagCountsUncommitted \in BOOLEAN
  /\ MaxPerPartition \in Nat /\ MaxRecords \in Nat /\ MaxFaults \in Nat

VARIABLES
  log,        (* log[p][o]: the kind of record o of partition p (o from 1) *)
  committed,  (* committed[p]: the group's committed offset                *)
  batched,    (* telemetry.batched.v1: the bag of batch ids in it          *)
  dlq,        (* telemetry.dlq.v1: the records routed to it                *)
  position,   (* position[p]: records the stream has delivered             *)
  pending,    (* the flusher's currentBatch                                *)
  inflight,   (* the detached batch, << >> when flushPromise is null       *)
  flushPc,    (* where the flush handler is                                *)
  loopPc,     (* where the consume loop is                                 *)
  timer,      (* batchTimer is armed                                       *)
  phase,      (* what the process as a whole is doing                      *)
  failed,     (* the stream has failed: the run promise is to reject       *)
  faults      (* failed calls and crashes so far                           *)

kafka   == <<log, committed, batched, dlq>>
flusher == <<pending, inflight, flushPc>>
service == <<phase, failed>>
vars    == <<log, committed, batched, dlq, position, pending, inflight,
             flushPc, loopPc, timer, phase, failed, faults>>

Record   == Partitions \X (1..MaxPerPartition)
(* Since record o has Kafka offset o - 1, item.offset is message.offset+1. *)
Item     == [partition : Partitions, offset : 1..MaxPerPartition, parsed : BOOLEAN]
FlushPcs == {"idle", "poison", "oversized", "produce", "commit"}
LoopPcs  == {"await", "lag", "flush", "drain", "final", "done"}
(* stop() sets shouldStop and awaits consumer.close() in "closing", awaits *)
(* the run promise in "stopping" and has closed the producer in "closed".  *)
Phases   == {"running", "closing", "stopping", "closed", "down"}

RecordOf(item) == <<item.partition, item.offset>>
KindOf(item)   == log[item.partition][item.offset]
Buffered       == Range(inflight) \cup Range(pending)
Lag            == LET seen == IF LagCountsUncommitted THEN committed ELSE position
                  IN MapThenSumSet(LAMBDA p : Len(log[p]) - seen[p], Partitions)

Logs == {l \in [Partitions -> UNION {[1..n -> Kinds] : n \in 0..MaxPerPartition}] :
           MapThenSumSet(LAMBDA p : Len(l[p]), Partitions) <= MaxRecords}

Init ==
  /\ log \in Logs
  /\ committed = [p \in Partitions |-> 0]
  /\ batched = EmptyBag
  /\ dlq = {}
  /\ position = [p \in Partitions |-> 0]
  /\ pending = << >> /\ inflight = << >>
  /\ flushPc = "idle" /\ loopPc = "await"
  /\ timer = FALSE
  /\ phase = "running" /\ failed = FALSE
  /\ faults = 0

-----------------------------------------------------------------------------
(* Mutant of Flush: the flight keeps its items in the current batch.       *)
FlushKeepingBatch(batch) ==
  IF flushPc # "idle" \/ batch = << >>
  THEN pending' = batch /\ UNCHANGED <<inflight, flushPc>>
  ELSE inflight' = batch /\ pending' = batch /\ flushPc' = "poison"

(* BatchFlusher.flush() with batch as the current batch: join the flush in *)
(* progress, do nothing on an empty batch, else detach the whole batch.    *)
Flush(batch) ==
  \/ /\ flushPc # "idle" \/ batch = << >>
     /\ pending' = batch
     /\ UNCHANGED <<inflight, flushPc>>
  \/ /\ flushPc = "idle" /\ batch # << >>
     /\ inflight' = batch
     /\ pending' = << >>
     /\ flushPc' = "poison"

(* flushBatch(): every flush it starts or joins first clears the timer.    *)
FlushBatch(batch) == timer' = FALSE /\ Flush(batch)

(* The synchronous part of maybeFlush(): a full batch is flushed, else the *)
(* loop awaits the consumer lag.                                           *)
MaybeFlush(batch) ==
  \/ /\ Len(batch) >= BatchSize
     /\ FlushBatch(batch)
     /\ loopPc' = "flush"
  \/ /\ Len(batch) < BatchSize
     /\ pending' = batch
     /\ loopPc' = "lag"
     /\ UNCHANGED <<inflight, flushPc, timer>>

(* What one record adds to the batch.  An unaddressable record is added as *)
(* a valid item, then the log line that formats its sensor id throws, and  *)
(* the catch block adds it again as a poison item.                         *)
ItemsOf(p, o) ==
  LET item(parsed) == [partition |-> p, offset |-> o, parsed |-> parsed]
      kind == log[p][o]
  IN CASE kind \in {"good", "oversized"} -> <<item(TRUE)>>
       [] kind = "poison"                -> <<item(FALSE)>>
       [] kind = "unaddressable"         -> <<item(TRUE), item(FALSE)>>

NextRecord(p) ==
  /\ phase = "running" /\ loopPc = "await"
  /\ position[p] < Len(log[p])
  /\ position' = [position EXCEPT ![p] = @ + 1]
  /\ UNCHANGED <<kafka, service, faults>>

(* A null value or another event type: continue, nothing is added.         *)
SkipRecord(p) ==
  /\ NextRecord(p)
  /\ log[p][position[p] + 1] = "ignored"
  /\ UNCHANGED <<flusher, loopPc, timer>>

AddRecord(p) ==
  /\ NextRecord(p)
  /\ log[p][position[p] + 1] # "ignored"
  /\ MaybeFlush(pending \o ItemsOf(p, position[p] + 1))

(* getTotalLag() answers; it answers 0 when it fails.  The size is read    *)
(* only now, so a timer flush may have taken the items meanwhile.          *)
LagLow ==
  /\ loopPc = "lag"
  /\ timer' = (timer \/ pending # << >>)
  /\ loopPc' = "await"
  /\ UNCHANGED <<kafka, position, flusher, service, faults>>

LagHigh ==
  /\ loopPc = "lag"
  /\ Lag >= BatchSize
  /\ FlushBatch(pending)
  /\ loopPc' = IF flushPc' = "idle" THEN "await" ELSE "flush"
  /\ UNCHANGED <<kafka, position, service, faults>>

(* Node runs the continuations of settled promises before it takes the     *)
(* next timer, signal or answer: the finally block once it has no flight   *)
(* to wait for, stop() once the run promise has settled, and the end of    *)
(* the process when it rejects before stop() has put its catch on it.      *)
Rejected == failed /\ loopPc = "done" /\ phase \in {"running", "closing"}

Due ==
  \/ loopPc = "drain" /\ flushPc = "idle"
  \/ loopPc = "done" /\ phase = "stopping"
  \/ Rejected

TimerFires ==
  /\ timer /\ phase # "down" /\ ~Due
  /\ FlushBatch(pending)
  /\ UNCHANGED <<kafka, position, loopPc, service, faults>>

-----------------------------------------------------------------------------
(* The flush handler, one action per awaited call.                         *)
Poison         == {RecordOf(i) : i \in {j \in Range(inflight) : ~j.parsed}}
Valid(kinds)   == {RecordOf(i) : i \in {j \in Range(inflight) : j.parsed /\ KindOf(j) \in kinds}}

(* The producer refuses what the handler sends after producer.close().     *)
Refused ==
  /\ phase = "closed"
  /\ \/ flushPc = "poison" /\ Poison # {}
     \/ flushPc = "oversized" /\ Valid({"oversized"}) # {}
     \/ flushPc = "produce" /\ Valid({"good"}) # {}

InFlush(pc) == flushPc = pc /\ ~Refused /\ UNCHANGED <<log, position, service>>

Fits(item) == item.parsed /\ KindOf(item) = "good"

(* What fitBatch() may return for the valid events of a batch: those that  *)
(* fit, cut into runs of consecutive events (run[k] names the run of event *)
(* k).  computeBatchId() sorts the offsets, so a batch id stands for the   *)
(* set of its records.  FitBatch shows that the halving returns no more.   *)
Fitted(batch) ==
  LET kept == {k \in 1..Len(batch) : Fits(batch[k])}
      cuts == {k \in 1..Len(batch) : batch[k].parsed /\ ~Fits(batch[k])}
      runs == {run \in [kept -> kept] : \A j, k \in kept : j < k =>
                 /\ run[j] <= run[k]
                 /\ run[j] = run[k] => (j..k) \cap cuts = {}}
  IN {{{RecordOf(batch[k]) : k \in {j \in kept : run[j] = r}} : r \in Range(run)} : run \in runs}

(* Mutant of Settle: only the consume loop is woken.                       *)
SettleWakingLoop ==
  /\ inflight' = << >>
  /\ flushPc' = "idle"
  /\ loopPc' = IF loopPc = "flush" THEN "await" ELSE loopPc

(* The promise of flush() settles: whoever awaits it goes on.              *)
Settle ==
  /\ inflight' = << >>
  /\ flushPc' = "idle"
  /\ loopPc' = CASE loopPc = "flush" -> "await"
                 [] loopPc = "final" -> "done"
                 [] OTHER            -> loopPc

(* Mutants of Reattach: the batch is dropped, put behind what arrived      *)
(* meanwhile, put back without a timer, or with a timer in any phase.      *)
ReattachNothing ==
  /\ Settle
  /\ UNCHANGED pending
  /\ timer' = (timer \/ (phase = "running" /\ loopPc # "final"))

ReattachBehind ==
  /\ Settle
  /\ pending' = pending \o inflight
  /\ timer' = (timer \/ (phase = "running" /\ loopPc # "final"))

ReattachUntimed ==
  /\ Settle
  /\ pending' = inflight \o pending
  /\ UNCHANGED timer

ReattachAlwaysTimed ==
  /\ Settle
  /\ pending' = inflight \o pending
  /\ timer' = TRUE

(* onFlush rejects: the batch goes back ahead of what arrived meanwhile,   *)
(* and flushBatch()'s catch arms the timer unless shouldStop is true.  The *)
(* final flush of the finally block is not one of flushBatch(), and while  *)
(* it runs pending is empty, so no timer joins it.                         *)
Reattach ==
  /\ Settle
  /\ pending' = inflight \o pending
  /\ timer' = (timer \/ (phase = "running" /\ loopPc # "final"))

FlushPoison ==
  /\ InFlush("poison")
  /\ dlq' = dlq \cup Poison
  /\ \/ /\ Valid({"unaddressable"}) = {}
        /\ flushPc' = "oversized"
        /\ UNCHANGED <<pending, inflight, loopPc, timer>>
     \/ /\ Valid({"unaddressable"}) # {}      \* produceBatch() throws at once
        /\ Reattach
  /\ UNCHANGED <<committed, batched, faults>>

(* Mutant of FlushOversized: the records are only logged.                  *)
FlushOversizedLogged ==
  /\ InFlush("oversized")
  /\ flushPc' = "produce"
  /\ UNCHANGED <<committed, batched, dlq, pending, inflight, loopPc, timer, faults>>

FlushOversized ==
  /\ InFlush("oversized")
  /\ dlq' = dlq \cup Valid({"oversized"})
  /\ flushPc' = "produce"
  /\ UNCHANGED <<committed, batched, pending, inflight, loopPc, timer, faults>>

FlushProduce ==
  /\ InFlush("produce")
  /\ \E pieces \in Fitted(inflight) : batched' = batched (+) SetToBag(pieces)
  /\ flushPc' = "commit"
  /\ UNCHANGED <<committed, dlq, pending, inflight, loopPc, timer, faults>>

(* Mutant of LastOffsets: whatever the stream has delivered.               *)
DeliveredOffsets(batch) == position

(* offsetsByPartition: the last offset of each partition in the batch.     *)
LastOffsets(batch) ==
  [p \in Partitions |->
     LET offsets == {i.offset : i \in {j \in Range(batch) : j.partition = p}}
     IN IF offsets = {} THEN committed[p] ELSE Max(offsets)]

FlushCommit ==
  /\ InFlush("commit")
  /\ committed' = LastOffsets(inflight)
  /\ Settle
  /\ UNCHANGED <<batched, dlq, pending, timer, faults>>

(* A call of the handler fails.  The send of several messages is not       *)
(* atomic, and a commit may be applied although its answer is lost.        *)
FlushFails ==
  /\ faults < MaxFaults
  /\ faults' = faults + 1
  /\ \/ /\ InFlush("poison") /\ Poison # {}
        /\ \E landed \in SUBSET Poison : dlq' = dlq \cup landed
        /\ UNCHANGED <<committed, batched>>
     \/ /\ InFlush("oversized") /\ Valid({"oversized"}) # {}
        /\ \E landed \in SUBSET Valid({"oversized"}) : dlq' = dlq \cup landed
        /\ UNCHANGED <<committed, batched>>
     \/ /\ InFlush("produce")
        /\ \E pieces \in Fitted(inflight) :
             /\ pieces # {}
             /\ \E landed \in SUBSET pieces : batched' = batched (+) SetToBag(landed)
        /\ UNCHANGED <<committed, dlq>>
     \/ /\ InFlush("commit")
        /\ committed' \in {committed, LastOffsets(inflight)}
        /\ UNCHANGED <<batched, dlq>>
  /\ Reattach

(* The flush handler meets the closed producer.                            *)
FlushRefused ==
  /\ Refused
  /\ Reattach
  /\ UNCHANGED <<kafka, position, service, faults>>

-----------------------------------------------------------------------------
(* stop(), which only asks whether the service was started: the stream may *)
(* have failed and the finally block be at work.  It sets shouldStop,      *)
(* closes the consumer and then waits for the run loop.                    *)
Stop ==
  /\ phase = "running" /\ ~Due
  /\ phase' = "closing"
  /\ UNCHANGED <<kafka, position, flusher, loopPc, timer, failed, faults>>

CloseConsumer ==
  /\ phase = "closing" /\ ~Due
  /\ phase' = "stopping"
  /\ UNCHANGED <<kafka, position, flusher, loopPc, timer, failed, faults>>

(* The stream ends because of stop(), or fails by itself at any time.      *)
LoopEnds ==
  /\ loopPc = "await" /\ phase # "down"
  /\ failed' \in IF phase = "running" THEN {TRUE} ELSE BOOLEAN
  /\ timer' = FALSE
  /\ loopPc' = "drain"
  /\ UNCHANGED <<kafka, position, flusher, phase, faults>>

(* The finally block: after the flush in progress, flush what remains.     *)
Drain ==
  /\ loopPc = "drain" /\ flushPc = "idle"
  /\ Flush(pending)
  /\ loopPc' = IF flushPc' = "idle" THEN "done" ELSE "final"
  /\ UNCHANGED <<kafka, position, timer, service, faults>>

(* stop() swallows a rejection of the run promise, closes the producer and *)
(* leaves the timer alone.                                                 *)
CloseProducer ==
  /\ phase = "stopping" /\ loopPc = "done"
  /\ phase' = "closed"
  /\ UNCHANGED <<kafka, position, flusher, loopPc, timer, failed, faults>>

ProcessLost ==
  /\ phase' = "down"
  /\ position' = [p \in Partitions |-> 0]
  /\ pending' = << >> /\ inflight' = << >>
  /\ flushPc' = "idle" /\ loopPc' = "await"
  /\ timer' = FALSE /\ failed' = FALSE
  /\ UNCHANGED kafka

(* A stopped service exits; when the run promise rejects and nobody has    *)
(* put a catch on it yet, Node ends the process.                           *)
Exit ==
  /\ phase = "closed" \/ Rejected
  /\ ProcessLost
  /\ UNCHANGED faults

Crash ==
  /\ phase # "down"
  /\ faults < MaxFaults
  /\ faults' = faults + 1
  /\ ProcessLost

(* Mutant of Restart: the committed offset is taken for the last record    *)
(* processed, not for the next one.                                        *)
RestartOneBefore ==
  /\ phase = "down"
  /\ phase' = "running"
  /\ position' = [p \in Partitions |-> committed[p] - 1]
  /\ UNCHANGED <<kafka, flusher, loopPc, timer, failed, faults>>

(* A new process; the group resumes from its committed offsets.            *)
Restart ==
  /\ phase = "down"
  /\ phase' = "running"
  /\ position' = committed
  /\ UNCHANGED <<kafka, flusher, loopPc, timer, failed, faults>>

-----------------------------------------------------------------------------
Next ==
  \/ \E p \in Partitions : SkipRecord(p)
  \/ \E p \in Partitions : AddRecord(p)
  \/ LagLow
  \/ LagHigh
  \/ TimerFires
  \/ FlushPoison
  \/ FlushOversized
  \/ FlushProduce
  \/ FlushCommit
  \/ FlushFails
  \/ FlushRefused
  \/ Stop
  \/ CloseConsumer
  \/ LoopEnds
  \/ Drain
  \/ CloseProducer
  \/ Exit
  \/ Crash
  \/ Restart

Spec == Init /\ [][Next]_vars

-----------------------------------------------------------------------------
(* Fairness: Node runs every callback that is due and every call to Kafka  *)
(* returns or fails; nothing forces a stop, a crash, a stream failure or   *)
(* the failure of a call.                                                  *)
FlushStep == FlushPoison \/ FlushOversized \/ FlushProduce \/ FlushCommit \/ FlushRefused

Fairness ==
  /\ \A p \in Partitions : WF_vars(SkipRecord(p) \/ AddRecord(p))
  /\ WF_vars(LagLow)
  /\ WF_vars(TimerFires)
  /\ WF_vars(FlushStep)
  /\ WF_vars(phase # "running" /\ LoopEnds)
  /\ WF_vars(CloseConsumer)
  /\ WF_vars(Drain)
  /\ WF_vars(CloseProducer)
  /\ WF_vars(Exit)
  /\ WF_vars(Restart)

LiveSpec == Spec /\ Fairness

-----------------------------------------------------------------------------
(* Every variable has its type.                                            *)
TypeOK ==
  /\ log \in [Partitions -> Seq(Kinds)]
  /\ \A p \in Partitions : Len(log[p]) <= MaxPerPartition
  /\ committed \in [Partitions -> Nat]
  /\ BagToSet(batched) \subseteq SUBSET Record
  /\ dlq \subseteq Record
  /\ position \in [Partitions -> Nat]
  /\ pending \in Seq(Item) /\ inflight \in Seq(Item)
  /\ flushPc \in FlushPcs /\ loopPc \in LoopPcs
  /\ timer \in BOOLEAN
  /\ phase \in Phases /\ failed \in BOOLEAN
  /\ faults \in Nat

(* The records that must reach telemetry.batched.v1 or the DLQ, and those  *)
(* that are durable in the topic meant for them.                           *)
Owed    == {r \in Record : r[2] <= Len(log[r[1]]) /\ log[r[1]][r[2]] # "ignored"}
Anchorable == UNION BagToSet(batched)
Settled == {r \in Owed : IF log[r[1]][r[2]] = "good" THEN r \in Anchorable ELSE r \in dlq}

(* No telemetry is lost: the committed offset never passes a record that   *)
(* is not yet durable downstream, whatever calls fail, however the timer   *)
(* and the loop interleave and wherever the process crashes                *)
(* (services/batcher/README.md, Commit Safety).                            *)
NoLoss == \A r \in Owed : r[2] <= committed[r[1]] => r \in Settled

(* Nothing the stream delivered is dropped on the way: until it is         *)
(* committed, a record is in the current or in the detached batch, across  *)
(* failed flushes and through a shutdown.                                  *)
Accounted ==
  phase # "down" =>
    \A r \in Owed : (committed[r[1]] < r[2] /\ r[2] <= position[r[1]]) =>
                      \E i \in Buffered : RecordOf(i) = r

(* A failed batch is put back ahead of newer records, so payloads list the *)
(* records of a partition in the order of their offsets.                   *)
Buffer == inflight \o pending

BufferOrdered ==
  \A i, j \in 1..Len(Buffer) :
    (i < j /\ Buffer[i].partition = Buffer[j].partition)
       => Buffer[i].offset <= Buffer[j].offset

(* The inductive invariant behind NoLoss and Accounted: a batch carries    *)
(* the item that settles each record it still owes (Carried); a flight is  *)
(* ahead of what is pending (Separated); what the handler has already      *)
(* awaited is durable (FlightProgress); and a batch that holds items of a  *)
(* partition reaches its committed offset, even after a commit whose       *)
(* answer was lost (Fresh).                                                *)
Genuine(i) == KindOf(i) \in IF i.parsed THEN {"good", "oversized", "unaddressable"}
                                         ELSE {"poison", "unaddressable"}

Delivered ==
  /\ \A p \in Partitions : /\ committed[p] <= Len(log[p]) /\ position[p] <= Len(log[p])
                           /\ phase # "down" => committed[p] <= position[p]
  /\ \A i \in Buffered : /\ RecordOf(i) \in Owed
                         /\ i.offset <= position[i.partition]
                         /\ Genuine(i)
  /\ phase = "down" => pending = << >> /\ inflight = << >> /\ loopPc = "await"
  /\ flushPc = "idle" <=> inflight = << >>

Settles(i, r) == RecordOf(i) = r /\ (i.parsed <=> KindOf(i) \in {"good", "oversized"})

Carried ==
  phase # "down" =>
    \A r \in Owed : (committed[r[1]] < r[2] /\ r[2] <= position[r[1]]) =>
                      \E i \in Buffered : Settles(i, r)

Separated ==
  \A i \in Range(inflight), j \in Range(pending) :
    i.partition = j.partition => i.offset < j.offset

Reaches(batch) ==
  \A i \in Range(batch) : \E j \in Range(batch) :
    j.partition = i.partition /\ j.offset >= committed[j.partition]

Fresh == Reaches(inflight) /\ Reaches(pending)

FlightProgress ==
  /\ flushPc \in {"oversized", "produce", "commit"} => Poison \subseteq dlq
  /\ flushPc \in {"produce", "commit"} => Valid({"oversized"}) \subseteq dlq
  /\ flushPc = "commit" => Valid({"good"}) \subseteq Anchorable

IInv == TypeOK /\ Delivered /\ Carried /\ Separated /\ Fresh /\ FlightProgress /\ NoLoss

(* Without a failed call or a crash a record is published once: size, lag, *)
(* timer and shutdown flushes never publish the same item twice, and a     *)
(* graceful stop leaves nothing to replay (services/batcher/README.md,     *)
(* Batching Strategy).                                                     *)
NoDuplicateWithoutFault ==
  faults = 0 => /\ \A b \in BagToSet(batched) : batched[b] = 1
                /\ \A b, c \in BagToSet(batched) : b # c => b \cap c = {}

(* What may still run when the producer has been closed: after the stop of *)
(* a service whose stream had not failed, no flush is running and no timer *)
(* can start one; after the stop of one whose stream had failed a timer    *)
(* may, but what it flushes gets nowhere near a commit, so the offsets     *)
(* stay where the last batch that was published left them.                 *)
ClosedIsQuiet ==
  phase = "closed" => /\ (timer \/ flushPc # "idle") => failed
                      /\ flushPc # "commit"

(* The inductive invariant behind the last three: a record is in the       *)
(* buffer once, or twice as the valid and the poison item of an            *)
(* unaddressable one (BufferDistinct); what may still run when the loop    *)
(* has ended (WindingDown); a flight of the closed producer has sent       *)
(* nothing (ClosedFlight); and until a fault a published record is         *)
(* committed or in the flight that is about to commit it (NothingReplayed).*)
BufferDistinct ==
  \A i, j \in 1..Len(Buffer) :
    (i < j /\ RecordOf(Buffer[i]) = RecordOf(Buffer[j])) => Buffer[i].parsed # Buffer[j].parsed

Ended == loopPc \in {"drain", "final", "done"}

WindingDown ==
  /\ failed => Ended /\ phase # "down"
  /\ (phase = "running" /\ Ended) => failed
  /\ phase = "closed" => loopPc = "done"
  /\ (Ended /\ ~failed) => ~timer
  /\ loopPc = "final" => pending = << >>
  /\ (loopPc = "done" /\ flushPc # "idle") => (phase = "closed" /\ failed)

ClosedFlight ==
  phase = "closed" =>
    /\ flushPc # "commit"
    /\ flushPc \in {"oversized", "produce"} => Poison = {} /\ Valid({"unaddressable"}) = {}
    /\ flushPc = "produce" => Valid({"oversized"}) = {}

Uncommitted == \A i \in Buffered : committed[i.partition] < i.offset

Committing(r) == flushPc = "commit" /\ \E i \in Range(inflight) : RecordOf(i) = r

NothingReplayed ==
  faults = 0 => /\ Uncommitted
                /\ \A r \in Anchorable : r[2] <= committed[r[1]] \/ Committing(r)

OnceInv ==
  /\ BufferOrdered
  /\ BufferDistinct
  /\ WindingDown
  /\ ClosedFlight
  /\ NothingReplayed
  /\ NoDuplicateWithoutFault

(* An offset once committed is never committed again at a lower value.     *)
CommittedMonotone == [][\A p \in Partitions : committed'[p] >= committed[p]]_committed

(* The service is an at-least-once consumer of its log.                    *)
ALO == INSTANCE AtLeastOnce WITH owed <- Owed, settled <- Settled
ImplementsAtLeastOnce == ALO!ALOSpec

(* A batch that is being flushed is committed in the end, however often    *)
(* its flush fails, as long as the service keeps running.                  *)
FlightLands ==
  \A p \in Partitions : \A o \in 1..MaxPerPartition :
    (\E i \in Range(inflight) : RecordOf(i) = <<p, o>>)
       ~> (committed[p] >= o \/ phase # "running" \/ failed)

(* A stop ends: the loop drains and the producer is closed, even when a    *)
(* flush is in progress or fails meanwhile and when the stream had failed. *)
StopCompletes == phase \in {"closing", "stopping"} ~> phase \in {"closed", "down"}

(* Claimed by services/batcher/README.md:32: the timer flushes what a      *)
(* flush left behind.                                                      *)
PartialBatchFlushed ==
  (phase = "running" /\ pending # << >>)
     ~> (phase # "running" \/ failed \/ pending = << >>)

=============================================================================
