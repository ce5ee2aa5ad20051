----------------------------- MODULE AnchorProofs -----------------------------
(***************************************************************************)
(* What the anchor promises, for every set of partitions, log, number of   *)
(* faults and reorganisations.                                             *)
(***************************************************************************)
EXTENDS BlockchainAnchor, SequenceTheorems, FiniteSetTheorems, WellFoundedInduction, TLAPS

Tx == [record : Record, ok : BOOLEAN]

-----------------------------------------------------------------------------
(* Lemmas about the data the model is built from.                          *)

(* A nonempty set of naturals with an upper bound has a maximum.           *)
LEMMA MaxIsMember ==
  ASSUME NEW n \in Nat, NEW S, S \subseteq 0..n, S # {}
  PROVE  Max(S) \in S /\ \A x \in S : x <= Max(S)
<1> DEFINE T == {n - x : x \in S}
<1>1. T \subseteq Nat /\ T # {}
  <2>1. \A x \in S : n - x \in Nat
    OBVIOUS
  <2> QED BY <2>1
<1>2. PICK t \in T : \A u \in T : t <= u
  <2> HIDE DEF T
  <2>1. \E t \in T : \A u \in T : ~ (<<u, t>> \in OpToRel(<, Nat))
    BY <1>1, WFMin, NatLessThanWellFounded
  <2>2. \A t, u \in T : ~ (<<u, t>> \in OpToRel(<, Nat)) => t <= u
    BY <1>1 DEF OpToRel
  <2> QED BY <2>1, <2>2
<1>3. PICK m \in S : t = n - m
  OBVIOUS
<1>4. \A x \in S : m >= x
  <2> TAKE x \in S
  <2>1. n - x \in T
    OBVIOUS
  <2>2. t <= n - x
    BY <1>2, <2>1
  <2> QED BY <1>3, <2>2
<1>5. Max(S) \in S /\ \A x \in S : Max(S) >= x
  BY <1>4 DEF Max
<1> QED BY <1>5

(* What a log of the model is.                                             *)
LEMMA LogFacts ==
  ASSUME NEW l \in Logs, NEW p \in Partitions
  PROVE  /\ l \in [Partitions -> Seq(Contents \cup Kinds)]
         /\ Len(l[p]) \in 0..MaxPerPartition
         /\ \A o \in 1..Len(l[p]) : l[p][o] \in Contents \cup Kinds
<1>1. l \in [Partitions -> UNION {[1..n -> Contents \cup Kinds] : n \in 0..MaxPerPartition}]
  BY DEF Logs
<1>2. ASSUME NEW q \in Partitions
      PROVE  /\ l[q] \in Seq(Contents \cup Kinds)
             /\ Len(l[q]) \in 0..MaxPerPartition
             /\ \A o \in 1..Len(l[q]) : l[q][o] \in Contents \cup Kinds
  <2>1. PICK n \in 0..MaxPerPartition : l[q] \in [1..n -> Contents \cup Kinds]
    BY <1>1
  <2>2. l[q] \in Seq(Contents \cup Kinds) /\ Len(l[q]) = n
    BY <2>1, AnchorAssumption
  <2> QED BY <2>1, <2>2
<1> QED BY <1>1, <1>2

(* The invariant gives the record in progress its parts.                   *)
LEMMA CurrentFacts ==
  ASSUME IInv, pc \in Busy
  PROVE  /\ current \in Record /\ current = <<current[1], current[2]>>
         /\ current[1] \in Partitions /\ current[2] \in 1..MaxPerPartition
         /\ current[2] = position[current[1]] /\ current[2] <= Len(log[current[1]])
         /\ committed[current[1]] < current[2]
         /\ phase # "down" /\ pc # "done"
         /\ ContentOf(current) # "ignored"
<1>1. current \in Record /\ current # << >>
  BY DEF IInv, InProgress, TypeOK
<1>2. /\ current = <<current[1], current[2]>>
      /\ current[1] \in Partitions /\ current[2] \in 1..MaxPerPartition
  BY <1>1 DEF Record
<1> QED BY <1>1, <1>2 DEF IInv, InProgress, LogBound, Busy

(* A batch that is in progress and neither invalid nor ignored is owed.    *)
LEMMA ContentsAreBatches ==
  ASSUME NEW c \in Contents
  PROVE  c \notin {"oversized", "invalid", "ignored"}
BY AnchorAssumption DEF OtherKinds

-----------------------------------------------------------------------------
(* What a step can do to the topics and to the chain.                      *)

(* It commits nothing but the record that is ready for it.                 *)
LEMMA CommitStep ==
  ASSUME IInv, [Next]_vars
  PROVE  /\ log' = log
         /\ \/ committed' = committed
            \/ pc = "commit" /\ committed' = [committed EXCEPT ![current[1]] = current[2]]
<1>1. CASE Include \/ Finalize \/ Reorg \/ DropFromPool \/ Stop \/ LoopEnds \/ Disconnect \/ Exit \/ Crash \/ Restart
  BY <1>1 DEF Include, Finalize, Reorg, DropFromPool, Stop, LoopEnds, Disconnect, Exit, Crash, Restart, kafka
<1>2. CASE \E p \in Partitions : SkipRecord(p) \/ TakeRecord(p)
  BY <1>2 DEF SkipRecord, TakeRecord, NextRecord, kafka
<1>3. CASE PublishOversized \/ CheckAnchored \/ CheckFails \/ Submit \/ Finalized \/ Commit
  BY <1>3 DEF PublishOversized, CheckAnchored, CheckFails, Submit, Finalized, Commit, At
<1>4. CASE AnchorRejected \/ CallFails
  BY <1>4 DEF AnchorRejected, CallFails, kafka
<1>5. CASE UNCHANGED vars
  BY <1>5 DEF vars
<1> QED BY <1>1, <1>2, <1>3, <1>4, <1>5 DEF Next

(* It submits nothing but the record that is ready for it, and drops       *)
(* nothing that the best chain includes.                                   *)
LEMMA TxsStep ==
  ASSUME IInv, [Next]_vars
  PROVE  /\ txs' \in Seq(Tx)
         /\ \A k \in 1..Len(txs') :
              \/ k <= Len(txs) /\ txs'[k] = txs[k]
              \/ k = Len(txs) + 1 /\ pc = "submit" /\ txs'[k].record = current
         /\ best <= Len(txs')
<1>1. txs \in Seq(Tx) /\ Len(txs) \in Nat /\ best \in Nat /\ best <= Len(txs)
  BY LenProperties DEF IInv, TypeOK, Tx
<1>2. CASE UNCHANGED txs
  BY <1>1, <1>2
<1>3. CASE DropFromPool
  <2>1. PICK n \in best..(Len(txs) - 1) : txs' = SubSeq(txs, 1, n)
    BY <1>3 DEF DropFromPool
  <2>2. n \in Int /\ n >= 0 /\ \A i \in 1..n : txs[i] \in Tx
    BY <1>1, <2>1, ElementOfSeq
  <2>3. /\ txs' \in Seq(Tx) /\ Len(txs') = n
        /\ \A i \in 1..n : txs'[i] = txs[i]
    BY <1>1, <2>1, <2>2, SubSeqProperties
  <2> QED BY <1>1, <2>1, <2>2, <2>3
<1>4. ASSUME NEW ok \in BOOLEAN, pc = "submit",
             txs' = Append(txs, [record |-> current, ok |-> ok])
      PROVE  /\ txs' \in Seq(Tx) /\ Len(txs') = Len(txs) + 1
             /\ \A k \in 1..Len(txs) : txs'[k] = txs[k]
             /\ txs'[Len(txs) + 1].record = current
  <2>1. [record |-> current, ok |-> ok] \in Tx
    BY <1>4, CurrentFacts DEF Busy, Tx
  <2> QED BY <1>1, <1>4, <2>1, AppendProperties
<1>5. CASE \E ok \in BOOLEAN : pc = "submit" /\ txs' = Append(txs, [record |-> current, ok |-> ok])
  BY <1>1, <1>4, <1>5
<1>6. CASE Include \/ Finalize \/ Reorg \/ Stop \/ LoopEnds \/ Disconnect \/ Exit \/ Crash \/ Restart
  BY <1>2, <1>6 DEF Include, Finalize, Reorg, Stop, LoopEnds, Disconnect, Exit, Crash, Restart, chain
<1>7. CASE \E p \in Partitions : SkipRecord(p) \/ TakeRecord(p)
  BY <1>2, <1>7 DEF SkipRecord, TakeRecord, NextRecord, chain
<1>8. CASE PublishOversized \/ CheckAnchored \/ CheckFails \/ Finalized \/ Commit
  BY <1>2, <1>8 DEF PublishOversized, CheckAnchored, CheckFails, Finalized, Commit
<1>9. CASE Submit
  BY <1>5, <1>9 DEF Submit, At
<1>10. CASE AnchorRejected
  BY <1>2, <1>10 DEF AnchorRejected, chain
<1>11. CASE CallFails
  BY <1>2, <1>5, <1>11 DEF CallFails
<1>12. CASE UNCHANGED vars
  BY <1>2, <1>12 DEF vars
<1> QED BY <1>3, <1>6, <1>7, <1>8, <1>9, <1>10, <1>11, <1>12 DEF Next

(* It takes a block from the best chain only in a reorganisation.          *)
LEMMA ChainStep ==
  ASSUME IInv, [Next]_vars
  PROVE  /\ best' \in Nat /\ final' \in 0..best' /\ reorgs' \in Nat
         /\ best' <= Len(txs')
         /\ dlq \subseteq dlq' /\ dlq' \subseteq Record
         /\ reorgs' = 0 => reorgs = 0 /\ best <= best'
<1>1. /\ Len(txs) \in Nat /\ best \in Nat /\ best <= Len(txs)
      /\ final \in 0..best /\ reorgs \in Nat /\ dlq \subseteq Record
  BY LenProperties DEF IInv, TypeOK
<1>2. best <= Len(txs') /\ Len(txs') \in Nat
  BY TxsStep, LenProperties
<1>3. CASE UNCHANGED <<dlq, best, final, reorgs>>
  BY <1>1, <1>2, <1>3
<1>4. CASE Include \/ Finalize \/ Reorg
  BY <1>1, <1>4, AnchorAssumption DEF Include, Finalize, Reorg, kafka
<1>5. CASE DropFromPool \/ Stop \/ LoopEnds \/ Disconnect \/ Exit \/ Crash \/ Restart \/ AnchorRejected
  BY <1>3, <1>5 DEF DropFromPool, Stop, LoopEnds, Disconnect, Exit, Crash, Restart, AnchorRejected, kafka, chain
<1>6. CASE \E p \in Partitions : SkipRecord(p) \/ TakeRecord(p)
  BY <1>3, <1>6 DEF SkipRecord, TakeRecord, NextRecord, kafka, chain
<1>7. CASE CheckAnchored \/ CheckFails \/ Submit \/ Finalized \/ Commit
  BY <1>3, <1>7 DEF CheckAnchored, CheckFails, Submit, Finalized, Commit, At
<1>8. CASE PublishOversized
  <2>1. current \in Record
    BY <1>8, CurrentFacts DEF PublishOversized, At, Busy
  <2> QED BY <1>1, <1>2, <1>8, <2>1 DEF PublishOversized, At
<1>9. CASE CallFails
  <2>1. UNCHANGED <<best, final, reorgs>>
    BY <1>9 DEF CallFails
  <2>2. dlq \subseteq dlq' /\ dlq' \subseteq Record
    <3>1. CASE dlq' = dlq
      BY <1>1, <3>1
    <3>2. CASE pc = "reject" /\ dlq' \in {dlq, dlq \cup {current}}
      <4>1. current \in Record
        BY <3>2, CurrentFacts DEF Busy
      <4> QED BY <1>1, <3>2, <4>1
    <3> QED BY <1>9, <3>1, <3>2 DEF CallFails
  <2> QED BY <1>1, <1>2, <2>1, <2>2
<1>10. CASE UNCHANGED vars
  BY <1>3, <1>10 DEF vars
<1> QED BY <1>4, <1>5, <1>6, <1>7, <1>8, <1>9, <1>10 DEF Next

(* So, up to the first reorganisation, what is settled stays settled.      *)
LEMMA SettledStays ==
  ASSUME IInv, [Next]_vars
  PROVE  /\ Owed' = Owed
         /\ reorgs' = 0 => \A r \in Settled : r \in Settled'
<1>1. log' = log
  BY CommitStep
<1>2. Owed' = Owed
  BY <1>1 DEF Owed, ContentOf
<1>3. ASSUME reorgs' = 0, NEW r \in Settled
      PROVE  r \in Settled'
  <2>1. r \in Owed /\ ContentOf(r)' = ContentOf(r)
    BY <1>1, <1>3 DEF Settled, ContentOf
  <2>2. CASE ContentOf(r) = "oversized"
    BY <1>2, <1>3, <2>1, <2>2, ChainStep DEF Settled
  <2>3. CASE ContentOf(r) # "oversized"
    <3>1. PICK k \in OnChain : ContentOf(txs[k].record) = ContentOf(r)
      BY <1>3, <2>3 DEF Settled, Anchored
    <3>2. /\ k \in 1..best /\ txs[k].ok /\ best \in Nat /\ best <= Len(txs) /\ Len(txs) \in Nat
          /\ best <= best' /\ best' \in Nat /\ best <= Len(txs') /\ Len(txs') \in Nat
      BY <1>3, ChainStep, TxsStep, LenProperties DEF OnChain, IInv, TypeOK
    <3>3. txs'[k] = txs[k] /\ k \in 1..best'
      BY <3>2, TxsStep
    <3>4. k \in OnChain'
      BY <3>2, <3>3 DEF OnChain
    <3>5. (ContentOf(txs[k].record))' = ContentOf(txs[k].record)
      BY <1>1, <3>3 DEF ContentOf
    <3>6. Anchored(ContentOf(r))'
      BY <2>1, <3>1, <3>4, <3>5 DEF Anchored
    <3> QED BY <1>2, <2>1, <2>3, <3>6 DEF Settled
  <2> QED BY <2>2, <2>3
<1> QED BY <1>2, <1>3

-----------------------------------------------------------------------------
(* The initial states satisfy the invariant.                               *)
LEMMA Initially ==
  ASSUME Init
  PROVE  IInv
<1>1. log \in Logs /\ \A p \in Partitions : Len(log[p]) \in 0..MaxPerPartition
  BY LogFacts DEF Init
<1>2. log \in [Partitions -> Seq(Contents \cup Kinds)]
  <2>1. PICK p : p \in Partitions
    BY AnchorAssumption
  <2> QED BY <1>1, <2>1, LogFacts
<1>3. txs = << >> /\ txs \in Seq([record : Record, ok : BOOLEAN]) /\ Len(txs) = 0
  BY EmptySeq DEF Init
<1>4. TypeOK
  BY <1>2, <1>3 DEF Init, TypeOK, Pcs, Phases
<1>5. LogBound /\ Following /\ InProgress
  BY <1>1 DEF Init, LogBound, Following, Ignored, InProgress, Busy
<1>6. Sent /\ AnchoredInOrder
  BY <1>3 DEF Sent, AnchoredInOrder
<1>7. CommittedIsSettled
  <2>1. \A r \in Owed : ~ (r[2] <= committed[r[1]])
    BY DEF Owed, Record, Init
  <2> QED BY <2>1 DEF CommittedIsSettled
<1> QED BY <1>4, <1>5, <1>6, <1>7 DEF IInv

(* The parts of the invariant, each over any step.                         *)
LEMMA SentKept ==
  ASSUME IInv, [Next]_vars
  PROVE  Sent'
<1>1. log' = log /\ \A q \in Partitions : committed[q] \in Nat /\ committed'[q] \in Nat /\ committed[q] <= committed'[q]
  <2>1. committed \in [Partitions -> Nat]
    BY DEF IInv, TypeOK
  <2>2. CASE pc = "commit" /\ committed' = [committed EXCEPT ![current[1]] = current[2]]
    BY <2>1, <2>2, CommitStep, CurrentFacts DEF Busy
  <2> QED BY <2>1, <2>2, CommitStep
<1> SUFFICES ASSUME NEW k \in 1..Len(txs')
             PROVE  /\ txs'[k].record[2] <= Len(log[txs'[k].record[1]])
                    /\ log[txs'[k].record[1]][txs'[k].record[2]] \in Contents
                    /\ \A i \in (committed'[txs'[k].record[1]] + 1)..(txs'[k].record[2] - 1) :
                         log[txs'[k].record[1]][i] = "ignored"
  BY <1>1 DEF Sent, Ignored
<1>2. CASE k <= Len(txs) /\ txs'[k] = txs[k]
  <2>1. txs \in Seq(Tx) /\ k \in 1..Len(txs)
    BY <1>2 DEF IInv, TypeOK, Tx
  <2>2. txs[k] \in Tx
    BY <2>1, ElementOfSeq
  <2>3. PICK q \in Partitions, n \in Nat : q = txs[k].record[1] /\ n = txs[k].record[2]
    BY <2>2 DEF Tx, Record
  <2>4. n <= Len(log[q]) /\ log[q][n] \in Contents /\ \A i \in (committed[q] + 1)..(n - 1) : log[q][i] = "ignored"
    BY <2>1, <2>3 DEF IInv, Sent, Ignored
  <2>5. \A i \in (committed'[q] + 1)..(n - 1) : log[q][i] = "ignored"
    <3>1. committed[q] \in Nat /\ committed'[q] \in Nat /\ committed[q] <= committed'[q]
      BY <1>1
    <3> TAKE i \in (committed'[q] + 1)..(n - 1)
    <3>2. i \in (committed[q] + 1)..(n - 1)
      BY <3>1
    <3> QED BY <2>4, <3>2
  <2>6. txs'[k].record[1] = q /\ txs'[k].record[2] = n
    BY <1>2, <2>3
  <2> QED BY <2>4, <2>5, <2>6
<1>3. CASE k = Len(txs) + 1 /\ pc = "submit" /\ txs'[k].record = current
  <2>1. committed' = committed
    BY <1>3, CommitStep
  <2>2. /\ current[1] \in Partitions /\ current[2] <= Len(log[current[1]])
        /\ Ignored(current[1], committed[current[1]] + 1, current[2] - 1)
    <3>1. phase # "down" /\ pc # "done" /\ current # << >> /\ current[2] = position[current[1]]
          /\ current[1] \in Partitions /\ current[2] <= Len(log[current[1]])
      BY <1>3, CurrentFacts DEF Busy, IInv, InProgress
    <3> QED BY <3>1 DEF IInv, Following
  <2>3. log[current[1]][current[2]] \in Contents
    BY <1>3 DEF IInv, InProgress, ContentOf
  <2> QED BY <1>1, <1>3, <2>1, <2>2, <2>3 DEF Ignored
<1> QED BY <1>2, <1>3, TxsStep

(* A batch behind another one of its partition is ahead of the committed   *)
(* offset, so what is between would have to be ignored.                    *)
LEMMA OrderKept ==
  ASSUME IInv, [Next]_vars
  PROVE  AnchoredInOrder'
<1>1. txs \in Seq(Tx) /\ Len(txs) \in Nat /\ txs' \in Seq(Tx) /\ Len(txs') \in Nat
  BY TxsStep, LenProperties DEF IInv, TypeOK, Tx
<1> SUFFICES ASSUME NEW j \in 1..Len(txs'), NEW k \in 1..Len(txs'),
                    j < k, txs'[j].record[1] = txs'[k].record[1]
             PROVE  txs'[j].record[2] <= txs'[k].record[2]
  BY DEF AnchoredInOrder
<1>2. j <= Len(txs) /\ txs'[j] = txs[j]
  BY <1>1, TxsStep
<1>3. CASE k <= Len(txs) /\ txs'[k] = txs[k]
  BY <1>1, <1>2, <1>3 DEF IInv, AnchoredInOrder
<1>4. CASE k = Len(txs) + 1 /\ pc = "submit" /\ txs'[k].record = current
  <2>1. /\ current[2] \in Nat /\ committed[current[1]] < current[2] /\ current[1] \in Partitions
        /\ log[current[1]][current[2]] # "ignored"
    BY <1>4, CurrentFacts DEF Busy, ContentOf
  <2>2. txs[j] \in Tx /\ txs[j].record[1] = current[1]
    BY <1>1, <1>2, <1>4, ElementOfSeq
  <2>3. txs[j].record[2] \in Nat /\ committed[current[1]] \in Nat
    <3>1. committed \in [Partitions -> Nat]
      BY DEF IInv, TypeOK
    <3>2. txs[j].record \in Partitions \X (1..MaxPerPartition)
      BY <2>2 DEF Tx, Record
    <3>3. txs[j].record[2] \in Nat
      BY <3>2
    <3> QED BY <2>1, <3>1, <3>3
  <2>4. Ignored(current[1], committed[current[1]] + 1, txs[j].record[2] - 1)
    BY <1>1, <1>2, <2>2 DEF IInv, Sent
  <2>5. ~ (current[2] < txs[j].record[2])
    BY <2>1, <2>3, <2>4 DEF Ignored
  <2> QED BY <1>2, <1>4, <2>1, <2>3, <2>5
<1> QED BY <1>3, <1>4, TxsStep

(* A commit passes, besides ignored records, only one that is settled.     *)
LEMMA SettledKept ==
  ASSUME IInv, [Next]_vars
  PROVE  CommittedIsSettled'
<1> SUFFICES ASSUME reorgs' = 0, NEW r \in Owed, r[2] <= committed'[r[1]]
             PROVE  r \in Settled'
  BY SettledStays DEF CommittedIsSettled
<1>1. reorgs = 0 /\ r[1] \in Partitions /\ r[2] \in 1..MaxPerPartition
  BY ChainStep DEF Owed, Record
<1>2. SUFFICES r \in Settled
  BY SettledStays
<1>3. CASE r[2] <= committed[r[1]]
  BY <1>1, <1>3 DEF IInv, CommittedIsSettled
<1>4. CASE r[2] > committed[r[1]]
  <2>1. committed \in [Partitions -> Nat]
    BY DEF IInv, TypeOK
  <2>2. pc = "commit" /\ committed' = [committed EXCEPT ![current[1]] = current[2]]
    BY <1>1, <1>4, <2>1, CommitStep
  <2>3. r[1] = current[1] /\ r[2] <= current[2]
    BY <1>1, <1>4, <2>1, <2>2
  <2>4. CASE r[2] = current[2]
    <3>1. r = current
      BY <2>2, <2>3, <2>4, CurrentFacts DEF Owed, Record, Busy
    <3> QED BY <1>1, <2>2, <3>1 DEF IInv, InProgress
  <2>5. CASE r[2] < current[2]
    <3>1. Ignored(r[1], committed[r[1]] + 1, current[2] - 1) /\ current[2] \in Nat
      BY <1>1, <2>2, <2>3, CurrentFacts DEF Busy, IInv, InProgress, Following
    <3>2. ContentOf(r) = "ignored"
      BY <1>1, <1>4, <2>1, <2>5, <3>1 DEF Ignored, ContentOf
    <3> QED BY <3>2 DEF Owed
  <2> QED BY <1>1, <2>2, <2>3, <2>4, <2>5, CurrentFacts DEF Busy
<1> QED BY <1>1, <1>3, <1>4 DEF IInv, TypeOK

(* What a step does to the position of the stream.                         *)
LEMMA BoundKept ==
  ASSUME IInv, [Next]_vars
  PROVE  LogBound'
<1>1. log' = log /\ log \in Logs
  BY CommitStep DEF IInv, LogBound
<1>2. committed \in [Partitions -> Nat] /\ position \in [Partitions -> Nat]
  BY DEF IInv, TypeOK
<1>3. \A p \in Partitions : /\ position[p] <= Len(log[p]) /\ committed[p] <= Len(log[p])
                            /\ Len(log[p]) \in Nat
  BY <1>1, LogFacts DEF IInv, LogBound
<1>4. \A p \in Partitions : committed'[p] <= Len(log[p])
  <2>1. CASE pc = "commit" /\ committed' = [committed EXCEPT ![current[1]] = current[2]]
    BY <1>2, <1>3, <2>1, CurrentFacts DEF Busy
  <2> QED BY <1>3, <2>1, CommitStep
<1> SUFFICES \A p \in Partitions : position'[p] <= Len(log[p])
  BY <1>1, <1>4 DEF LogBound
<1>5. CASE UNCHANGED position \/ position' = committed \/ position' = [p \in Partitions |-> 0]
  BY <1>3, <1>5
<1>6. CASE \E p \in Partitions : SkipRecord(p) \/ TakeRecord(p)
  <2>1. PICK q \in Partitions : position[q] < Len(log[q]) /\ position' = [position EXCEPT ![q] = @ + 1]
    BY <1>6 DEF SkipRecord, TakeRecord, NextRecord
  <2> TAKE p \in Partitions
  <2>2. CASE p = q
    <3>1. position'[p] = position[p] + 1
      BY <1>2, <2>1, <2>2
    <3> QED BY <1>2, <1>3, <2>1, <2>2, <3>1
  <2>3. CASE p # q
    BY <1>2, <1>3, <2>1, <2>3
  <2> QED BY <2>2, <2>3
<1>7. CASE Include \/ Finalize \/ Reorg \/ DropFromPool \/ Stop \/ LoopEnds \/ Disconnect
  BY <1>5, <1>7 DEF Include, Finalize, Reorg, DropFromPool, Stop, LoopEnds, Disconnect, loop
<1>8. CASE PublishOversized \/ CheckAnchored \/ CheckFails \/ Submit \/ Finalized \/ Commit
  BY <1>5, <1>8 DEF PublishOversized, CheckAnchored, CheckFails, Submit, Finalized, Commit, At
<1>9. CASE AnchorRejected \/ CallFails \/ Exit \/ Crash \/ Restart
  BY <1>5, <1>9 DEF AnchorRejected, CallFails, Exit, Crash, Restart, Rethrow, ProcessLost
<1> QED BY <1>5, <1>6, <1>7, <1>8, <1>9 DEF Next, vars

(* The loop passes a record that is not ignored only by committing it.     *)
LEMMA FollowingKept ==
  ASSUME IInv, [Next]_vars
  PROVE  Following'
<1> DEFINE Upto(p) == IF current # << >> /\ current[1] = p THEN position[p] - 1 ELSE position[p]
           Runs    == phase # "down" /\ pc # "done"
<1>1. log' = log /\ committed \in [Partitions -> Nat] /\ position \in [Partitions -> Nat]
  BY CommitStep DEF IInv, TypeOK
<1>2. Runs => \A p \in Partitions : /\ committed[p] <= position[p]
                                    /\ \A o \in (committed[p] + 1)..Upto(p) : log[p][o] = "ignored"
  BY DEF IInv, Following, Ignored
<1> SUFFICES ASSUME phase' # "down", pc' # "done", NEW p \in Partitions
             PROVE  /\ committed'[p] <= position'[p]
                    /\ \A o \in (committed'[p] + 1)..Upto(p)' : log[p][o] = "ignored"
  BY <1>1 DEF Following, Ignored
<1>3. CASE Runs /\ UNCHANGED <<committed, position, current>>
  BY <1>1, <1>2, <1>3
<1>4. CASE Include \/ Finalize \/ Reorg \/ DropFromPool \/ Stop
  BY <1>3, <1>4 DEF Include, Finalize, Reorg, DropFromPool, Stop, loop, kafka
<1>5. CASE LoopEnds \/ Disconnect
  BY <1>5 DEF LoopEnds, Disconnect, loop
<1>6. CASE PublishOversized \/ CheckAnchored \/ CheckFails \/ Submit \/ Finalized
  BY <1>3, <1>6, CurrentFacts DEF PublishOversized, CheckAnchored, CheckFails, Submit, Finalized, At, Busy
<1>7. CASE AnchorRejected \/ CallFails \/ Exit \/ Crash
  BY <1>7 DEF AnchorRejected, CallFails, Exit, Crash, Rethrow, ProcessLost
<1>8. CASE Restart
  <2>1. current = << >>
    BY <1>8 DEF Restart, IInv, InProgress, Busy
  <2> QED BY <1>1, <1>8, <2>1 DEF Restart, kafka
<1>9. CASE Commit
  <2>1. /\ committed' = [committed EXCEPT ![current[1]] = current[2]] /\ position' = position
        /\ current' = << >> /\ Runs /\ current # << >>
        /\ current[1] \in Partitions /\ current[2] = position[current[1]] /\ current[2] \in Nat
    BY <1>9, CurrentFacts DEF Commit, At, Busy, IInv, InProgress
  <2>2. CASE p = current[1]
    BY <1>1, <2>1, <2>2
  <2>3. CASE p # current[1]
    BY <1>1, <1>2, <2>1, <2>3
  <2> QED BY <2>2, <2>3
<1>10. ASSUME NEW q \in Partitions, SkipRecord(q) \/ TakeRecord(q)
       PROVE  /\ committed'[p] <= position'[p]
              /\ \A o \in (committed'[p] + 1)..Upto(p)' : log[p][o] = "ignored"
  <2>1. /\ committed' = committed /\ position' = [position EXCEPT ![q] = @ + 1]
        /\ Runs /\ current = << >>
    BY <1>10 DEF SkipRecord, TakeRecord, NextRecord, kafka, IInv, InProgress, Busy
  <2>2. CASE p # q
    <3>1. Upto(p)' = Upto(p) /\ position'[p] = position[p]
      BY <1>1, <1>10, <2>1, <2>2 DEF SkipRecord, TakeRecord
    <3> QED BY <1>2, <2>1, <3>1
  <2>3. CASE p = q /\ SkipRecord(q)
    <3>1. Upto(p) = position[p] /\ Upto(p)' = position[p] + 1 /\ position'[p] = position[p] + 1
          /\ log[p][position[p] + 1] = "ignored"
      BY <1>1, <2>1, <2>3 DEF SkipRecord
    <3>2. /\ committed[p] \in Nat /\ position[p] \in Nat /\ committed[p] <= position[p]
          /\ \A o \in (committed[p] + 1)..position[p] : log[p][o] = "ignored"
      BY <1>1, <1>2, <2>1, <3>1
    <3>3. \A o \in (committed[p] + 1)..(position[p] + 1) : log[p][o] = "ignored"
      BY <3>1, <3>2
    <3> QED BY <2>1, <3>1, <3>2, <3>3
  <2>4. CASE p = q /\ TakeRecord(q)
    <3>1. Upto(p) = position[p] /\ Upto(p)' = position[p] /\ position'[p] = position[p] + 1
      BY <1>1, <2>1, <2>4 DEF TakeRecord
    <3> QED BY <1>1, <1>2, <2>1, <3>1
  <2> QED BY <1>10, <2>2, <2>3, <2>4
<1>11. CASE UNCHANGED vars
  BY <1>3, <1>11 DEF vars
<1> QED BY <1>4, <1>5, <1>6, <1>7, <1>8, <1>9, <1>10, <1>11 DEF Next

(* What is known of the record in progress holds over each await.          *)
LEMMA InProgressKept ==
  ASSUME IInv, [Next]_vars
  PROVE  InProgress'
<1>1. /\ log' = log /\ committed \in [Partitions -> Nat] /\ position \in [Partitions -> Nat]
      /\ \A r : ContentOf(r)' = ContentOf(r)
  BY CommitStep DEF IInv, TypeOK, ContentOf
<1>2. InProgress
  BY DEF IInv
<1>3. ASSUME UNCHANGED <<committed, position, current, watched, pc>>, phase' # "down"
      PROVE  InProgress'
  <2>1. pc' \in Busy => ContentOf(current)' = ContentOf(current)
    BY <1>1, <1>3 DEF ContentOf
  <2>2. pc = "watch" => watched > 0 /\ (watched <= Len(txs') => txs'[watched].record = current)
    <3>1. Len(txs) \in Nat /\ Len(txs') \in Nat /\ watched \in Nat
      BY TxsStep, LenProperties DEF IInv, TypeOK
    <3> QED BY <1>2, <3>1, TxsStep DEF InProgress
  <2>3. (pc = "commit" /\ current \in Owed /\ reorgs' = 0) => current \in Settled'
    BY <1>2, ChainStep, SettledStays DEF InProgress
  <2>4. /\ (current # << >> <=> pc \in Busy)'
        /\ pc' \in Busy => /\ (current[2] = position[current[1]] /\ committed[current[1]] < current[2])'
                           /\ (ContentOf(current) # "ignored")'
    BY <1>2, <1>3, <2>1 DEF InProgress
  <2>5. /\ pc' = "reject" => (ContentOf(current) = "oversized")'
        /\ pc' \in {"query", "submit", "watch"} => (ContentOf(current) \in Contents)'
    BY <1>2, <1>3, <2>1 DEF InProgress, Busy
  <2>6. /\ pc' = "watch" => watched' > 0 /\ (watched' <= Len(txs') => txs'[watched'].record = current')
        /\ (pc' = "commit" /\ current' \in Owed' /\ reorgs' = 0) => current' \in Settled'
    BY <1>3, <2>2, <2>3, SettledStays
  <2> QED BY <1>3, <2>4, <2>5, <2>6 DEF InProgress
<1>4. ASSUME current' = << >>, pc' = "await" \/ (pc' = "done" /\ phase' # "down")
      PROVE  InProgress'
  BY <1>4 DEF InProgress, Busy
<1>5. CASE Include \/ Finalize \/ Reorg \/ DropFromPool \/ Stop
  <2>1. UNCHANGED <<committed, position, current, watched, pc>>
    BY <1>5 DEF Include, Finalize, Reorg, DropFromPool, Stop, kafka, loop
  <2>2. CASE phase' # "down"
    BY <1>3, <2>1, <2>2
  <2>3. CASE phase' = "down"
    <3>1. phase = "down"
      BY <1>5, <2>3 DEF Include, Finalize, Reorg, DropFromPool, Stop
    <3> QED BY <1>2, <1>4, <2>1, <3>1 DEF InProgress, Busy
  <2> QED BY <2>2, <2>3
<1>6. CASE Commit \/ AnchorRejected \/ CallFails \/ Exit \/ Crash
  BY <1>4, <1>6 DEF Commit, At, AnchorRejected, CallFails, Exit, Crash, Rethrow, ProcessLost
<1>7. CASE LoopEnds \/ Disconnect \/ Restart
  <2>1. current = << >> /\ current' = current
    BY <1>2, <1>7 DEF LoopEnds, Disconnect, Restart, InProgress, Busy, loop
  <2> QED BY <1>2, <1>4, <1>7, <2>1 DEF LoopEnds, Disconnect, Restart, InProgress, loop
<1>8. ASSUME NEW q \in Partitions, SkipRecord(q)
      PROVE  InProgress'
  <2>1. current = << >> /\ current' = current /\ pc' = "await"
    BY <1>2, <1>8 DEF SkipRecord, NextRecord, InProgress, Busy
  <2> QED BY <1>4, <2>1
<1>9. ASSUME NEW q \in Partitions, TakeRecord(q)
      PROVE  InProgress'
  <2> DEFINE n == position[q] + 1
  <2>1. /\ n \in Nat /\ n <= Len(log[q]) /\ Len(log[q]) \in Nat
        /\ log[q][n] \in Contents \cup Kinds /\ log[q][n] # "ignored"
    <3>1. position[q] \in Nat /\ position[q] < Len(log[q]) /\ log[q][n] # "ignored"
      BY <1>1, <1>9 DEF TakeRecord, NextRecord
    <3> QED BY <3>1, LogFacts DEF IInv, LogBound
  <2>2. /\ current' = <<q, n>> /\ position'[q] = n /\ committed' = committed
        /\ phase' = "running" /\ ContentOf(current)' = log[q][n]
    BY <1>1, <1>9 DEF TakeRecord, NextRecord, kafka, ContentOf
  <2>3. committed[q] < n
    BY <1>1, <1>9, <2>1 DEF TakeRecord, NextRecord, IInv, Following
  <2>4. pc' = CASE log[q][n] = "invalid"   -> "commit"
                [] log[q][n] = "oversized" -> "reject"
                [] OTHER                   -> "query"
    BY <1>9 DEF TakeRecord
  <2>5. current' \notin Owed' \/ log[q][n] # "invalid"
    BY <2>2 DEF Owed
  <2>6. log[q][n] \in Contents \cup {"invalid", "oversized"}
    BY <2>1, AnchorAssumption DEF OtherKinds
  <2>7. /\ pc' \in {"commit", "reject", "query"}
        /\ pc' = "reject" => log[q][n] = "oversized"
        /\ pc' = "commit" => log[q][n] = "invalid"
        /\ pc' = "query" => log[q][n] \in Contents
    BY <2>4, <2>6
  <2> QED BY <2>1, <2>2, <2>3, <2>5, <2>7 DEF InProgress, Busy
<1>10. ASSUME UNCHANGED <<committed, position, current, phase>>,
              pc \in Busy, pc' \in Busy \ {"reject"},
              pc' # "commit" => ContentOf(current) \in Contents,
              pc' = "watch" => watched' > 0 /\ txs'[watched'].record = current,
              (pc' = "commit" /\ current \in Owed /\ reorgs' = 0) => current \in Settled'
       PROVE  InProgress'
  <2>1. phase' # "down" /\ ContentOf(current)' = ContentOf(current)
    BY <1>1, <1>10, CurrentFacts DEF ContentOf
  <2> QED BY <1>2, <1>10, <2>1, SettledStays DEF InProgress, Busy
<1>11. CASE PublishOversized
  <2>1. /\ UNCHANGED <<committed, position, current, phase>> /\ pc' = "commit"
        /\ pc = "reject" /\ ContentOf(current) = "oversized" /\ dlq' = dlq \cup {current}
    BY <1>2, <1>11 DEF PublishOversized, At, InProgress
  <2>2. current \in Owed => current \in Settled'
    BY <1>1, <2>1, SettledStays DEF Settled, ContentOf
  <2> QED BY <1>10, <2>1, <2>2 DEF Busy
<1>12. CASE CheckAnchored
  <2>1. /\ UNCHANGED <<committed, position, current, phase, txs, best, dlq>> /\ pc = "query"
        /\ pc' = IF Shows(ContentOf(current)) THEN "commit" ELSE "submit"
        /\ ContentOf(current) \in Contents
    BY <1>2, <1>12 DEF CheckAnchored, At, InProgress
  <2>2. current \in Owed /\ Shows(ContentOf(current)) => current \in Settled
    <3>1. ASSUME Shows(ContentOf(current))
          PROVE  Anchored(ContentOf(current))
      <4>1. OnChain \subseteq 0..best /\ best \in Nat /\ OnChain # {}
        BY <3>1 DEF OnChain, Shows, IInv, TypeOK
      <4>2. Max(OnChain) \in OnChain
        BY <4>1, MaxIsMember
      <4> QED BY <3>1, <4>2 DEF Shows, Anchored
    <3> QED BY <2>1, <3>1, ContentsAreBatches DEF Settled
  <2>3. current \in Owed /\ Shows(ContentOf(current)) /\ reorgs' = 0 => current \in Settled'
    BY <2>2, SettledStays
  <2> QED BY <1>10, <2>1, <2>3 DEF Busy
<1>13. CASE CheckFails
  <2>1. /\ UNCHANGED <<committed, position, current, phase>> /\ pc = "query" /\ pc' = "submit"
        /\ ContentOf(current) \in Contents
    BY <1>2, <1>13 DEF CheckFails, At, InProgress
  <2> QED BY <1>10, <2>1 DEF Busy
<1>14. CASE Submit
  <2>1. /\ UNCHANGED <<committed, position, current, phase>> /\ pc = "submit" /\ pc' = "watch"
        /\ ContentOf(current) \in Contents /\ watched' = Len(txs) + 1
    BY <1>2, <1>14 DEF Submit, At, InProgress
  <2>2. PICK ok \in BOOLEAN : txs' = Append(txs, [record |-> current, ok |-> ok])
    BY <1>14 DEF Submit
  <2>3. txs'[Len(txs) + 1].record = current /\ Len(txs) \in Nat
    <3>1. [record |-> current, ok |-> ok] \in Tx
      BY <2>1, CurrentFacts DEF Busy, Tx
    <3> QED BY <2>2, <3>1, AppendProperties, LenProperties DEF IInv, TypeOK, Tx
  <2> QED BY <1>10, <2>1, <2>3 DEF Busy
<1>15. CASE Finalized
  <2>1. /\ UNCHANGED <<committed, position, current, phase, txs, best, dlq>> /\ pc = "watch"
        /\ pc' = "commit" /\ ContentOf(current) \in Contents
        /\ watched > 0 /\ (watched <= Len(txs) => txs[watched].record = current)
        /\ watched <= final /\ txs[watched].ok
    BY <1>2, <1>15 DEF Finalized, At, InProgress
  <2>2. watched \in 1..best /\ watched <= Len(txs)
    BY <2>1, LenProperties DEF IInv, TypeOK
  <2>3. Anchored(ContentOf(current))
    BY <2>1, <2>2 DEF Anchored, OnChain
  <2>4. current \in Owed => current \in Settled
    BY <2>1, <2>3, ContentsAreBatches DEF Settled
  <2> QED BY <1>10, <2>1, <2>4, SettledStays DEF Busy
<1>16. CASE UNCHANGED vars
  BY <1>2, <1>3, <1>4, <1>16 DEF vars, InProgress, Busy
<1> QED BY <1>5, <1>6, <1>7, <1>8, <1>9, <1>11, <1>12, <1>13, <1>14, <1>15, <1>16 DEF Next

(* Every variable keeps its type.                                          *)
LEMMA TypeKept ==
  ASSUME IInv, [Next]_vars
  PROVE  TypeOK'
<1>1. TypeOK /\ log' = log
  BY CommitStep DEF IInv
<1>2. committed' \in [Partitions -> Nat]
  BY <1>1, CommitStep, CurrentFacts DEF TypeOK, Busy
<1>3. /\ dlq' \subseteq Record /\ txs' \in Seq([record : Record, ok : BOOLEAN])
      /\ final' \in 0..best' /\ best' \in 0..Len(txs') /\ reorgs' \in Nat
  BY ChainStep, TxsStep, LenProperties DEF Tx
<1>4. SUFFICES /\ position' \in [Partitions -> Nat]
               /\ current' \in Record \cup {<< >>}
               /\ watched' \in Nat /\ pc' \in Pcs /\ phase' \in Phases /\ faults' \in Nat
  BY <1>1, <1>2, <1>3 DEF TypeOK
<1>5. [p \in Partitions |-> 0] \in [Partitions -> Nat] /\ Len(txs) \in Nat
  BY <1>1, LenProperties DEF TypeOK
<1>6. CASE Include \/ Finalize \/ Reorg \/ DropFromPool \/ Stop \/ LoopEnds \/ Disconnect
  BY <1>1, <1>6 DEF Include, Finalize, Reorg, DropFromPool, Stop, LoopEnds, Disconnect, loop, TypeOK, Pcs, Phases
<1>7. CASE Exit \/ Crash \/ Restart
  BY <1>1, <1>5, <1>7 DEF Exit, Crash, Restart, ProcessLost, TypeOK, Pcs, Phases
<1>8. CASE \E p \in Partitions : SkipRecord(p)
  BY <1>1, <1>8 DEF SkipRecord, NextRecord, TypeOK
<1>9. CASE \E p \in Partitions : TakeRecord(p)
  <2>1. PICK p \in Partitions : TakeRecord(p)
    BY <1>9
  <2>2. position[p] \in Nat /\ position[p] < Len(log[p]) /\ Len(log[p]) \in 0..MaxPerPartition
    BY <1>1, <2>1, LogFacts DEF TakeRecord, NextRecord, TypeOK, IInv, LogBound
  <2>3. current' \in Record
    BY <2>1, <2>2, AnchorAssumption DEF TakeRecord, Record
  <2>4. pc' \in Pcs
    BY <2>1 DEF TakeRecord, Pcs
  <2> QED BY <1>1, <2>1, <2>2, <2>3, <2>4 DEF TakeRecord, NextRecord, TypeOK
<1>10. CASE PublishOversized \/ CheckAnchored \/ CheckFails \/ Finalized \/ Commit
  BY <1>1, <1>10 DEF PublishOversized, CheckAnchored, CheckFails, Finalized, Commit, At, TypeOK, Pcs
<1>11. CASE Submit
  <2>1. faults' \in Nat
    BY <1>1, <1>11 DEF Submit, TypeOK
  <2> QED BY <1>1, <1>5, <1>11, <2>1 DEF Submit, At, TypeOK, Pcs
<1>12. CASE AnchorRejected \/ CallFails
  BY <1>1, <1>5, <1>12 DEF AnchorRejected, CallFails, Rethrow, ProcessLost, TypeOK, Pcs, Phases
<1>13. CASE UNCHANGED vars
  BY <1>1, <1>13 DEF vars, TypeOK
<1> QED BY <1>6, <1>7, <1>8, <1>9, <1>10, <1>11, <1>12, <1>13 DEF Next

-----------------------------------------------------------------------------
(* The inductive invariant holds: what stands behind each committed offset *)
(* and what the loop knows at each of its awaits.                          *)
THEOREM Invariant == Spec => []IInv
<1>1. Init => IInv
  BY Initially
<1>2. IInv /\ [Next]_vars => IInv'
  BY TypeKept, BoundKept, FollowingKept, InProgressKept, SentKept, OrderKept, SettledKept DEF IInv
<1> QED BY <1>1, <1>2, PTL DEF Spec

(* Every variable has its type: no step of the loop, of a failure or of    *)
(* the chain leaves it.                                                    *)
THEOREM TypeCorrect == Spec => []TypeOK
<1>1. IInv => TypeOK
  BY DEF IInv
<1> QED BY <1>1, Invariant, PTL

(* The batches of a partition are submitted in the order of their offsets, *)
(* through failed calls, rejected extrinsics, crashes and reorganisations: *)
(* the loop never moves past a batch that it has not committed.            *)
THEOREM InOrder == Spec => []AnchoredInOrder
<1>1. IInv => AnchoredInOrder
  BY DEF IInv
<1> QED BY <1>1, Invariant, PTL

(* Up to the first reorganisation a step settles records or commits        *)
(* offsets with nothing unsettled below them, never both.                  *)
LEMMA StepImplements ==
  ASSUME IInv, IInv', [Next]_vars, reorgs' = 0
  PROVE  ALO!ALONext \/ UNCHANGED ALO!aloVars
<1>1. Owed' = Owed /\ Settled \subseteq Settled' /\ Settled' \subseteq Owed
  BY SettledStays DEF Settled
<1>2. CASE committed' = committed
  BY <1>1, <1>2 DEF ALO!ALONext, ALO!SettleRecords
<1>3. CASE pc = "commit" /\ committed' = [committed EXCEPT ![current[1]] = current[2]]
  <2>1. committed \in [Partitions -> Nat] /\ committed' \in [Partitions -> Nat]
    BY DEF IInv, TypeOK
  <2>2. \A p \in Partitions : committed[p] <= committed'[p]
    BY <1>3, <2>1, CurrentFacts DEF Busy
  <2>3. UNCHANGED <<txs, best, dlq, log>>
    <3>1. CASE Commit
      BY <3>1, CommitStep DEF Commit
    <3>2. CASE CallFails
      BY <1>3, <3>2, CommitStep DEF CallFails
    <3>3. CASE committed' = committed
      BY <1>3, <2>1, <3>3, CurrentFacts DEF Busy
    <3>4. CASE Include \/ Finalize \/ Reorg \/ DropFromPool \/ Stop \/ LoopEnds \/ Disconnect \/ Exit \/ Crash \/ Restart
      BY <3>3, <3>4 DEF Include, Finalize, Reorg, DropFromPool, Stop, LoopEnds, Disconnect, Exit, Crash, Restart, kafka
    <3>5. CASE \E p \in Partitions : SkipRecord(p) \/ TakeRecord(p)
      BY <3>3, <3>5 DEF SkipRecord, TakeRecord, NextRecord, kafka
    <3>6. CASE PublishOversized \/ CheckAnchored \/ CheckFails \/ Submit \/ Finalized \/ AnchorRejected
      BY <3>3, <3>6 DEF PublishOversized, CheckAnchored, CheckFails, Submit, Finalized, AnchorRejected, kafka
    <3>7. CASE UNCHANGED vars
      BY <3>3, <3>7 DEF vars
    <3> QED BY <3>1, <3>2, <3>4, <3>5, <3>6, <3>7 DEF Next
  <2>4. Settled' = Settled
    BY <1>1, <2>3 DEF Settled, Anchored, OnChain, ContentOf
  <2>5. \A p \in Partitions : ALO!Unsettled(p, committed'[p]) = {}
    <3> SUFFICES ASSUME NEW p \in Partitions, NEW n \in 1..committed'[p],
                        <<p, n>> \in Owed, <<p, n>> \notin Settled
                 PROVE  FALSE
      BY DEF ALO!Unsettled
    <3>1. n <= committed'[p] /\ <<p, n>>[1] = p /\ <<p, n>>[2] = n
      BY <2>1
    <3> QED BY <1>1, <2>4, <3>1 DEF IInv, CommittedIsSettled
  <2> QED BY <1>1, <2>1, <2>2, <2>4, <2>5 DEF ALO!ALONext, ALO!CommitOffsets
<1> QED BY <1>2, <1>3, CommitStep

(* The anchor implements the at-least-once consumer: it commits an offset  *)
(* only when each batch up to it is on the chain or in the DLQ, and until  *)
(* the first reorganisation no outcome is taken back.                      *)
THEOREM Refinement == Spec => ImplementsAtLeastOnce
<1>1. Init => ALO!ALOInit
  <2> SUFFICES ASSUME Init
               PROVE  ALO!ALOInit
    OBVIOUS
  <2>1. Owed \subseteq Partitions \X (Nat \ {0})
    BY DEF Owed, Record
  <2>2. Settled = {}
    BY DEF Init, Settled, Anchored, OnChain
  <2> QED BY <2>1, <2>2 DEF ALO!ALOInit, Init
<1>2. IInv /\ IInv' /\ [Next]_vars => [reorgs' = 0 => ALO!ALONext]_(ALO!aloVars)
  BY StepImplements
<1> QED BY <1>1, <1>2, Invariant, PTL DEF Spec, ImplementsAtLeastOnce

-----------------------------------------------------------------------------
(* What a failure costs.                                                   *)

(* The records of a stretch of extrinsics are no more than the extrinsics. *)
LEMMA RecordsOfStretch ==
  ASSUME NEW s, NEW a \in Nat, NEW b \in Nat, a <= b
  PROVE  LET T == {s[k].record : k \in (a + 1)..b}
         IN  IsFiniteSet(T) /\ Cardinality(T) \in Nat /\ Cardinality(T) <= b - a
<1> DEFINE T == {s[k].record : k \in (a + 1)..b}
           f == [k \in (a + 1)..b |-> s[k].record]
<1>1. f \in Surjection((a + 1)..b, T)
  BY DEF Surjection, Range
<1>2. IsFiniteSet((a + 1)..b) /\ Cardinality((a + 1)..b) = IF a + 1 > b THEN 0 ELSE b - (a + 1) + 1
  BY FS_Interval
<1>3. Cardinality((a + 1)..b) = b - a
  BY <1>2
<1> HIDE DEF T, f
<1>4. IsFiniteSet(T) /\ Cardinality(T) <= b - a
  BY <1>1, <1>2, <1>3, FS_Surjection
<1>5. Cardinality(T) \in Nat
  BY <1>4, FS_CardinalityType
<1> QED BY <1>4, <1>5 DEF T

(* A set with at most one element that S has not.                          *)
LEMMA OneMore ==
  ASSUME NEW S, IsFiniteSet(S), NEW x, NEW T, T \subseteq S \cup {x}
  PROVE  /\ IsFiniteSet(T) /\ Cardinality(T) \in Nat /\ Cardinality(S) \in Nat
         /\ Cardinality(T) <= Cardinality(S) + 1
         /\ T \subseteq S => Cardinality(T) <= Cardinality(S)
         /\ (x \in S /\ x \notin T) => Cardinality(T) <= Cardinality(S) - 1
<1>1. /\ IsFiniteSet(S \cup {x}) /\ Cardinality(S) \in Nat
      /\ Cardinality(S \cup {x}) = IF x \in S THEN Cardinality(S) ELSE Cardinality(S) + 1
  BY FS_AddElement, FS_CardinalityType
<1>2. IsFiniteSet(T) /\ Cardinality(T) <= Cardinality(S \cup {x})
  BY <1>1, FS_Subset
<1>3. Cardinality(T) \in Nat
  BY <1>2, FS_CardinalityType
<1>4. Cardinality(T) <= Cardinality(S) + 1
  BY <1>1, <1>2, <1>3
<1>5. T \subseteq S => Cardinality(T) <= Cardinality(S)
  BY FS_Subset
<1>6. ASSUME x \in S, x \notin T PROVE Cardinality(T) <= Cardinality(S) - 1
  <2>1. T \in SUBSET (S \ {x}) /\ IsFiniteSet(S \ {x}) /\ Cardinality(S \ {x}) = Cardinality(S) - 1
    BY <1>6, FS_RemoveElement
  <2> QED BY <2>1, FS_Subset
<1> QED BY <1>1, <1>2, <1>3, <1>4, <1>5, <1>6

(* The records sent so far, and those at risk.                             *)
LEMMA SentFacts ==
  ASSUME IInv
  PROVE  /\ IsFiniteSet(SentRecords) /\ IsFiniteSet(AtRisk) /\ Len(txs) \in Nat
         /\ AtRisk \subseteq SentRecords
         /\ \A r \in SentRecords : r \in Record /\ r[1] \in Partitions /\ r[2] \in Nat
<1>1. txs \in Seq(Tx) /\ Len(txs) \in Nat
  BY LenProperties DEF IInv, TypeOK, Tx
<1>2. \A k \in 1..Len(txs) : txs[k] \in Tx
  BY <1>1, ElementOfSeq
<1>3. \A r \in SentRecords : r \in Record /\ r[1] \in Partitions /\ r[2] \in Nat
  BY <1>2 DEF SentRecords, Tx, Record
<1>4. \A a \in Nat : a <= Len(txs) => IsFiniteSet({txs[k].record : k \in (a + 1)..Len(txs)})
  BY <1>1, RecordsOfStretch
<1>5. IsFiniteSet(SentRecords)
  <2>1. PICK a \in Nat : a = 0
    OBVIOUS
  <2>2. (a + 1)..Len(txs) = 1..Len(txs)
    BY <2>1
  <2> QED BY <1>1, <1>4, <2>1, <2>2 DEF SentRecords
<1>6. AtRisk \subseteq SentRecords
  BY DEF AtRisk
<1> QED BY <1>1, <1>3, <1>5, <1>6, FS_Subset

(* No step takes a commit back.                                            *)
LEMMA CommittedGrows ==
  ASSUME IInv, [Next]_vars
  PROVE  \A p \in Partitions : /\ committed[p] \in Nat /\ committed'[p] \in Nat
                               /\ committed[p] <= committed'[p]
<1>1. committed \in [Partitions -> Nat]
  BY DEF IInv, TypeOK
<1>2. CASE pc = "commit" /\ committed' = [committed EXCEPT ![current[1]] = current[2]]
  BY <1>1, <1>2, CurrentFacts DEF Busy
<1> QED BY <1>1, <1>2, CommitStep

(* A step that sends nothing: unless it is a failure, a record the loop is *)
(* about to commit stays so or is committed.                               *)
LEMMA CostQuiet ==
  ASSUME IInv, CostInv, [Next]_vars, txs' = txs,
         \/ faults' = faults + 1
         \/ /\ faults' = faults
            /\ Landing => \/ Landing' /\ current' = current
                          \/ current[2] <= committed'[current[1]],
         phase' = "closed" => pc' = "done"
  PROVE  CostInv'
<1>1. /\ IsFiniteSet(SentRecords) /\ IsFiniteSet(AtRisk) /\ Len(txs) \in Nat /\ faults \in Nat
      /\ SentRecords' = SentRecords
      /\ \A r \in SentRecords : r[1] \in Partitions /\ r[2] \in Nat
  BY SentFacts DEF SentRecords, IInv, TypeOK
<1>2. ASSUME NEW r \in AtRisk', r \notin AtRisk
      PROVE  /\ r = current /\ Landing
             /\ ~(Landing' /\ current' = current) /\ ~(current[2] <= committed'[current[1]])
  <2>1. r \in SentRecords /\ committed'[r[1]] < r[2] /\ ~(Landing' /\ r = current')
    BY <1>1, <1>2 DEF AtRisk
  <2>2. committed[r[1]] < r[2] /\ ~(r[2] <= committed'[r[1]])
    BY <1>1, <2>1, CommittedGrows
  <2> QED BY <1>2, <2>1, <2>2 DEF AtRisk
<1>3. AtRisk' \subseteq AtRisk \cup {current}
  BY <1>2
<1>4. faults' = faults => AtRisk' \subseteq AtRisk
  BY <1>1, <1>2
<1>5. PICK m \in Nat, n \in Nat, u \in Nat :
        /\ m = Cardinality(AtRisk) /\ n = Cardinality(SentRecords) /\ u = Cardinality(AtRisk')
        /\ u <= m + 1
        /\ faults' = faults => u <= m
  BY <1>1, <1>3, <1>4, OneMore, FS_CardinalityType
<1>6. Len(txs) + m <= n + faults
  BY <1>5 DEF CostInv
<1>7. Len(txs) + u <= n + faults'
  BY <1>1, <1>5, <1>6
<1> QED BY <1>1, <1>5, <1>7 DEF CostInv

(* The batch in progress is submitted.  If it had been before, it was at   *)
(* risk, and is no more, unless the step is a failure.                     *)
LEMMA CostSend ==
  ASSUME IInv, CostInv, [Next]_vars, pc = "submit", NEW ok \in BOOLEAN,
         txs' = Append(txs, [record |-> current, ok |-> ok]),
         committed' = committed,
         \/ faults' = faults + 1
         \/ faults' = faults /\ Landing' /\ current' = current,
         phase' = "closed" => pc' = "done"
  PROVE  CostInv'
<1>1. /\ IsFiniteSet(SentRecords) /\ IsFiniteSet(AtRisk) /\ Len(txs) \in Nat /\ faults \in Nat
      /\ txs \in Seq(Tx) /\ AtRisk \subseteq SentRecords
      /\ \A r \in SentRecords : r[1] \in Partitions /\ r[2] \in Nat
  BY SentFacts DEF IInv, TypeOK, Tx
<1>2. /\ Len(txs') = Len(txs) + 1
      /\ \A k \in 1..Len(txs) : txs'[k] = txs[k]
      /\ txs'[Len(txs) + 1].record = current
  <2>1. [record |-> current, ok |-> ok] \in Tx
    BY CurrentFacts DEF Busy, Tx
  <2> QED BY <1>1, <2>1, AppendProperties
<1>3. SentRecords' = SentRecords \cup {current}
  <2>1. \A k \in 1..(Len(txs) + 1) : k \in 1..Len(txs) \/ k = Len(txs) + 1
    BY <1>1
  <2>2. Len(txs) + 1 \in 1..(Len(txs) + 1) /\ \A k \in 1..Len(txs) : k \in 1..(Len(txs) + 1)
    BY <1>1
  <2> QED BY <1>2, <2>1, <2>2 DEF SentRecords
<1>4. current \in SentRecords => current \in AtRisk
  BY CurrentFacts DEF AtRisk, Landing, Busy
<1>5. AtRisk' \subseteq AtRisk \cup {current}
  BY <1>3 DEF AtRisk, Landing
<1>6. faults' = faults => current \notin AtRisk'
  BY <1>1 DEF AtRisk
<1>7. PICK m \in Nat, u \in Nat :
        /\ m = Cardinality(AtRisk) /\ u = Cardinality(AtRisk')
        /\ u <= m + 1
        /\ AtRisk' \subseteq AtRisk => u <= m
        /\ (current \in AtRisk /\ current \notin AtRisk') => u <= m - 1
  BY <1>1, <1>5, OneMore
<1>8. PICK n \in Nat : n = Cardinality(SentRecords)
  BY <1>1, FS_CardinalityType
<1>9. Cardinality(SentRecords') = IF current \in SentRecords THEN n ELSE n + 1
  BY <1>1, <1>3, <1>8, FS_AddElement
<1>10. Len(txs) + m <= n + faults
  BY <1>7, <1>8 DEF CostInv
<1>11. CASE current \in SentRecords
  <2>1. AtRisk' \subseteq AtRisk
    BY <1>4, <1>5, <1>11
  <2>2. Len(txs) + 1 + u <= n + faults'
    BY <1>1, <1>4, <1>6, <1>7, <1>10, <1>11, <2>1
  <2> QED BY <1>2, <1>7, <1>9, <1>11, <2>2 DEF CostInv
<1>12. CASE current \notin SentRecords
  <2>1. faults' = faults => AtRisk' \subseteq AtRisk
    BY <1>5, <1>6
  <2>2. Len(txs) + 1 + u <= n + 1 + faults'
    BY <1>1, <1>7, <1>10, <2>1
  <2> QED BY <1>2, <1>7, <1>9, <1>12, <2>2 DEF CostInv
<1> QED BY <1>11, <1>12

(* The pool drops extrinsics: it drops no more records than extrinsics.    *)
LEMMA CostDrop ==
  ASSUME IInv, CostInv, [Next]_vars, DropFromPool
  PROVE  CostInv'
<1>1. /\ IsFiniteSet(SentRecords) /\ IsFiniteSet(AtRisk) /\ faults \in Nat
      /\ txs \in Seq(Tx)
  BY SentFacts DEF IInv, TypeOK, Tx
<1>2. PICK l \in Nat : l = Len(txs)
  BY SentFacts
<1>3. PICK n \in best..(l - 1) : txs' = SubSeq(txs, 1, n)
  BY <1>2 DEF DropFromPool
<1>4. /\ n \in Nat /\ n <= l /\ \A k \in 1..n : k \in 1..l /\ txs[k] \in Tx
  <2>1. best \in Nat
    BY <1>2 DEF IInv, TypeOK
  <2>2. n \in Nat /\ n <= l /\ \A k \in 1..n : k \in 1..l
    BY <2>1
  <2> QED BY <1>1, <1>2, <2>2, ElementOfSeq
<1>5. Len(txs') = n /\ \A k \in 1..n : txs'[k] = txs[k]
  BY <1>1, <1>3, <1>4, SubSeqProperties
<1> DEFINE T == {txs[k].record : k \in (n + 1)..l}
<1>6. SentRecords \subseteq SentRecords' \cup T /\ SentRecords' \subseteq SentRecords
  <2>1. \A k \in 1..l : k \in 1..n \/ k \in (n + 1)..l
    BY <1>4
  <2> QED BY <1>2, <1>4, <1>5, <2>1 DEF SentRecords
<1>7. IsFiniteSet(T) /\ Cardinality(T) \in Nat /\ Cardinality(T) <= l - n
  BY <1>4, RecordsOfStretch
<1>8. IsFiniteSet(SentRecords') /\ Cardinality(SentRecords') \in Nat
  BY <1>1, <1>6, FS_Subset, FS_CardinalityType
<1> HIDE DEF T
<1>9. Cardinality(SentRecords) <= Cardinality(SentRecords') + Cardinality(T)
  <2>1. /\ IsFiniteSet(SentRecords' \cup T)
        /\ Cardinality(SentRecords' \cup T)
             = Cardinality(SentRecords') + Cardinality(T) - Cardinality(SentRecords' \cap T)
    BY <1>7, <1>8, FS_Union
  <2>2. Cardinality(SentRecords' \cap T) \in Nat
    BY <1>8, FS_Intersection, FS_CardinalityType
  <2>3. Cardinality(SentRecords) <= Cardinality(SentRecords' \cup T) /\ Cardinality(SentRecords) \in Nat
    BY <1>1, <1>6, <2>1, FS_Subset, FS_CardinalityType
  <2> QED BY <1>7, <1>8, <2>1, <2>2, <2>3
<1>10. /\ faults' = faults + 1 /\ committed' = committed /\ current' = current /\ pc' = pc
       /\ phase' = phase
  BY DEF DropFromPool, kafka, loop
<1>11. AtRisk' \subseteq AtRisk \cup {current}
  BY <1>6, <1>10 DEF AtRisk
<1>12. PICK m \in Nat, u \in Nat :
         m = Cardinality(AtRisk) /\ u = Cardinality(AtRisk') /\ u <= m + 1
  BY <1>1, <1>11, OneMore
<1>13. PICK a \in Nat, b \in Nat, c \in Nat :
         /\ a = Cardinality(SentRecords) /\ b = Cardinality(SentRecords') /\ c = Cardinality(T)
         /\ a <= b + c /\ c <= l - n
  BY <1>1, <1>7, <1>8, <1>9, FS_CardinalityType
<1>14. l + m <= a + faults
  BY <1>2, <1>12, <1>13 DEF CostInv
<1>15. n + u <= b + faults'
  <2>1. n \in Nat /\ n <= l /\ faults \in Nat /\ faults' = faults + 1
    BY <1>1, <1>4, <1>10
  <2>2. c <= l - n /\ u <= m + 1 /\ a <= b + c
    BY <1>12, <1>13
  <2>3. n + c <= l
    BY <2>1, <2>2
  <2> QED BY <1>14, <2>1, <2>2, <2>3
<1> QED BY <1>5, <1>10, <1>12, <1>13, <1>15 DEF CostInv

(* A step that keeps the extrinsics the loop is about to commit, and the   *)
(* loop's place, keeps Landing.                                            *)
LEMMA LandingKept ==
  ASSUME txs' = txs, pc' = pc, watched' = watched, current' = current
  PROVE  Landing => Landing' /\ current' = current
BY DEF Landing

(* Every step keeps CostInv.                                               *)
LEMMA CostKept ==
  ASSUME IInv, CostInv, [Next]_vars
  PROVE  CostInv'
<1> USE DEF kafka, chain, loop, At
<1>0. phase = "closed" => pc = "done"
  BY DEF CostInv
<1>1. CASE Include \/ Finalize \/ Reorg
  <2>1. /\ txs' = txs /\ pc' = pc /\ watched' = watched /\ current' = current
        /\ faults' = faults /\ phase' = phase
    BY <1>1 DEF Include, Finalize, Reorg
  <2> QED BY <1>0, <2>1, LandingKept, CostQuiet
<1>2. CASE DropFromPool
  BY <1>2, CostDrop
<1>3. ASSUME NEW p \in Partitions, SkipRecord(p) \/ TakeRecord(p)
      PROVE  CostInv'
  <2>1. txs' = txs /\ faults' = faults /\ phase' = "running" /\ pc = "await"
    BY <1>3 DEF SkipRecord, TakeRecord, NextRecord
  <2> QED BY <2>1, CostQuiet DEF Landing
<1>4. CASE PublishOversized \/ CheckAnchored
  <2>1. txs' = txs /\ faults' = faults /\ phase' = phase /\ pc \in {"reject", "query"}
    BY <1>4 DEF PublishOversized, CheckAnchored
  <2> QED BY <1>0, <2>1, CostQuiet DEF Landing
<1>5. CASE CheckFails
  BY <1>0, <1>5, CostQuiet DEF CheckFails
<1>6. CASE Submit
  <2>1. PICK ok \in BOOLEAN :
          /\ txs' = Append(txs, [record |-> current, ok |-> ok])
          /\ IF ok THEN UNCHANGED faults ELSE faults' = faults + 1
    BY <1>6 DEF Submit
  <2>2. /\ pc = "submit" /\ pc' = "watch" /\ watched' = Len(txs) + 1 /\ current' = current
        /\ committed' = committed /\ phase' = phase
    BY <1>6 DEF Submit
  <2>3. ASSUME ok PROVE Landing'
    <3>1. Len(txs') = Len(txs) + 1 /\ txs'[Len(txs) + 1] = [record |-> current, ok |-> ok]
      <4>1. txs \in Seq(Tx) /\ [record |-> current, ok |-> ok] \in Tx
        BY <2>2, CurrentFacts DEF IInv, TypeOK, Busy, Tx
      <4> QED BY <2>1, <4>1, AppendProperties
    <3> QED BY <2>2, <2>3, <3>1, SentFacts DEF Landing
  <2> QED BY <1>0, <2>1, <2>2, <2>3, CostSend
<1>7. CASE Finalized
  <2>1. txs' = txs /\ faults' = faults /\ phase' = phase /\ pc' = "commit" /\ pc = "watch" /\ current' = current
    BY <1>7 DEF Finalized
  <2> QED BY <1>0, <2>1, CostQuiet DEF Landing
<1>8. CASE Commit
  <2>1. txs' = txs /\ faults' = faults /\ phase' = phase /\ pc = "commit"
    BY <1>8 DEF Commit
  <2>2. current[2] <= committed'[current[1]]
    BY <1>8, <2>1, CurrentFacts DEF Commit, IInv, TypeOK, Busy
  <2> QED BY <1>0, <2>1, <2>2, CostQuiet
<1>9. CASE AnchorRejected
  <2>1. ~Landing
    <3>1. watched \in Nat /\ final \in Nat /\ best \in Nat /\ Len(txs) \in Nat /\ final <= Len(txs)
      BY SentFacts DEF IInv, TypeOK
    <3> QED BY <1>9, <3>1 DEF AnchorRejected, Landing
  <2>2. txs' = txs /\ faults' = faults /\ phase' # "closed"
    BY <1>9 DEF AnchorRejected, Rethrow, ProcessLost
  <2> QED BY <2>1, <2>2, CostQuiet
<1>10. CASE CallFails
  <2>1. faults' = faults + 1 /\ phase' # "closed"
    BY <1>10 DEF CallFails, Rethrow, ProcessLost
  <2>2. CASE txs' = txs
    BY <2>1, <2>2, CostQuiet
  <2>3. CASE txs' # txs
    <3>1. /\ pc = "submit" /\ committed' = committed
          /\ txs' = Append(txs, [record |-> current, ok |-> TRUE])
      BY <1>10, <2>3 DEF CallFails
    <3> QED BY <2>1, <3>1, CostSend
  <2> QED BY <2>2, <2>3
<1>11. CASE Stop \/ Disconnect
  <2>1. /\ txs' = txs /\ pc' = pc /\ watched' = watched /\ current' = current
        /\ faults' = faults /\ (phase' = "closed" => pc' = "done")
    BY <1>11 DEF Stop, Disconnect
  <2> QED BY <2>1, LandingKept, CostQuiet
<1>12. CASE LoopEnds
  BY <1>12, CostQuiet DEF LoopEnds, Landing
<1>13. CASE Exit
  <2>1. pc = "done" /\ txs' = txs /\ faults' = faults /\ phase' = "down"
    BY <1>0, <1>13 DEF Exit, ProcessLost
  <2> QED BY <2>1, CostQuiet DEF Landing
<1>14. CASE Crash
  BY <1>14, CostQuiet DEF Crash, ProcessLost
<1>15. CASE Restart
  <2>1. txs' = txs /\ pc' = pc /\ watched' = watched /\ current' = current /\ faults' = faults
        /\ phase' = "running"
    BY <1>15 DEF Restart
  <2> QED BY <2>1, LandingKept, CostQuiet
<1>16. CASE UNCHANGED vars
  <2>1. txs' = txs /\ pc' = pc /\ watched' = watched /\ current' = current /\ faults' = faults
        /\ phase' = phase
    BY <1>16 DEF vars
  <2> QED BY <1>0, <2>1, LandingKept, CostQuiet
<1> QED
  BY <1>1, <1>2, <1>3, <1>4, <1>5, <1>6, <1>7, <1>8, <1>9, <1>10, <1>11, <1>12, <1>13, <1>14,
     <1>15, <1>16 DEF Next

(* No more extrinsics are submitted than there are batches submitted and   *)
(* failures, whatever the chain and the process did meanwhile.             *)
THEOREM DuplicatesCostFaults == Spec => []DuplicatesWithinFaults
<1>1. Init => CostInv
  <2> SUFFICES ASSUME Init PROVE CostInv
    OBVIOUS
  <2>1. Len(txs) = 0 /\ phase = "running" /\ faults = 0
    BY DEF Init
  <2>2. SentRecords = {} /\ AtRisk = {}
    BY <2>1 DEF SentRecords, AtRisk
  <2>3. Cardinality({}) = 0
    BY FS_EmptySet
  <2> QED BY <2>1, <2>2, <2>3 DEF CostInv
<1>2. IInv /\ CostInv /\ [Next]_vars => CostInv'
  BY CostKept
<1>3. IInv /\ CostInv => DuplicatesWithinFaults
  <2> SUFFICES ASSUME IInv, CostInv PROVE DuplicatesWithinFaults
    OBVIOUS
  <2>1. PICK m \in Nat, n \in Nat : m = Cardinality(AtRisk) /\ n = Cardinality(SentRecords)
    BY SentFacts, FS_CardinalityType
  <2>2. Len(txs) \in Nat /\ faults \in Nat
    BY SentFacts DEF IInv, TypeOK
  <2>3. Len(txs) + m <= n + faults
    BY <2>1 DEF CostInv
  <2>4. Len(txs) <= n + faults
    BY <2>1, <2>2, <2>3
  <2> QED BY <2>1, <2>4 DEF DuplicatesWithinFaults
<1> QED BY <1>1, <1>2, <1>3, Invariant, PTL DEF Spec

-----------------------------------------------------------------------------
(* What the check of the chain is worth on a log of one partition.         *)

(* Only a check that got its answer goes on to submit without a failure.   *)
LEMMA CheckedStep ==
  ASSUME IInv, [Next]_vars, pc = "query", pc' = "submit", faults' = faults
  PROVE  ~Shows(ContentOf(current))
<1> USE DEF kafka, chain, loop, At
<1>1. faults \in Nat
  BY DEF IInv, TypeOK
<1>2. CASE Include \/ Finalize \/ Reorg \/ DropFromPool \/ Stop \/ Disconnect \/ Restart
  BY <1>2 DEF Include, Finalize, Reorg, DropFromPool, Stop, Disconnect, Restart
<1>3. CASE \E p \in Partitions : SkipRecord(p) \/ TakeRecord(p)
  BY <1>3 DEF SkipRecord, TakeRecord, NextRecord
<1>4. CASE PublishOversized \/ Submit \/ Finalized \/ Commit \/ LoopEnds
  BY <1>4 DEF PublishOversized, Submit, Finalized, Commit, LoopEnds
<1>5. CASE AnchorRejected \/ CallFails \/ Exit \/ Crash
  BY <1>5 DEF AnchorRejected, CallFails, Exit, Crash, Rethrow, ProcessLost
<1>6. CASE CheckAnchored
  BY <1>6 DEF CheckAnchored
<1>7. CASE CheckFails
  BY <1>1, <1>7 DEF CheckFails
<1>8. CASE UNCHANGED vars
  BY <1>8 DEF vars
<1> QED BY <1>2, <1>3, <1>4, <1>5, <1>6, <1>7, <1>8 DEF Next

(* On such a log the payload the chain shows is that of the record in      *)
(* progress as soon as the chain holds it: the extrinsics are in the order *)
(* of the offsets, and none is beyond a batch that is not committed.       *)
LEMMA AnchoredShows ==
  ASSUME IInv, SoleKey, pc = "query", Anchored(ContentOf(current))
  PROVE  Shows(ContentOf(current))
<1>1. /\ current \in Record /\ current = <<current[1], current[2]>>
      /\ current[1] \in Partitions /\ current[2] \in Nat /\ current[2] >= 1
      /\ current[2] <= Len(log[current[1]])
      /\ committed[current[1]] < current[2] /\ committed[current[1]] \in Nat
      /\ ContentOf(current) # "ignored" /\ ContentOf(current) \in Contents
  BY CurrentFacts DEF Busy, IInv, InProgress, TypeOK
<1>2. /\ OnChain \subseteq 0..best /\ best \in Nat
      /\ \A k \in OnChain :
           /\ k \in Nat /\ k \in 1..Len(txs)
           /\ txs[k].record \in Record
           /\ txs[k].record = <<txs[k].record[1], txs[k].record[2]>>
           /\ txs[k].record[1] \in Partitions
           /\ txs[k].record[2] \in Nat /\ txs[k].record[2] >= 1
           /\ txs[k].record[2] <= Len(log[txs[k].record[1]])
           /\ ContentOf(txs[k].record) \in Contents
           /\ Ignored(txs[k].record[1], committed[txs[k].record[1]] + 1, txs[k].record[2] - 1)
  <2>1. txs \in Seq(Tx) /\ Len(txs) \in Nat /\ best \in 0..Len(txs)
    BY SentFacts DEF IInv, TypeOK, Tx
  <2>2. ASSUME NEW k \in OnChain PROVE k \in Nat /\ k \in 1..Len(txs) /\ k \in 0..best
    BY <2>1 DEF OnChain
  <2>3. ASSUME NEW k \in OnChain
        PROVE  /\ txs[k].record \in Record
               /\ txs[k].record = <<txs[k].record[1], txs[k].record[2]>>
               /\ txs[k].record[1] \in Partitions
               /\ txs[k].record[2] \in Nat /\ txs[k].record[2] >= 1
    <3>1. txs[k] \in Tx
      BY <2>1, <2>2, ElementOfSeq
    <3>2. txs[k].record \in Partitions \X (1..MaxPerPartition)
      BY <3>1 DEF Tx, Record
    <3> QED BY <3>2 DEF Record
  <2> QED BY <2>1, <2>2, <2>3 DEF IInv, Sent, ContentOf
<1>3. PICK k \in OnChain : ContentOf(txs[k].record) = ContentOf(current)
  BY DEF Anchored
<1>4. PICK m \in OnChain : m = Max(OnChain) /\ k <= m
  BY <1>2, <1>3, MaxIsMember
<1>5. txs[k].record = current
  BY <1>1, <1>2, <1>3 DEF SoleKey, Repeats, ContentOf
<1>6. txs[m].record[1] = current[1]
  <2>1. Len(<< >>) = 0
    OBVIOUS
  <2>2. log[txs[m].record[1]] # << >> /\ log[current[1]] # << >>
    BY <1>1, <1>2, <2>1
  <2> QED BY <1>1, <1>2, <2>2 DEF SoleKey
<1>7. current[2] <= txs[m].record[2]
  <2>1. CASE k = m
    BY <1>1, <1>5, <2>1
  <2>2. CASE k < m
    BY <1>2, <1>5, <1>6, <2>2 DEF IInv, AnchoredInOrder
  <2> QED BY <1>2, <1>4, <2>1, <2>2
<1>8. txs[m].record[2] <= current[2]
  <2> SUFFICES ASSUME current[2] < txs[m].record[2] PROVE FALSE
    BY <1>1, <1>2
  <2>1. current[2] \in (committed[current[1]] + 1)..(txs[m].record[2] - 1)
    BY <1>1, <1>2
  <2>2. log[current[1]][current[2]] = "ignored"
    BY <1>2, <1>6, <2>1 DEF Ignored
  <2> QED BY <1>1, <2>2 DEF ContentOf
<1>9. txs[m].record[2] = current[2]
  BY <1>1, <1>2, <1>7, <1>8
<1>10. txs[m].record = current
  BY <1>1, <1>2, <1>6, <1>9
<1> QED BY <1>3, <1>4, <1>10 DEF Shows

(* A batch that the chain has included is not submitted again by a check   *)
(* that got its answer, if one partition has all the batches and no        *)
(* payload comes twice.                                                    *)
THEOREM SoleBatchAnchoredOnce == Spec => SoleAnchoredIsSkipped
<1>1. IInv /\ [Next]_vars => [SoleKey => ~Resubmits]_vars
  BY CheckedStep, AnchoredShows DEF Resubmits
<1> QED BY <1>1, Invariant, PTL DEF Spec, SoleAnchoredIsSkipped

=============================================================================
