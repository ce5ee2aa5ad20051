--------------------------- MODULE BatcherProofs ---------------------------
(***************************************************************************)
(* What the batcher promises, for every set of partitions, batch size, log *)
(* and number of faults.                                                   *)
(***************************************************************************)
EXTENDS Batcher, SequenceTheorems, WellFoundedInduction, TLAPS

-----------------------------------------------------------------------------
(* Lemmas about the data the model is built from.                          *)

(* The elements of a concatenation are the elements of its parts.          *)
LEMMA RangeConcat ==
  ASSUME NEW S, NEW s \in Seq(S), NEW t \in Seq(S)
  PROVE  Range(s \o t) = Range(s) \cup Range(t)
<1>1. /\ s \o t \in Seq(S)
      /\ Len(s) \in Nat /\ Len(t) \in Nat
      /\ DOMAIN s = 1..Len(s) /\ DOMAIN t = 1..Len(t)
      /\ DOMAIN (s \o t) = 1..(Len(s) + Len(t))
      /\ \A i \in 1..(Len(s) + Len(t)) : (s \o t)[i] = IF i <= Len(s) THEN s[i] ELSE t[i - Len(s)]
  BY ConcatProperties, LenProperties
<1>2. ASSUME NEW x \in Range(s \o t) PROVE x \in Range(s) \cup Range(t)
  <2>1. PICK i \in 1..(Len(s) + Len(t)) : (s \o t)[i] = x
    BY <1>1, <1>2 DEF Range
  <2>2. CASE i <= Len(s)
    BY <1>1, <2>1, <2>2 DEF Range
  <2>3. CASE i > Len(s)
    <3>1. i - Len(s) \in 1..Len(t) /\ x = t[i - Len(s)]
      BY <1>1, <2>1, <2>3
    <3> QED BY <1>1, <3>1 DEF Range
  <2> QED BY <1>1, <2>1, <2>2, <2>3
<1>3. ASSUME NEW x \in Range(s) PROVE x \in Range(s \o t)
  <2>1. PICK i \in 1..Len(s) : s[i] = x
    BY <1>1, <1>3 DEF Range
  <2>2. i \in 1..(Len(s) + Len(t)) /\ (s \o t)[i] = x
    BY <1>1, <2>1
  <2> QED BY <1>1, <2>2 DEF Range
<1>4. ASSUME NEW x \in Range(t) PROVE x \in Range(s \o t)
  <2>1. PICK i \in 1..Len(t) : t[i] = x
    BY <1>1, <1>4 DEF Range
  <2>2. Len(s) + i \in 1..(Len(s) + Len(t)) /\ (s \o t)[Len(s) + i] = x
    BY <1>1, <2>1
  <2> QED BY <1>1, <2>2 DEF Range
<1> QED BY <1>2, <1>3, <1>4

(* The elements of a sequence over S are in S.                             *)
LEMMA SeqElements ==
  ASSUME NEW S, NEW s \in Seq(S)
  PROVE  /\ \A x \in Range(s) : x \in S
         /\ s = << >> <=> Range(s) = {}
<1>2. s = << >> <=> Range(s) = {}
  <2>1. s = << >> => Range(s) = {}
    BY DEF Range
  <2>2. s # << >> => s[1] \in Range(s)
    BY LenProperties, EmptySeq DEF Range
  <2> QED BY <2>1, <2>2
<1>1. ASSUME NEW x \in Range(s) PROVE x \in S
  <2>1. PICK k \in 1..Len(s) : s[k] = x
    BY LenProperties DEF Range
  <2> QED BY <2>1, ElementOfSeq
<1> QED BY <1>1, <1>2

(* A nonempty set of naturals with an upper bound has a maximum.           *)
LEMMA MaxOfBounded ==
  ASSUME NEW n \in Nat, NEW S, S \subseteq 0..n, S # {}
  PROVE  Max(S) \in S /\ \A x \in S : x <= Max(S)
<1> DEFINE T == {n - x : x \in S}
<1>1. \A x \in S : n - x \in Nat
  OBVIOUS
<1>2. T \subseteq Nat /\ T # {}
  BY <1>1
<1>3. PICK t \in T : \A u \in T : t <= u
  <2> HIDE DEF T
  <2>1. \E t \in T : \A u \in T : ~ (<<u, t>> \in OpToRel(<, Nat))
    BY <1>2, WFMin, NatLessThanWellFounded
  <2>2. \A t, u \in T : ~ (<<u, t>> \in OpToRel(<, Nat)) => t <= u
    BY <1>2 DEF OpToRel
  <2> QED BY <2>1, <2>2
<1>4. PICK m \in S : t = n - m
  OBVIOUS
<1>5. \A x \in S : m >= x
  <2> TAKE x \in S
  <2>1. n - x \in T
    OBVIOUS
  <2>2. t <= n - x
    BY <1>3, <2>1
  <2> QED BY <1>4, <2>2
<1> QED BY <1>5 DEF Max

(* The topic after a send holds what it held and what has landed.          *)
LEMMA BagOfSend ==
  ASSUME NEW B, NEW S
  PROVE  BagToSet(B (+) SetToBag(S)) = BagToSet(B) \cup S
BY DEF BagToSet, SetToBag, (+)

(* One and two elements.                                                   *)
LEMMA RangeOfTuples ==
  ASSUME NEW S, NEW a \in S, NEW b \in S
  PROVE  /\ <<a>> \in Seq(S) /\ Len(<<a>>) = 1 /\ Range(<<a>>) = {a}
         /\ <<a, b>> \in Seq(S) /\ Len(<<a, b>>) = 2 /\ Range(<<a, b>>) = {a, b}
<1>1. <<a>> \in Seq(S) /\ Len(<<a>>) = 1 /\ <<a>>[1] = a
  OBVIOUS
<1>2. <<a, b>> \in Seq(S) /\ Len(<<a, b>>) = 2 /\ <<a, b>>[1] = a /\ <<a, b>>[2] = b
  OBVIOUS
<1>3. DOMAIN <<a>> = 1..1 /\ DOMAIN <<a, b>> = 1..2
  BY <1>1, <1>2, LenProperties
<1>4. Range(<<a>>) = {a}
  BY <1>1, <1>3 DEF Range
<1>5. Range(<<a, b>>) = {a, b}
  BY <1>2, <1>3 DEF Range
<1> QED BY <1>1, <1>2, <1>4, <1>5

(* What a record adds to the batch: items of that record alone, among them *)
(* the one that settles it.                                                *)
LEMMA ItemsOfRecord ==
  ASSUME TypeOK, NEW p \in Partitions, NEW o \in 1..Len(log[p]), log[p][o] # "ignored"
  PROVE  /\ ItemsOf(p, o) \in Seq(Item)
         /\ Len(ItemsOf(p, o)) > 0
         /\ \A i \in Range(ItemsOf(p, o)) :
              /\ i \in Item /\ RecordOf(i) = <<p, o>> /\ i.partition = p /\ i.offset = o
              /\ Genuine(i)
         /\ \E i \in Range(ItemsOf(p, o)) : Settles(i, <<p, o>>)
<1> DEFINE ok  == [partition |-> p, offset |-> o, parsed |-> TRUE]
           bad == [partition |-> p, offset |-> o, parsed |-> FALSE]
           kind == log[p][o]
<1>1. /\ o \in 1..MaxPerPartition
      /\ kind \in RecordKinds
  <2>1. Len(log[p]) \in Nat /\ log[p][o] \in Kinds /\ Len(log[p]) <= MaxPerPartition
    BY LenProperties, ElementOfSeq DEF TypeOK
  <2> QED BY <2>1, BatcherAssumption
<1>2. ok \in Item /\ bad \in Item
  BY <1>1 DEF Item
<1>3. /\ RecordOf(ok) = <<p, o>> /\ KindOf(ok) = kind
      /\ ok.partition = p /\ ok.offset = o /\ ok.parsed
      /\ RecordOf(bad) = <<p, o>> /\ KindOf(bad) = kind
      /\ bad.partition = p /\ bad.offset = o /\ ~bad.parsed
  BY DEF RecordOf, KindOf
<1> HIDE DEF ok, bad
<1>4. CASE kind \in {"good", "oversized"}
  <2>1. ItemsOf(p, o) = <<ok>>
    BY <1>4 DEF ItemsOf, ok, bad
  <2>2. Range(<<ok>>) = {ok} /\ Len(<<ok>>) = 1 /\ <<ok>> \in Seq(Item)
    BY <1>2, RangeOfTuples
  <2>3. Settles(ok, <<p, o>>)
    BY <1>3, <1>4 DEF Settles
  <2>4. Genuine(ok)
    BY <1>3, <1>4 DEF Genuine
  <2> QED BY <1>2, <1>3, <2>1, <2>2, <2>3, <2>4
<1>5. CASE kind = "poison"
  <2>1. ItemsOf(p, o) = <<bad>>
    BY <1>5 DEF ItemsOf, ok, bad
  <2>2. Range(<<bad>>) = {bad} /\ Len(<<bad>>) = 1 /\ <<bad>> \in Seq(Item)
    BY <1>2, RangeOfTuples
  <2>3. Settles(bad, <<p, o>>)
    BY <1>3, <1>5 DEF Settles
  <2>4. Genuine(bad)
    BY <1>3, <1>5 DEF Genuine
  <2> QED BY <1>2, <1>3, <2>1, <2>2, <2>3, <2>4
<1>6. CASE kind = "unaddressable"
  <2>1. ItemsOf(p, o) = <<ok, bad>>
    BY <1>6 DEF ItemsOf, ok, bad
  <2>2. /\ Range(<<ok, bad>>) = {ok, bad}
        /\ Len(<<ok, bad>>) = 2
        /\ <<ok, bad>> \in Seq(Item)
    BY <1>2, RangeOfTuples
  <2>3. Settles(bad, <<p, o>>)
    BY <1>3, <1>6 DEF Settles
  <2>4. Genuine(ok) /\ Genuine(bad)
    BY <1>3, <1>6 DEF Genuine
  <2> QED BY <1>2, <1>3, <2>1, <2>2, <2>3, <2>4
<1> QED BY <1>1, <1>4, <1>5, <1>6 DEF RecordKinds

(* The sub-batches of a batch hold exactly its records that fit.           *)
LEMMA FittedCovers ==
  ASSUME NEW batch \in Seq(Item), NEW pieces \in Fitted(batch)
  PROVE  /\ pieces \subseteq SUBSET Record
         /\ UNION pieces = {RecordOf(i) : i \in {j \in Range(batch) : Fits(j)}}
<1> DEFINE kept == {k \in 1..Len(batch) : Fits(batch[k])}
           piece(run, r) == {RecordOf(batch[k]) : k \in {j \in kept : run[j] = r}}
<1>1. PICK run \in [kept -> kept] : pieces = {piece(run, r) : r \in Range(run)}
  BY DEF Fitted
<1>2. \A k \in kept : batch[k] \in Range(batch) /\ batch[k] \in Item /\ Fits(batch[k])
  BY ElementOfSeq, LenProperties DEF Range
<1>3. \A i \in Range(batch) : Fits(i) => \E k \in kept : batch[k] = i
  BY LenProperties DEF Range
<1>4. \A i \in Item : RecordOf(i) \in Record
  BY DEF Item, Record, RecordOf
<1>5. pieces \subseteq SUBSET Record
  BY <1>1, <1>2, <1>4
<1>6. ASSUME NEW x \in UNION pieces
      PROVE  x \in {RecordOf(i) : i \in {j \in Range(batch) : Fits(j)}}
  BY <1>1, <1>2, <1>6
<1>7. ASSUME NEW i \in Range(batch), Fits(i)
      PROVE  RecordOf(i) \in UNION pieces
  <2>1. PICK k \in kept : batch[k] = i
    BY <1>3, <1>7
  <2>2. run[k] \in Range(run)
    BY DEF Range
  <2>3. RecordOf(i) \in piece(run, run[k])
    BY <2>1
  <2> QED BY <1>1, <2>2, <2>3
<1> QED BY <1>5, <1>6, <1>7

-----------------------------------------------------------------------------
(* The initial states satisfy the invariant: nothing is delivered yet.     *)
LEMMA InitInv == Init => IInv
<1> SUFFICES ASSUME Init PROVE IInv
  OBVIOUS
<1>1. \A p \in Partitions : /\ log[p] \in Seq(Kinds) /\ Len(log[p]) \in Nat
                            /\ Len(log[p]) <= MaxPerPartition
  <2> TAKE p \in Partitions
  <2>1. log[p] \in UNION {[1..n -> Kinds] : n \in 0..MaxPerPartition}
    BY DEF Init, Logs
  <2>2. PICK n \in 0..MaxPerPartition : log[p] \in [1..n -> Kinds]
    BY <2>1
  <2>3. log[p] \in Seq(Kinds) /\ Len(log[p]) = n
    BY <2>2
  <2> QED BY <2>2, <2>3, BatcherAssumption
<1>2. log \in [Partitions -> Seq(Kinds)]
  <2>1. log \in [Partitions -> UNION {[1..n -> Kinds] : n \in 0..MaxPerPartition}]
    BY DEF Init, Logs
  <2> QED BY <1>1, <2>1
<1>3. BagToSet(batched) = {} /\ Range(pending) = {} /\ Range(inflight) = {}
  BY DEF Init, BagToSet, EmptyBag, SetToBag, Range
<1>4. /\ pending \in Seq(Item) /\ inflight \in Seq(Item)
      /\ flushPc \in FlushPcs /\ loopPc \in LoopPcs /\ phase \in Phases
  BY DEF Init, FlushPcs, LoopPcs, Phases
<1>5. TypeOK
  BY <1>1, <1>2, <1>3, <1>4 DEF Init, TypeOK
<1>6. Delivered
  BY <1>1, <1>3 DEF Init, Delivered, Buffered
<1>7. \A r \in Owed : r[1] \in Partitions /\ r[2] \in 1..MaxPerPartition
  BY DEF Owed, Record
<1>8. Carried /\ NoLoss
  BY <1>7 DEF Init, Carried, NoLoss
<1>9. Separated /\ Fresh /\ FlightProgress
  BY <1>3 DEF Init, Separated, Fresh, Reaches, FlightProgress
<1> QED BY <1>5, <1>6, <1>8, <1>9 DEF IInv

(* A step that may deliver records and move batches, but touches no topic  *)
(* and no offset, preserves the invariant when each newly delivered record *)
(* is in the new current batch.                                            *)
LEMMA BufferStep ==
  ASSUME IInv, phase # "down", phase' \in Phases \ {"down"}, failed' \in BOOLEAN,
         UNCHANGED kafka,
         position' \in [Partitions -> Nat],
         \A p \in Partitions : position[p] <= position'[p] /\ position'[p] <= Len(log[p]),
         timer' \in BOOLEAN, loopPc' \in LoopPcs, faults' \in Nat,
         NEW batch \in Seq(Item),
         Range(pending) \subseteq Range(batch),
         \A i \in Range(batch) : RecordOf(i) \in Owed /\ i.offset <= position'[i.partition] /\ Genuine(i),
         \A i \in Range(inflight), j \in Range(batch) : i.partition = j.partition => i.offset < j.offset,
         Reaches(batch),
         \A r \in Owed : (position[r[1]] < r[2] /\ r[2] <= position'[r[1]]) =>
                            \E i \in Range(batch) : Settles(i, r),
         \/ pending' = batch /\ UNCHANGED <<inflight, flushPc>>
         \/ Flush(batch)
  PROVE  IInv'
<1>1. /\ TypeOK /\ Delivered /\ Carried /\ Separated /\ Fresh /\ FlightProgress /\ NoLoss
      /\ log' = log /\ committed' = committed /\ batched' = batched /\ dlq' = dlq
  BY DEF IInv, kafka
<1>2. \/ pending' = batch /\ inflight' = inflight /\ flushPc' = flushPc
      \/ inflight = << >> /\ inflight' = batch /\ pending' = << >> /\ flushPc' = "poison" /\ batch # << >>
  BY <1>1 DEF Flush, Delivered
<1>3. /\ Range(<< >>) = {}
      /\ << >> \in Seq(Item)
      /\ inflight \in Seq(Item)
  BY <1>1 DEF Range, TypeOK
<1>4. /\ pending' \in Seq(Item) /\ inflight' \in Seq(Item) /\ flushPc' \in FlushPcs
      /\ Buffered' = Range(inflight) \cup Range(batch)
  BY <1>1, <1>2, <1>3 DEF TypeOK, FlushPcs, Buffered
<1>5. Owed' = Owed /\ (\A i : KindOf(i)' = KindOf(i))
  BY <1>1 DEF Owed, KindOf
<1>6. TypeOK'
  BY <1>1, <1>4 DEF TypeOK
<1>7. ASSUME NEW i \in Buffered'
      PROVE  i \in Item /\ RecordOf(i) \in Owed /\ i.offset <= position'[i.partition] /\ Genuine(i)
  <2>1. CASE i \in Range(batch)
    BY <2>1, SeqElements
  <2>2. CASE i \in Range(inflight)
    <3>1. i \in Item /\ RecordOf(i) \in Owed /\ i.offset <= position[i.partition] /\ Genuine(i)
      BY <1>1, <1>3, <2>2, SeqElements DEF Delivered, Buffered
    <3>2. i.partition \in Partitions /\ i.offset \in Nat
      BY <3>1 DEF Item
    <3>3. position[i.partition] <= position'[i.partition] /\ position \in [Partitions -> Nat]
      BY <1>1, <3>2 DEF TypeOK
    <3> QED BY <3>1, <3>2, <3>3
  <2> QED BY <1>4, <1>7, <2>1, <2>2
<1>8. Delivered'
  <2>1. \A p \in Partitions : /\ committed'[p] <= Len(log'[p]) /\ position'[p] <= Len(log'[p])
                              /\ committed'[p] <= position'[p]
    <3> TAKE p \in Partitions
    <3>1. committed[p] \in Nat /\ position[p] \in Nat /\ position'[p] \in Nat
      BY <1>1 DEF TypeOK
    <3>2. committed[p] <= position[p] /\ committed[p] <= Len(log[p])
      BY <1>1 DEF Delivered
    <3> QED BY <1>1, <3>1, <3>2
  <2>2. \A i \in Buffered' : /\ RecordOf(i) \in Owed' /\ i.offset <= position'[i.partition]
                             /\ Genuine(i)'
    BY <1>5, <1>7 DEF Genuine
  <2>3. flushPc' = "idle" <=> inflight' = << >>
    BY <1>1, <1>2 DEF Delivered
  <2> QED BY <2>1, <2>2, <2>3 DEF Delivered
<1>9. Carried'
  <2> SUFFICES ASSUME NEW r \in Owed, committed[r[1]] < r[2], r[2] <= position'[r[1]]
               PROVE  \E i \in Buffered' : Settles(i, r)'
    BY <1>1, <1>5 DEF Carried
  <2>1. r[1] \in Partitions /\ r[2] \in Nat /\ position \in [Partitions -> Nat]
    BY <1>1 DEF Owed, Record, TypeOK
  <2>2. \E i \in Buffered' : Settles(i, r)
    <3>1. CASE r[2] <= position[r[1]]
      <4>1. PICK i \in Buffered : Settles(i, r)
        BY <1>1, <3>1 DEF Carried
      <4> QED BY <1>4, <4>1 DEF Buffered
    <3>2. CASE position[r[1]] < r[2]
      BY <1>4, <3>2
    <3> QED BY <2>1, <3>1, <3>2
  <2> QED BY <1>5, <2>2 DEF Settles
<1>10. Separated'
  BY <1>1, <1>2, <1>3 DEF Separated
<1>11. Fresh'
  BY <1>1, <1>2, <1>3 DEF Fresh, Reaches
<1>12. FlightProgress'
  <2>1. CASE inflight' = inflight /\ flushPc' = flushPc
    BY <1>1, <1>5, <2>1 DEF FlightProgress, Poison, Valid, Anchorable
  <2>2. CASE flushPc' = "poison"
    BY <2>2 DEF FlightProgress
  <2> QED BY <1>2, <2>1, <2>2
<1>13. NoLoss'
  BY <1>1, <1>5 DEF NoLoss, Settled, Anchorable
<1> QED BY <1>6, <1>8, <1>9, <1>10, <1>11, <1>12, <1>13 DEF IInv

(* The last offsets of a flight that is about to be committed: they never  *)
(* go back, never pass what was delivered, and every owed record up to     *)
(* them is settled, because the flight carries all those not yet committed *)
(* and the handler has made each of its items durable.                     *)
LEMMA LastOffsetsFacts ==
  ASSUME IInv, flushPc = "commit"
  PROVE  /\ LastOffsets(inflight) \in [Partitions -> Nat]
         /\ \A p \in Partitions : /\ committed[p] <= LastOffsets(inflight)[p]
                                  /\ LastOffsets(inflight)[p] <= position[p]
         /\ \A i \in Range(inflight) :
              /\ i.offset <= LastOffsets(inflight)[i.partition]
              /\ \E j \in Range(inflight) : /\ j.partition = i.partition
                                            /\ j.offset = LastOffsets(inflight)[j.partition]
         /\ \A j \in Range(pending) :
              \/ LastOffsets(inflight)[j.partition] < j.offset
              \/ LastOffsets(inflight)[j.partition] = committed[j.partition]
         /\ \A r \in Owed : r[2] <= LastOffsets(inflight)[r[1]] => r \in Settled
<1> DEFINE last == LastOffsets(inflight)
           offs(p) == {i.offset : i \in {j \in Range(inflight) : j.partition = p}}
<1>1. /\ TypeOK /\ Delivered /\ Carried /\ Separated /\ Fresh /\ FlightProgress /\ NoLoss
      /\ phase # "down"
  BY DEF IInv, Delivered
<1>2. /\ \A i \in Range(inflight) : i \in Item /\ RecordOf(i) \in Owed /\ Genuine(i)
      /\ \A i \in Range(inflight) : i.offset <= position[i.partition] /\ i.offset \in 1..MaxPerPartition
      /\ \A j \in Range(pending) : j \in Item
      /\ \A i \in Item : i.partition \in Partitions /\ i.offset \in Nat
  <2>1. /\ \A i \in Range(inflight) : i \in Item
        /\ \A i \in Range(pending) : i \in Item
    BY <1>1, SeqElements DEF TypeOK
  <2>2. \A i \in Range(inflight) : /\ RecordOf(i) \in Owed /\ Genuine(i)
                                   /\ i.offset <= position[i.partition]
    BY <1>1 DEF Delivered, Buffered
  <2>3. \A i \in Item : i.partition \in Partitions /\ i.offset \in Nat /\ i.offset \in 1..MaxPerPartition
    BY DEF Item
  <2> QED BY <2>1, <2>2, <2>3
<1>3. /\ committed \in [Partitions -> Nat] /\ position \in [Partitions -> Nat]
      /\ \A p \in Partitions : committed[p] <= position[p]
  BY <1>1 DEF TypeOK, Delivered
<1>4. \A p \in Partitions : last[p] = IF offs(p) = {} THEN committed[p] ELSE Max(offs(p))
  BY DEF LastOffsets
<1>5. ASSUME NEW p \in Partitions, offs(p) # {}
      PROVE  last[p] \in offs(p) /\ \A o \in offs(p) : o <= last[p]
  <2>1. offs(p) \subseteq 0..MaxPerPartition /\ MaxPerPartition \in Nat
    BY <1>2, BatcherAssumption
  <2>2. Max(offs(p)) \in offs(p) /\ \A o \in offs(p) : o <= Max(offs(p))
    <3> HIDE DEF offs
    <3> QED BY <1>5, <2>1, MaxOfBounded
  <2> QED BY <1>4, <1>5, <2>2
<1>6. ASSUME NEW i \in Range(inflight)
      PROVE  /\ i.partition \in Partitions /\ i.offset \in offs(i.partition)
             /\ i.offset <= last[i.partition]
             /\ \E j \in Range(inflight) : j.partition = i.partition /\ j.offset = last[j.partition]
  <2>1. i.partition \in Partitions /\ i.offset \in offs(i.partition)
    BY <1>2
  <2>2. last[i.partition] \in offs(i.partition) /\ i.offset <= last[i.partition]
    BY <1>5, <2>1
  <2> QED BY <2>1, <2>2
<1>a. ASSUME NEW p \in Partitions, last[p] # committed[p]
      PROVE  \E i \in Range(inflight) : i.partition = p /\ i.offset = last[p]
  <2>1. offs(p) # {}
    BY <1>4, <1>a
  <2>2. last[p] \in offs(p)
    BY <1>5, <2>1
  <2> QED BY <2>2
<1> HIDE DEF last, offs
<1>7. ASSUME NEW p \in Partitions
      PROVE  last[p] \in Nat /\ committed[p] <= last[p] /\ last[p] <= position[p]
  <2>1. CASE last[p] = committed[p]
    BY <1>3, <2>1
  <2>2. CASE last[p] # committed[p]
    <3>1. PICK i \in Range(inflight) : i.partition = p /\ i.offset = last[p]
      BY <1>a, <2>2
    <3>2. PICK j \in Range(inflight) : j.partition = p /\ j.offset >= committed[p]
      BY <1>1, <3>1 DEF Fresh, Reaches
    <3>3. j.offset <= last[p]
      BY <1>6, <3>2
    <3> QED BY <1>2, <1>3, <3>1, <3>2, <3>3
  <2> QED BY <2>1, <2>2
<1>8. ASSUME NEW j \in Range(pending)
      PROVE  last[j.partition] < j.offset \/ last[j.partition] = committed[j.partition]
  <2>1. j.partition \in Partitions /\ j.offset \in Nat
    BY <1>2
  <2>2. CASE last[j.partition] # committed[j.partition]
    <3>1. PICK i \in Range(inflight) : i.partition = j.partition /\ i.offset = last[j.partition]
      BY <1>a, <2>1, <2>2
    <3>2. i.offset < j.offset
      BY <1>1, <3>1 DEF Separated
    <3> QED BY <1>2, <2>1, <3>1, <3>2
  <2> QED BY <2>2
<1>9. ASSUME NEW r \in Owed, r[2] <= last[r[1]]
      PROVE  r \in Settled
  <2>1. r[1] \in Partitions /\ r[2] \in Nat
    BY DEF Owed, Record
  <2>2. CASE r[2] <= committed[r[1]]
    BY <1>1, <2>2 DEF NoLoss
  <2>3. CASE committed[r[1]] < r[2]
    <3>1. PICK i \in Buffered : Settles(i, r)
      BY <1>1, <1>3, <1>7, <1>9, <2>1, <2>3 DEF Carried
    <3>2. RecordOf(i) = r /\ i.partition = r[1] /\ i.offset = r[2]
      BY <3>1 DEF Settles, RecordOf
    <3>3. i \in Range(inflight)
      <4>1. CASE i \in Range(pending)
        BY <1>3, <1>7, <1>8, <1>9, <2>1, <2>3, <3>2, <4>1
      <4> QED BY <4>1 DEF Buffered
    <3>4. KindOf(i) = log[r[1]][r[2]] /\ Genuine(i)
      BY <1>2, <3>2, <3>3 DEF KindOf
    <3>5. CASE i.parsed
      <4>1. KindOf(i) \in {"good", "oversized"}
        BY <3>1, <3>5 DEF Settles
      <4>2. KindOf(i) = "good" => r \in Anchorable
        BY <1>1, <3>2, <3>3, <3>5 DEF FlightProgress, Valid
      <4>3. KindOf(i) = "oversized" => r \in dlq
        BY <1>1, <3>2, <3>3, <3>5 DEF FlightProgress, Valid
      <4> QED BY <3>4, <4>1, <4>2, <4>3 DEF Settled
    <3>6. CASE ~i.parsed
      <4>1. KindOf(i) # "good"
        BY <3>4, <3>6 DEF Genuine
      <4>2. r \in dlq
        BY <1>1, <3>2, <3>3, <3>6 DEF FlightProgress, Poison
      <4> QED BY <3>4, <4>1, <4>2 DEF Settled
    <3> QED BY <3>5, <3>6
  <2> QED BY <1>3, <2>1, <2>2, <2>3
<1>10. last \in [Partitions -> Nat]
  BY <1>7 DEF LastOffsets, last
<1> QED BY <1>6, <1>7, <1>8, <1>9, <1>10 DEF last

(* What is settled stays settled while the topics only grow.               *)
LEMMA SettledGrows ==
  ASSUME log' = log,
         \A r \in dlq : r \in dlq',
         \A b \in BagToSet(batched) : b \in BagToSet(batched')
  PROVE  /\ Owed' = Owed
         /\ \A r \in Settled : r \in Settled'
         /\ \A i : KindOf(i)' = KindOf(i)
<1>1. Owed' = Owed /\ \A i : KindOf(i)' = KindOf(i)
  BY DEF Owed, KindOf
<1>2. \A r \in Anchorable : r \in Anchorable'
  BY DEF Anchorable
<1> QED BY <1>1, <1>2 DEF Settled

(* A step of the flush handler that goes on to its next call: the topics   *)
(* grow by what the call has sent.                                         *)
LEMMA AdvanceKeeps ==
  ASSUME IInv, flushPc # "idle", flushPc' \in FlushPcs \ {"idle"},
         UNCHANGED <<log, committed, position, pending, inflight, loopPc, timer, phase, failed, faults>>,
         dlq' \in SUBSET Record,
         \A r \in dlq : r \in dlq',
         \A b \in BagToSet(batched') : b \in SUBSET Record,
         \A b \in BagToSet(batched) : b \in BagToSet(batched'),
         FlightProgress'
  PROVE  IInv'
<1>1. /\ TypeOK /\ Delivered /\ Carried /\ Separated /\ Fresh /\ NoLoss
      /\ Buffered' = Buffered
  BY DEF IInv, Buffered
<1>2. /\ Owed' = Owed
      /\ \A r \in Settled : r \in Settled'
      /\ \A i : KindOf(i)' = KindOf(i)
  BY SettledGrows
<1>3. TypeOK'
  BY <1>1 DEF TypeOK
<1>4. \A i \in Buffered : Genuine(i) => Genuine(i)'
  BY <1>2 DEF Genuine
<1>5. Delivered'
  <2>1. inflight # << >> /\ flushPc' # "idle"
    BY <1>1 DEF Delivered
  <2> QED BY <1>1, <1>2, <1>4, <2>1 DEF Delivered
<1>6. \A i, r : Settles(i, r) => Settles(i, r)'
  BY <1>2 DEF Settles
<1>7. Carried'
  BY <1>1, <1>2, <1>6 DEF Carried
<1>8. Separated' /\ Fresh'
  BY <1>1 DEF Separated, Fresh, Reaches
<1>9. NoLoss'
  BY <1>1, <1>2 DEF NoLoss
<1> QED BY <1>3, <1>5, <1>7, <1>8, <1>9 DEF IInv

(* The end of a flush: it has committed and is dropped, or it has failed   *)
(* and is put back, its commit lost or not.                                *)
LEMMA SettleKeeps ==
  ASSUME IInv, flushPc # "idle", UNCHANGED <<log, position, phase, failed>>, Settle,
         faults' \in Nat, timer' \in BOOLEAN,
         dlq' \in SUBSET Record,
         \A r \in dlq : r \in dlq',
         \A b \in BagToSet(batched') : b \in SUBSET Record,
         \A b \in BagToSet(batched) : b \in BagToSet(batched'),
         \/ committed' = committed /\ pending' = inflight \o pending
         \/ /\ flushPc = "commit"
            /\ committed' = LastOffsets(inflight)
            /\ pending' \in {pending, inflight \o pending}
  PROVE  IInv'
<1>1. /\ TypeOK /\ Delivered /\ Carried /\ Separated /\ Fresh /\ NoLoss
      /\ log' = log /\ position' = position /\ phase' = phase /\ failed' = failed
      /\ committed \in [Partitions -> Nat] /\ position \in [Partitions -> Nat]
  BY DEF IInv, TypeOK
<1>2. /\ phase # "down" /\ inflight # << >>
      /\ inflight' = << >> /\ flushPc' = "idle" /\ loopPc' \in LoopPcs
  BY <1>1 DEF Delivered, Settle, TypeOK, LoopPcs
<1>3. /\ Owed' = Owed
      /\ \A r \in Settled : r \in Settled'
      /\ \A i : KindOf(i)' = KindOf(i)
  BY SettledGrows, <1>1
<1>4. /\ inflight \in Seq(Item) /\ pending \in Seq(Item)
      /\ inflight \o pending \in Seq(Item)
      /\ Range(inflight \o pending) = Buffered
      /\ << >> \in Seq(Item) /\ Range(<< >>) = {}
  <2>1. inflight \in Seq(Item) /\ pending \in Seq(Item)
    BY <1>1 DEF TypeOK
  <2>2. Range(inflight \o pending) = Buffered
    BY <2>1, RangeConcat DEF Buffered
  <2> QED BY <2>1, <2>2 DEF Range
<1>5. /\ pending' \in Seq(Item)
      /\ Buffered' = Range(pending')
      /\ \A i \in Buffered' : i \in Buffered
  BY <1>2, <1>4 DEF Buffered
<1>6. \A i \in Buffered : i \in Item /\ i.partition \in Partitions /\ i.offset \in Nat
  <2>1. \A i \in Buffered : i \in Item
    BY <1>4, SeqElements DEF Buffered
  <2> QED BY <2>1 DEF Item
<1>7. /\ committed' \in [Partitions -> Nat]
      /\ \A p \in Partitions : committed[p] <= committed'[p] /\ committed'[p] <= position[p]
      /\ \A r \in Owed : r[2] <= committed'[r[1]] => r \in Settled
  <2>1. CASE committed' = committed
    BY <1>1, <1>2, <2>1 DEF Delivered, NoLoss
  <2>2. CASE flushPc = "commit" /\ committed' = LastOffsets(inflight)
    BY <2>2, LastOffsetsFacts
  <2> QED BY <2>1, <2>2
<1>8. TypeOK'
  BY <1>1, <1>2, <1>4, <1>5, <1>7 DEF TypeOK, FlushPcs
<1>9. Delivered'
  <2>1. \A p \in Partitions : committed'[p] <= Len(log'[p]) /\ position'[p] <= Len(log'[p])
    <3> TAKE p \in Partitions
    <3>1. committed'[p] <= position[p] /\ position[p] <= Len(log[p])
      BY <1>1, <1>7 DEF Delivered
    <3>2. committed'[p] \in Nat /\ position[p] \in Nat /\ Len(log[p]) \in Nat
      BY <1>1, <1>7, LenProperties DEF TypeOK
    <3> QED BY <1>1, <3>1, <3>2
  <2>2. \A i \in Buffered' : /\ RecordOf(i) \in Owed' /\ i.offset <= position'[i.partition]
                             /\ Genuine(i)'
    BY <1>1, <1>3, <1>5 DEF Delivered, Genuine
  <2> QED BY <1>1, <1>2, <1>7, <2>1, <2>2 DEF Delivered
<1>10. Carried'
  <2> SUFFICES ASSUME NEW r \in Owed, committed'[r[1]] < r[2], r[2] <= position[r[1]]
               PROVE  \E i \in Buffered' : Settles(i, r)'
    BY <1>1, <1>3 DEF Carried
  <2>1. r[1] \in Partitions /\ r[2] \in Nat
    BY DEF Owed, Record
  <2>2. committed[r[1]] < r[2]
    BY <1>1, <1>7, <2>1
  <2>3. PICK i \in Buffered : Settles(i, r)
    BY <1>1, <1>2, <2>2 DEF Carried
  <2>4. i \in Buffered'
    <3>1. CASE pending' = inflight \o pending
      BY <1>4, <1>5, <2>3, <3>1
    <3>2. CASE flushPc = "commit" /\ committed' = LastOffsets(inflight) /\ pending' = pending
      <4>1. i.partition = r[1] /\ i.offset = r[2]
        BY <2>3 DEF Settles, RecordOf
      <4>2. i \notin Range(inflight)
        <5>1. i \in Range(inflight) => i.offset <= LastOffsets(inflight)[i.partition]
          BY <3>2, LastOffsetsFacts
        <5> QED BY <1>7, <2>1, <3>2, <4>1, <5>1
      <4> QED BY <1>5, <2>3, <3>2, <4>2 DEF Buffered
    <3> QED BY <3>1, <3>2
  <2>5. Settles(i, r)'
    BY <1>3, <2>3 DEF Settles
  <2> QED BY <2>4, <2>5
<1>11. Separated' /\ FlightProgress'
  BY <1>2, <1>4 DEF Separated, FlightProgress
<1>12. Fresh'
  <2>1. ASSUME NEW i \in Range(pending')
        PROVE  \E j \in Range(pending') : j.partition = i.partition /\ j.offset >= committed'[j.partition]
    <3>1. i \in Buffered /\ i.partition \in Partitions /\ i.offset \in Nat
      BY <1>5, <1>6, <2>1
    <3>2. CASE committed' = committed /\ pending' = inflight \o pending
      BY <1>1, <1>4, <2>1, <3>2 DEF Fresh, Reaches, Buffered
    <3>3. CASE flushPc = "commit" /\ committed' = LastOffsets(inflight)
      <4>1. CASE i \in Range(pending)
        <5>1. Range(pending) \subseteq Range(pending')
          BY <1>4, <3>3 DEF Buffered
        <5>2. CASE LastOffsets(inflight)[i.partition] < i.offset
          BY <1>7, <2>1, <3>1, <3>3, <5>2
        <5>3. CASE LastOffsets(inflight)[i.partition] = committed[i.partition]
          <6>1. PICK j \in Range(pending) : j.partition = i.partition /\ j.offset >= committed[j.partition]
            BY <1>1, <4>1 DEF Fresh, Reaches
          <6> QED BY <3>3, <5>1, <5>3, <6>1
        <5> QED BY <3>3, <4>1, <5>2, <5>3, LastOffsetsFacts
      <4>2. CASE i \in Range(inflight) /\ pending' = inflight \o pending
        <5>1. PICK j \in Range(inflight) : j.partition = i.partition
                                           /\ j.offset = LastOffsets(inflight)[j.partition]
          BY <3>3, <4>2, LastOffsetsFacts
        <5>2. j \in Range(pending') /\ j.offset \in Nat
          BY <1>4, <1>6, <4>2, <5>1 DEF Buffered
        <5> QED BY <3>3, <5>1, <5>2
      <4> QED BY <2>1, <3>1, <3>3, <4>1, <4>2 DEF Buffered
    <3> QED BY <3>2, <3>3
  <2>2. Range(inflight') = {}
    BY <1>2, <1>4
  <2> QED BY <2>1, <2>2 DEF Fresh, Reaches
<1>13. NoLoss'
  BY <1>3, <1>7 DEF NoLoss
<1> QED BY <1>8, <1>9, <1>10, <1>11, <1>12, <1>13 DEF IInv

(* A process that ends takes its batches with it; what it had not yet      *)
(* committed is delivered again.                                           *)
LEMMA ProcessLostKeeps ==
  ASSUME IInv, ProcessLost, faults' \in Nat
  PROVE  IInv'
<1>1. /\ TypeOK /\ Delivered /\ NoLoss
      /\ log' = log /\ committed' = committed /\ batched' = batched /\ dlq' = dlq
      /\ phase' = "down" /\ position' = [p \in Partitions |-> 0]
      /\ pending' = << >> /\ inflight' = << >> /\ flushPc' = "idle" /\ loopPc' = "await"
      /\ timer' = FALSE /\ failed' = FALSE
  BY DEF IInv, ProcessLost, kafka
<1>2. Range(<< >>) = {} /\ << >> \in Seq(Item) /\ Buffered' = {}
  BY <1>1 DEF Range, Buffered
<1>3. TypeOK'
  BY <1>1, <1>2 DEF TypeOK, FlushPcs, LoopPcs, Phases
<1>4. \A p \in Partitions : committed'[p] <= Len(log'[p]) /\ position'[p] <= Len(log'[p])
  BY <1>1, LenProperties DEF Delivered, TypeOK
<1>5. Delivered'
  BY <1>1, <1>2, <1>4 DEF Delivered
<1>6. Carried' /\ Separated' /\ Fresh' /\ FlightProgress'
  BY <1>1, <1>2 DEF Carried, Separated, Fresh, Reaches, FlightProgress
<1>7. NoLoss'
  BY <1>1 DEF NoLoss, Settled, Owed, Anchorable
<1> QED BY <1>3, <1>5, <1>6, <1>7 DEF IInv

(* A new process resumes from the committed offsets with empty batches.    *)
LEMMA RestartKeeps ==
  ASSUME IInv, Restart
  PROVE  IInv'
<1>1. /\ TypeOK /\ Delivered /\ NoLoss
      /\ log' = log /\ committed' = committed /\ batched' = batched /\ dlq' = dlq
      /\ phase' = "running" /\ position' = committed
      /\ pending' = << >> /\ inflight' = << >> /\ flushPc' = "idle" /\ loopPc' = "await"
      /\ timer' = timer /\ failed' = failed /\ faults' = faults
  BY DEF IInv, Delivered, Restart, kafka, flusher
<1>2. Range(<< >>) = {} /\ << >> \in Seq(Item) /\ Buffered' = {}
  BY <1>1 DEF Range, Buffered
<1>3. TypeOK'
  BY <1>1, <1>2 DEF TypeOK, FlushPcs, LoopPcs, Phases
<1>4. \A p \in Partitions : /\ committed'[p] <= Len(log'[p]) /\ position'[p] <= Len(log'[p])
                            /\ committed'[p] <= position'[p]
  BY <1>1 DEF Delivered, TypeOK
<1>5. Delivered'
  BY <1>1, <1>2, <1>4 DEF Delivered
<1>6. Carried'
  <2> SUFFICES ASSUME NEW r \in Owed', committed'[r[1]] < r[2], r[2] <= position'[r[1]]
               PROVE  FALSE
    BY DEF Carried
  <2>1. r[1] \in Partitions /\ r[2] \in Nat /\ committed \in [Partitions -> Nat]
    BY <1>1 DEF Owed, Record, TypeOK
  <2> QED BY <1>1, <2>1
<1>7. Separated' /\ Fresh' /\ FlightProgress'
  BY <1>1, <1>2 DEF Separated, Fresh, Reaches, FlightProgress
<1>8. NoLoss'
  BY <1>1 DEF NoLoss, Settled, Owed, Anchorable
<1> QED BY <1>3, <1>5, <1>6, <1>7, <1>8 DEF IInv

(* A step of the loop or of a timer that delivers nothing: it leaves the   *)
(* current batch alone or detaches it.                                     *)
LEMMA SameBatchKeeps ==
  ASSUME IInv, phase # "down", phase' \in Phases \ {"down"}, failed' \in BOOLEAN,
         UNCHANGED <<kafka, position, faults>>,
         timer' \in BOOLEAN, loopPc' \in LoopPcs,
         UNCHANGED flusher \/ Flush(pending)
  PROVE  IInv'
<1>1. /\ TypeOK /\ Delivered /\ Separated /\ Fresh
      /\ position' = position /\ faults' = faults
  BY DEF IInv
<1>2. /\ pending \in Seq(Item)
      /\ position' \in [Partitions -> Nat] /\ faults' \in Nat
      /\ \A p \in Partitions : position[p] <= position'[p] /\ position'[p] <= Len(log[p])
  BY <1>1 DEF TypeOK, Delivered
<1>3. \A i \in Range(pending) : RecordOf(i) \in Owed /\ i.offset <= position'[i.partition] /\ Genuine(i)
  BY <1>1 DEF Delivered, Buffered
<1>4. \A i \in Range(inflight), j \in Range(pending) : i.partition = j.partition => i.offset < j.offset
  BY <1>1 DEF Separated
<1>5. \A r \in Owed : ~ (position[r[1]] < r[2] /\ r[2] <= position'[r[1]])
  <2> TAKE r \in Owed
  <2>1. r[2] \in Nat /\ position[r[1]] \in Nat
    BY <1>1 DEF Owed, Record, TypeOK
  <2> QED BY <1>1, <2>1
<1>6. Reaches(pending)
  BY <1>1 DEF Fresh
<1>7. \/ pending' = pending /\ UNCHANGED <<inflight, flushPc>>
      \/ Flush(pending)
  BY DEF flusher
<1> QED BY <1>2, <1>3, <1>4, <1>5, <1>6, <1>7, BufferStep

(* A record that is skipped owes nothing.                                  *)
LEMMA SkipKeeps ==
  ASSUME IInv, NEW p \in Partitions, SkipRecord(p)
  PROVE  IInv'
<1>1. /\ TypeOK /\ Delivered /\ Separated /\ Fresh
      /\ phase = "running" /\ phase' = phase /\ failed' = failed /\ faults' = faults
      /\ position[p] < Len(log[p]) /\ position' = [position EXCEPT ![p] = @ + 1]
      /\ log[p][position[p] + 1] = "ignored"
      /\ pending' = pending /\ inflight' = inflight /\ flushPc' = flushPc
      /\ loopPc' = loopPc /\ timer' = timer
      /\ UNCHANGED kafka
  BY DEF IInv, SkipRecord, NextRecord, flusher, service
<1>2. /\ position \in [Partitions -> Nat] /\ \A q \in Partitions : Len(log[q]) \in Nat
      /\ \A q \in Partitions : position'[q] = IF q = p THEN position[q] + 1 ELSE position[q]
  BY <1>1, LenProperties DEF TypeOK
<1>3. /\ position' \in [Partitions -> Nat]
      /\ \A q \in Partitions : position[q] <= position'[q] /\ position'[q] <= Len(log[q])
  <2>1. \A q \in Partitions : position[q] <= Len(log[q])
    BY <1>1 DEF Delivered
  <2> QED BY <1>1, <1>2, <2>1
<1>4. /\ pending \in Seq(Item) /\ timer' \in BOOLEAN /\ loopPc' \in LoopPcs /\ faults' \in Nat
      /\ phase # "down" /\ phase' \in Phases \ {"down"} /\ failed' \in BOOLEAN
  BY <1>1 DEF TypeOK, Phases
<1>5. \A i \in Range(pending) : RecordOf(i) \in Owed /\ i.offset <= position'[i.partition] /\ Genuine(i)
  <2> TAKE i \in Range(pending)
  <2>1. RecordOf(i) \in Owed /\ i.offset <= position[i.partition] /\ Genuine(i)
    BY <1>1 DEF Delivered, Buffered
  <2>2. i \in Item
    BY <1>4, SeqElements
  <2>3. i.partition \in Partitions /\ i.offset \in Nat
    BY <2>2 DEF Item
  <2> QED BY <1>2, <1>3, <2>1, <2>3
<1>6. \A i \in Range(inflight), j \in Range(pending) : i.partition = j.partition => i.offset < j.offset
  BY <1>1 DEF Separated
<1>7. \A r \in Owed : ~ (position[r[1]] < r[2] /\ r[2] <= position'[r[1]])
  <2> SUFFICES ASSUME NEW r \in Owed, position[r[1]] < r[2], r[2] <= position'[r[1]]
               PROVE  FALSE
    OBVIOUS
  <2>1. r[1] \in Partitions /\ r[2] \in Nat /\ log[r[1]][r[2]] # "ignored"
    BY DEF Owed, Record
  <2>2. r[1] = p /\ r[2] = position[p] + 1
    BY <1>2, <2>1
  <2> QED BY <1>1, <2>1, <2>2
<1>8. Reaches(pending)
  BY <1>1 DEF Fresh
<1> QED BY <1>1, <1>3, <1>4, <1>5, <1>6, <1>7, <1>8, BufferStep

(* A record that is added comes after all that is buffered, and brings the *)
(* item that settles it.                                                   *)
LEMMA AddKeeps ==
  ASSUME IInv, NEW p \in Partitions, AddRecord(p)
  PROVE  IInv'
<1> DEFINE o == position[p] + 1
           new == ItemsOf(p, o)
           batch == pending \o new
<1>1. /\ TypeOK /\ Delivered /\ Separated /\ Fresh
      /\ phase = "running" /\ phase' = phase /\ failed' = failed /\ faults' = faults
      /\ position[p] < Len(log[p]) /\ position' = [position EXCEPT ![p] = @ + 1]
      /\ log[p][o] # "ignored"
      /\ MaybeFlush(batch)
      /\ UNCHANGED kafka
  BY DEF IInv, AddRecord, NextRecord, service
<1>2. /\ position \in [Partitions -> Nat] /\ \A q \in Partitions : Len(log[q]) \in Nat
      /\ committed \in [Partitions -> Nat]
      /\ \A q \in Partitions : position'[q] = IF q = p THEN position[q] + 1 ELSE position[q]
      /\ o \in 1..Len(log[p])
  BY <1>1, LenProperties DEF TypeOK
<1>3. /\ position' \in [Partitions -> Nat]
      /\ \A q \in Partitions : position[q] <= position'[q] /\ position'[q] <= Len(log[q])
  <2>1. \A q \in Partitions : position[q] <= Len(log[q])
    BY <1>1 DEF Delivered
  <2> QED BY <1>1, <1>2, <2>1
<1>4. /\ new \in Seq(Item)
      /\ \A i \in Range(new) : /\ i \in Item /\ RecordOf(i) = <<p, o>> /\ i.partition = p /\ i.offset = o
                               /\ Genuine(i)
      /\ \E i \in Range(new) : Settles(i, <<p, o>>)
  BY <1>1, <1>2, ItemsOfRecord
<1>5. /\ pending \in Seq(Item) /\ inflight \in Seq(Item)
      /\ timer \in BOOLEAN /\ loopPc \in LoopPcs /\ faults' \in Nat
      /\ phase # "down" /\ phase' \in Phases \ {"down"} /\ failed' \in BOOLEAN
  BY <1>1 DEF TypeOK, Phases
<1> HIDE DEF new
<1>6. batch \in Seq(Item) /\ Range(batch) = Range(pending) \cup Range(new)
  BY <1>4, <1>5, RangeConcat
<1>7. /\ timer' \in BOOLEAN /\ loopPc' \in LoopPcs
      /\ \/ pending' = batch /\ UNCHANGED <<inflight, flushPc>>
         \/ Flush(batch)
  BY <1>1, <1>5 DEF MaybeFlush, FlushBatch, LoopPcs
<1>8. \A i \in Buffered : /\ i.partition \in Partitions /\ i.offset \in Nat
                          /\ i.offset <= position[i.partition]
                          /\ RecordOf(i) \in Owed /\ Genuine(i)
  <2>1. \A i \in Buffered : i \in Item
    BY <1>5, SeqElements DEF Buffered
  <2>2. \A i \in Item : i.partition \in Partitions /\ i.offset \in Nat
    BY DEF Item
  <2>3. \A i \in Buffered : /\ i.offset <= position[i.partition]
                            /\ RecordOf(i) \in Owed /\ Genuine(i)
    BY <1>1 DEF Delivered
  <2> QED BY <2>1, <2>2, <2>3
<1>9. <<p, o>> \in Owed
  <2>1. PICK i \in Range(new) : i \in Item /\ RecordOf(i) = <<p, o>>
    BY <1>4
  <2>2. <<p, o>> \in Record
    BY <2>1 DEF Item, Record, RecordOf
  <2> QED BY <1>1, <1>2, <2>2 DEF Owed
<1>10. \A i \in Range(batch) : RecordOf(i) \in Owed /\ i.offset <= position'[i.partition] /\ Genuine(i)
  <2>1. ASSUME NEW i \in Range(pending)
        PROVE  RecordOf(i) \in Owed /\ i.offset <= position'[i.partition] /\ Genuine(i)
    BY <1>2, <1>3, <1>8 DEF Buffered
  <2>2. ASSUME NEW i \in Range(new)
        PROVE  RecordOf(i) \in Owed /\ i.offset <= position'[i.partition] /\ Genuine(i)
    <3>1. i.partition = p /\ i.offset = o /\ RecordOf(i) = <<p, o>>
      BY <1>4
    <3>2. position'[p] = o /\ o \in Nat
      BY <1>2
    <3>3. i.offset <= position'[i.partition]
      BY <3>1, <3>2
    <3>4. Genuine(i)
      BY <1>4
    <3> QED BY <1>9, <3>1, <3>3, <3>4
  <2> QED BY <1>6, <2>1, <2>2
<1>11. \A i \in Range(inflight), j \in Range(batch) : i.partition = j.partition => i.offset < j.offset
  <2> SUFFICES ASSUME NEW i \in Range(inflight), NEW j \in Range(batch), i.partition = j.partition
               PROVE  i.offset < j.offset
    OBVIOUS
  <2>1. CASE j \in Range(pending)
    BY <1>1, <2>1 DEF Separated
  <2>2. CASE j \in Range(new)
    BY <1>2, <1>4, <1>8, <2>2 DEF Buffered
  <2> QED BY <1>6, <2>1, <2>2
<1>12. \A r \in Owed : (position[r[1]] < r[2] /\ r[2] <= position'[r[1]]) =>
                          \E i \in Range(batch) : Settles(i, r)
  <2> SUFFICES ASSUME NEW r \in Owed, position[r[1]] < r[2], r[2] <= position'[r[1]]
               PROVE  \E i \in Range(batch) : Settles(i, r)
    OBVIOUS
  <2>1. r \in Record /\ r[1] \in Partitions /\ r[2] \in Nat
    BY DEF Owed, Record
  <2>2. r[1] = p /\ r[2] = o
    BY <1>2, <2>1
  <2>3. r = <<p, o>>
    BY <2>1, <2>2 DEF Record
  <2> QED BY <1>4, <1>6, <2>3
<1>13. Reaches(batch)
  <2>1. ASSUME NEW i \in Range(pending)
        PROVE  \E j \in Range(batch) : j.partition = i.partition /\ j.offset >= committed[j.partition]
    BY <1>1, <1>6 DEF Fresh, Reaches
  <2>2. ASSUME NEW i \in Range(new)
        PROVE  \E j \in Range(batch) : j.partition = i.partition /\ j.offset >= committed[j.partition]
    <3>1. committed[p] <= position[p]
      BY <1>1 DEF Delivered
    <3> QED BY <1>2, <1>4, <1>6, <3>1
  <2> QED BY <1>6, <2>1, <2>2 DEF Reaches
<1> HIDE DEF batch
<1>14. Range(pending) \subseteq Range(batch) /\ UNCHANGED kafka
  BY <1>1, <1>6
<1> QED BY <1>3, <1>5, <1>6, <1>7, <1>10, <1>11, <1>12, <1>13, <1>14, BufferStep

-----------------------------------------------------------------------------
(* The steps of the flush handler.                                         *)

(* What is sent to a topic is a set of records of the log.                 *)
LEMMA SentAreRecords ==
  ASSUME TypeOK
  PROVE  /\ Poison \in SUBSET Record
         /\ \A kinds : Valid(kinds) \in SUBSET Record
         /\ dlq \in SUBSET Record
         /\ \A b \in BagToSet(batched) : b \in SUBSET Record
<1>1. inflight \in Seq(Item)
  BY DEF TypeOK
<1>2. \A i \in Range(inflight) : RecordOf(i) \in Record
  <2>1. \A i \in Range(inflight) : i \in Item
    BY <1>1, SeqElements
  <2> QED BY <2>1 DEF RecordOf, Item, Record
<1> QED BY <1>2 DEF Poison, Valid, TypeOK

(* The poison records reach the DLQ.                                       *)
LEMMA FlushPoisonKeeps ==
  ASSUME IInv, FlushPoison
  PROVE  IInv'
<1>1. /\ TypeOK /\ flushPc = "poison"
      /\ log' = log /\ position' = position /\ phase' = phase /\ failed' = failed
      /\ dlq' = dlq \cup Poison
      /\ committed' = committed /\ batched' = batched /\ faults' = faults
  BY DEF IInv, FlushPoison, InFlush, service
<1>2. /\ flushPc # "idle" /\ faults' \in Nat
      /\ dlq' \in SUBSET Record /\ \A r \in dlq : r \in dlq'
      /\ \A b \in BagToSet(batched') : b \in SUBSET Record
      /\ \A b \in BagToSet(batched) : b \in BagToSet(batched')
  BY <1>1, SentAreRecords DEF TypeOK
<1>3. CASE flushPc' = "oversized" /\ UNCHANGED <<pending, inflight, loopPc, timer>>
  <2>1. FlightProgress'
    BY <1>1, <1>3 DEF FlightProgress, Poison
  <2> QED BY <1>1, <1>2, <1>3, <2>1, AdvanceKeeps DEF FlushPcs
<1>4. CASE Reattach
  BY <1>1, <1>2, <1>4, SettleKeeps DEF Reattach, TypeOK
<1> QED BY <1>3, <1>4 DEF FlushPoison

(* The oversized events reach the DLQ.                                     *)
LEMMA FlushOversizedKeeps ==
  ASSUME IInv, FlushOversized
  PROVE  IInv'
<1>1. /\ TypeOK /\ FlightProgress /\ flushPc = "oversized" /\ flushPc' = "produce"
      /\ log' = log /\ position' = position /\ phase' = phase /\ failed' = failed
      /\ dlq' = dlq \cup Valid({"oversized"})
      /\ UNCHANGED <<committed, batched, pending, inflight, loopPc, timer, faults>>
  BY DEF IInv, FlushOversized, InFlush, service
<1>2. /\ flushPc # "idle" /\ flushPc' \in FlushPcs \ {"idle"}
      /\ dlq' \in SUBSET Record /\ \A r \in dlq : r \in dlq'
      /\ \A b \in BagToSet(batched') : b \in SUBSET Record
      /\ \A b \in BagToSet(batched) : b \in BagToSet(batched')
  BY <1>1, SentAreRecords DEF FlushPcs
<1>3. FlightProgress'
  BY <1>1 DEF FlightProgress, Poison, Valid, KindOf
<1> QED BY <1>1, <1>2, <1>3, AdvanceKeeps

(* The sub-batches that are produced hold every good record of the flight. *)
LEMMA FlushProduceKeeps ==
  ASSUME IInv, FlushProduce
  PROVE  IInv'
<1>1. /\ TypeOK /\ FlightProgress /\ flushPc = "produce" /\ flushPc' = "commit"
      /\ log' = log /\ position' = position /\ phase' = phase /\ failed' = failed
      /\ UNCHANGED <<committed, dlq, pending, inflight, loopPc, timer, faults>>
      /\ inflight \in Seq(Item)
  BY DEF IInv, FlushProduce, InFlush, service, TypeOK
<1>2. PICK pieces \in Fitted(inflight) : batched' = batched (+) SetToBag(pieces)
  BY DEF FlushProduce
<1>3. /\ BagToSet(batched') = BagToSet(batched) \cup pieces
      /\ pieces \subseteq SUBSET Record
      /\ UNION pieces = {RecordOf(i) : i \in {j \in Range(inflight) : Fits(j)}}
  BY <1>1, <1>2, BagOfSend, FittedCovers
<1>4. /\ flushPc # "idle" /\ flushPc' \in FlushPcs \ {"idle"}
      /\ dlq' \in SUBSET Record /\ \A r \in dlq : r \in dlq'
      /\ \A b \in BagToSet(batched') : b \in SUBSET Record
      /\ \A b \in BagToSet(batched) : b \in BagToSet(batched')
  BY <1>1, <1>3, SentAreRecords DEF FlushPcs
<1>5. FlightProgress'
  <2>1. Poison' \subseteq dlq' /\ Valid({"oversized"})' \subseteq dlq'
    BY <1>1 DEF FlightProgress, Poison, Valid, KindOf
  <2>2. ASSUME NEW i \in Range(inflight), i.parsed, KindOf(i) = "good"
        PROVE  RecordOf(i) \in Anchorable'
    <3>1. RecordOf(i) \in UNION pieces
      BY <1>3, <2>2 DEF Fits
    <3> QED BY <1>3, <3>1 DEF Anchorable
  <2>3. Valid({"good"})' \subseteq Anchorable'
    BY <1>1, <2>2 DEF Valid, KindOf
  <2> QED BY <1>1, <2>1, <2>3 DEF FlightProgress
<1> QED BY <1>1, <1>4, <1>5, AdvanceKeeps

(* The flight is committed and lands.                                      *)
LEMMA FlushCommitKeeps ==
  ASSUME IInv, FlushCommit
  PROVE  IInv'
<1>1. /\ TypeOK /\ flushPc = "commit" /\ flushPc # "idle"
      /\ log' = log /\ position' = position /\ phase' = phase /\ failed' = failed
      /\ committed' = LastOffsets(inflight) /\ Settle
      /\ UNCHANGED <<batched, dlq, pending, timer, faults>>
  BY DEF IInv, FlushCommit, InFlush, service
<1>2. /\ timer' \in BOOLEAN /\ faults' \in Nat
      /\ dlq' \in SUBSET Record /\ \A r \in dlq : r \in dlq'
      /\ \A b \in BagToSet(batched') : b \in SUBSET Record
      /\ \A b \in BagToSet(batched) : b \in BagToSet(batched')
  BY <1>1, SentAreRecords DEF TypeOK
<1> QED BY <1>1, <1>2, SettleKeeps

(* However a call fails and whatever of it has landed.                     *)
LEMMA FlushFailsEffect ==
  ASSUME IInv, FlushFails
  PROVE  /\ flushPc # "idle" /\ UNCHANGED <<log, position, phase, failed>>
         /\ dlq' \in SUBSET Record /\ \A r \in dlq : r \in dlq'
         /\ \A b \in BagToSet(batched') : b \in SUBSET Record
         /\ \A b \in BagToSet(batched) : b \in BagToSet(batched')
         /\ \/ committed' = committed
            \/ flushPc = "commit" /\ committed' = LastOffsets(inflight) /\ UNCHANGED <<batched, dlq>>
<1>1. TypeOK /\ inflight \in Seq(Item)
  BY DEF IInv, TypeOK
<1>2. CASE /\ InFlush("poison")
           /\ \E landed \in SUBSET Poison : dlq' = dlq \cup landed
           /\ UNCHANGED <<committed, batched>>
  BY <1>1, <1>2, SentAreRecords DEF InFlush, service
<1>3. CASE /\ InFlush("oversized")
           /\ \E landed \in SUBSET Valid({"oversized"}) : dlq' = dlq \cup landed
           /\ UNCHANGED <<committed, batched>>
  BY <1>1, <1>3, SentAreRecords DEF InFlush, service
<1>4. CASE /\ InFlush("produce")
           /\ \E pieces \in Fitted(inflight) :
                \E landed \in SUBSET pieces : batched' = batched (+) SetToBag(landed)
           /\ UNCHANGED <<committed, dlq>>
  <2>a. PICK pieces \in Fitted(inflight) :
          \E landed \in SUBSET pieces : batched' = batched (+) SetToBag(landed)
    BY <1>4
  <2>1. PICK landed \in SUBSET pieces : batched' = batched (+) SetToBag(landed)
    BY <2>a
  <2>2. pieces \subseteq SUBSET Record
    BY <1>1, FittedCovers
  <2>3. BagToSet(batched') = BagToSet(batched) \cup landed
    BY <2>1, BagOfSend
  <2> QED BY <1>1, <1>4, <2>2, <2>3, SentAreRecords DEF InFlush, service
<1>5. CASE /\ InFlush("commit")
           /\ committed' \in {committed, LastOffsets(inflight)}
           /\ UNCHANGED <<batched, dlq>>
  BY <1>1, <1>5, SentAreRecords DEF InFlush, service
<1> QED BY <1>2, <1>3, <1>4, <1>5 DEF FlushFails

(* A call of the handler fails, with or without its effect.                *)
LEMMA FlushFailsKeeps ==
  ASSUME IInv, FlushFails
  PROVE  IInv'
<1>1. /\ timer \in BOOLEAN /\ faults \in Nat /\ faults' = faults + 1
      /\ Settle /\ pending' = inflight \o pending
      /\ timer' = (timer \/ (phase = "running" /\ loopPc # "final"))
  BY DEF IInv, TypeOK, FlushFails, Reattach
<1>2. timer' \in BOOLEAN /\ faults' \in Nat
  BY <1>1
<1> QED BY <1>1, <1>2, FlushFailsEffect, SettleKeeps

(* The closed producer has refused a send: the batch is put back.          *)
LEMMA FlushRefusedKeeps ==
  ASSUME IInv, FlushRefused
  PROVE  IInv'
<1>1. /\ TypeOK /\ flushPc # "idle" /\ Reattach
      /\ UNCHANGED <<log, position, phase, failed>>
      /\ committed' = committed /\ batched' = batched /\ dlq' = dlq /\ faults' = faults
  BY DEF IInv, FlushRefused, Refused, kafka, service
<1>2. /\ timer' \in BOOLEAN /\ faults' \in Nat
      /\ Settle /\ pending' = inflight \o pending
  BY <1>1 DEF Reattach, TypeOK
<1>3. /\ dlq' \in SUBSET Record /\ \A r \in dlq : r \in dlq'
      /\ \A b \in BagToSet(batched') : b \in SUBSET Record
      /\ \A b \in BagToSet(batched) : b \in BagToSet(batched')
  BY <1>1, SentAreRecords
<1> QED BY <1>1, <1>2, <1>3, SettleKeeps

-----------------------------------------------------------------------------
(* Every step preserves the invariant.                                     *)
LEMMA NextKeeps == IInv /\ [Next]_vars => IInv'
<1> SUFFICES ASSUME IInv, [Next]_vars PROVE IInv'
  OBVIOUS
<1>1. ASSUME NEW p \in Partitions, SkipRecord(p) PROVE IInv'
  BY <1>1, SkipKeeps
<1>2. ASSUME NEW p \in Partitions, AddRecord(p) PROVE IInv'
  BY <1>2, AddKeeps
<1>t. TypeOK /\ Delivered
  BY DEF IInv
<1>3. CASE LagLow
  <2>1. phase # "down" /\ phase' \in Phases \ {"down"} /\ failed' \in BOOLEAN
    BY <1>3, <1>t DEF LagLow, Delivered, TypeOK, service
  <2>2. timer' \in BOOLEAN /\ loopPc' \in LoopPcs
    BY <1>3, <1>t DEF LagLow, TypeOK, LoopPcs
  <2> QED BY <1>3, <2>1, <2>2, SameBatchKeeps DEF LagLow
<1>4. CASE LagHigh
  <2>1. phase # "down" /\ phase' \in Phases \ {"down"} /\ failed' \in BOOLEAN
    BY <1>4, <1>t DEF LagHigh, Delivered, TypeOK, service
  <2>2. timer' \in BOOLEAN /\ loopPc' \in LoopPcs
    BY <1>4, <1>t DEF LagHigh, FlushBatch, LoopPcs
  <2> QED BY <1>4, <2>1, <2>2, SameBatchKeeps DEF LagHigh, FlushBatch
<1>5. CASE TimerFires
  <2>1. phase # "down" /\ phase' \in Phases \ {"down"} /\ failed' \in BOOLEAN
    BY <1>5, <1>t DEF TimerFires, TypeOK, service
  <2>2. timer' \in BOOLEAN /\ loopPc' \in LoopPcs
    BY <1>5, <1>t DEF TimerFires, FlushBatch, TypeOK
  <2> QED BY <1>5, <2>1, <2>2, SameBatchKeeps DEF TimerFires, FlushBatch
<1>6. CASE FlushPoison
  BY <1>6, FlushPoisonKeeps
<1>7. CASE FlushOversized
  BY <1>7, FlushOversizedKeeps
<1>8. CASE FlushProduce
  BY <1>8, FlushProduceKeeps
<1>9. CASE FlushCommit
  BY <1>9, FlushCommitKeeps
<1>10. CASE FlushFails
  BY <1>10, FlushFailsKeeps
<1>11. CASE FlushRefused
  BY <1>11, FlushRefusedKeeps
<1>12. CASE Stop \/ CloseConsumer \/ LoopEnds
  <2>1. timer' \in BOOLEAN /\ loopPc' \in LoopPcs /\ failed' \in BOOLEAN
    BY <1>12, <1>t DEF Stop, CloseConsumer, LoopEnds, TypeOK, LoopPcs
  <2>2. phase # "down" /\ phase' \in Phases \ {"down"}
    BY <1>12, <1>t DEF Stop, CloseConsumer, LoopEnds, TypeOK, Phases
  <2> QED BY <1>12, <2>1, <2>2, SameBatchKeeps DEF Stop, CloseConsumer, LoopEnds
<1>13. CASE Drain
  <2>1. phase # "down" /\ phase' \in Phases \ {"down"} /\ failed' \in BOOLEAN
    BY <1>13, <1>t DEF Drain, Delivered, TypeOK, service
  <2>2. timer' \in BOOLEAN /\ loopPc' \in LoopPcs
    BY <1>13, <1>t DEF Drain, TypeOK, LoopPcs
  <2> QED BY <1>13, <2>1, <2>2, SameBatchKeeps DEF Drain
<1>14. CASE CloseProducer
  <2>1. timer' \in BOOLEAN /\ loopPc' \in LoopPcs /\ failed' \in BOOLEAN
    BY <1>14, <1>t DEF CloseProducer, TypeOK
  <2> QED BY <1>14, <2>1, SameBatchKeeps DEF CloseProducer, Phases
<1>15. CASE Exit
  BY <1>15, <1>t, ProcessLostKeeps DEF Exit, TypeOK
<1>16. CASE Crash
  BY <1>16, <1>t, ProcessLostKeeps DEF Crash, TypeOK
<1>17. CASE Restart
  BY <1>17, RestartKeeps
<1>18. CASE UNCHANGED vars
  <2>1. CASE phase = "down"
    BY <1>18, <2>1 DEF vars, IInv, TypeOK, Delivered, Carried, Separated, Fresh, Reaches,
       FlightProgress, NoLoss, Buffered, Owed, Settled, Anchorable, KindOf, Poison, Valid,
       Genuine, Settles
  <2>2. CASE phase # "down"
    BY <1>18, <1>t, <2>2, SameBatchKeeps DEF vars, kafka, flusher, TypeOK
  <2> QED BY <2>1, <2>2
<1> QED BY <1>1, <1>2, <1>3, <1>4, <1>5, <1>6, <1>7, <1>8, <1>9, <1>10, <1>11, <1>12,
           <1>13, <1>14, <1>15, <1>16, <1>17, <1>18 DEF Next

(* The inductive invariant holds in every reachable state.                 *)
THEOREM Invariant == Spec => []IInv
<1>1. Init => IInv
  BY InitInv
<1>2. IInv /\ [Next]_vars => IInv'
  BY NextKeeps
<1> QED BY <1>1, <1>2, PTL DEF Spec

(* Type correctness.                                                       *)
THEOREM TypeCorrect == Spec => []TypeOK
<1>1. IInv => TypeOK
  BY DEF IInv
<1> QED BY <1>1, Invariant, PTL

(* No telemetry is lost, whatever fails and wherever the process crashes.  *)
THEOREM NothingLost == Spec => []NoLoss
<1>1. IInv => NoLoss
  BY DEF IInv
<1> QED BY <1>1, Invariant, PTL

(* Every delivered and uncommitted record is still in one of the batches.  *)
THEOREM EverythingAccounted == Spec => []Accounted
<1>1. IInv => Accounted
  BY DEF IInv, Carried, Settles, Accounted
<1> QED BY <1>1, Invariant, PTL

-----------------------------------------------------------------------------
(* What a step does to the broker: a topic only grows, and the committed   *)
(* offsets move only after a flight that is durable, with no send beside.  *)
LEMMA StepEffect ==
  ASSUME IInv, [Next]_vars
  PROVE  /\ log' = log
         /\ \A r \in dlq : r \in dlq'
         /\ \A b \in BagToSet(batched) : b \in BagToSet(batched')
         /\ \/ committed' = committed
            \/ flushPc = "commit" /\ committed' = LastOffsets(inflight) /\ UNCHANGED <<batched, dlq>>
<1>t. TypeOK
  BY DEF IInv
<1>1. CASE FlushPoison
  BY <1>1 DEF FlushPoison, InFlush
<1>2. CASE FlushOversized
  BY <1>2 DEF FlushOversized, InFlush
<1>3. CASE FlushProduce
  <2>1. PICK pieces \in Fitted(inflight) : batched' = batched (+) SetToBag(pieces)
    BY <1>3 DEF FlushProduce
  <2>2. BagToSet(batched') = BagToSet(batched) \cup pieces
    BY <2>1, BagOfSend
  <2> QED BY <1>3, <2>2 DEF FlushProduce, InFlush
<1>4. CASE FlushCommit
  BY <1>4 DEF FlushCommit, InFlush
<1>5. CASE FlushFails
  BY <1>5, FlushFailsEffect
<1>6. CASE UNCHANGED kafka
  BY <1>6 DEF kafka
<1>7. ASSUME NEW p \in Partitions, SkipRecord(p) \/ AddRecord(p) PROVE UNCHANGED kafka
  BY <1>7 DEF SkipRecord, AddRecord, NextRecord
<1>8. CASE LagLow \/ LagHigh \/ TimerFires \/ FlushRefused \/ Drain
  BY <1>6, <1>8 DEF LagLow, LagHigh, TimerFires, FlushRefused, Drain
<1>10. CASE Stop \/ CloseConsumer \/ LoopEnds \/ CloseProducer
  BY <1>6, <1>10 DEF Stop, CloseConsumer, LoopEnds, CloseProducer
<1>9. CASE Exit \/ Crash \/ Restart \/ UNCHANGED vars
  BY <1>6, <1>9 DEF Exit, Crash, Restart, ProcessLost, vars, kafka
<1> QED BY <1>1, <1>2, <1>3, <1>4, <1>5, <1>6, <1>7, <1>8, <1>9, <1>10 DEF Next

(* No step moves a committed offset back.                                  *)
LEMMA CommitForward ==
  ASSUME IInv, [Next]_vars
  PROVE  \A p \in Partitions : committed'[p] >= committed[p]
<1>1. committed \in [Partitions -> Nat]
  BY DEF IInv, TypeOK
<1>2. CASE committed' = committed
  BY <1>1, <1>2
<1>3. CASE flushPc = "commit" /\ committed' = LastOffsets(inflight)
  BY <1>1, <1>3, LastOffsetsFacts
<1> QED BY <1>2, <1>3, StepEffect

(* An offset once committed is never committed again at a lower value.     *)
THEOREM CommittedNeverGoesBack == Spec => CommittedMonotone
<1>1. IInv /\ [Next]_vars => [\A p \in Partitions : committed'[p] >= committed[p]]_committed
  BY CommitForward
<1> QED BY <1>1, Invariant, PTL DEF Spec, CommittedMonotone

(* The batcher implements the at-least-once consumer: a step of it settles *)
(* records, or commits offsets up to which all is settled, or neither.     *)
THEOREM Refinement == Spec => ImplementsAtLeastOnce
<1>1. Init => ALO!ALOInit
  <2> SUFFICES ASSUME Init PROVE ALO!ALOInit
    OBVIOUS
  <2>1. BagToSet(batched) = {}
    BY DEF Init, BagToSet, EmptyBag, SetToBag
  <2>2. Owed \subseteq Partitions \X (Nat \ {0})
    BY BatcherAssumption DEF Owed, Record
  <2>3. Settled = {}
    BY <2>1 DEF Init, Settled, Anchorable
  <2> QED BY <2>2, <2>3 DEF Init, ALO!ALOInit
<1>2. IInv /\ [Next]_vars => [ALO!ALONext]_(ALO!aloVars)
  <2> SUFFICES ASSUME IInv, [Next]_vars PROVE [ALO!ALONext]_(ALO!aloVars)
    OBVIOUS
  <2>1. /\ Owed' = Owed
        /\ \A r \in Settled : r \in Settled'
        /\ \A r \in Settled' : r \in Owed'
    BY StepEffect, SettledGrows DEF Settled
  <2>2. CASE committed' = committed
    BY <2>1, <2>2 DEF ALO!ALONext, ALO!SettleRecords, ALO!aloVars
  <2>3. CASE flushPc = "commit" /\ committed' = LastOffsets(inflight) /\ UNCHANGED <<batched, dlq>>
    <3>1. log' = log
      BY StepEffect
    <3>2. Settled' = Settled
      BY <2>3, <3>1 DEF Settled, Owed, Anchorable
    <3>3. committed' \in [Partitions -> Nat]
      BY <2>3, LastOffsetsFacts
    <3>4. \A p \in Partitions : committed[p] <= committed'[p]
      BY <2>3, LastOffsetsFacts
    <3>5. ASSUME NEW p \in Partitions, NEW o \in 1..committed'[p], <<p, o>> \in Owed
          PROVE  <<p, o>> \in Settled
      BY <2>3, <3>5, LastOffsetsFacts
    <3>6. \A p \in Partitions : ALO!Unsettled(p, committed'[p]) = {}
      BY <3>5 DEF ALO!Unsettled
    <3> QED BY <2>1, <3>2, <3>3, <3>4, <3>6 DEF ALO!ALONext, ALO!CommitOffsets
  <2> QED BY <2>2, <2>3, StepEffect
<1> QED BY <1>1, <1>2, Invariant, PTL DEF Spec, ImplementsAtLeastOnce, ALO!ALOSpec

=============================================================================
