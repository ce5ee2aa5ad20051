------------------------- MODULE BatcherOnceProofs -------------------------
(***************************************************************************)
(* In what order and how often the batcher publishes, and how it comes to  *)
(* rest: three results that rest on OnceInv, which is inductive relative   *)
(* to the invariant of BatcherProofs.                                      *)
(***************************************************************************)
EXTENDS BatcherProofs

-----------------------------------------------------------------------------
(* The two conjuncts about the order of the buffer, for a sequence and for *)
(* a pair of items: b may stand behind a.                                  *)
MayFollow(a, b) ==
  a.partition = b.partition =>
    /\ a.offset <= b.offset
    /\ a.offset = b.offset => a.parsed # b.parsed

InOrder(s) == \A i, j \in 1..Len(s) : i < j => MayFollow(s[i], s[j])

(* A concatenation is in order when its parts are and every item of the    *)
(* second may stand behind every item of the first.                        *)
LEMMA InOrderConcat ==
  ASSUME NEW s \in Seq(Item), NEW t \in Seq(Item)
  PROVE  InOrder(s \o t) <=> /\ InOrder(s) /\ InOrder(t)
                             /\ \A a \in Range(s), b \in Range(t) : MayFollow(a, b)
<1>1. /\ Len(s) \in Nat /\ Len(t) \in Nat /\ Len(s \o t) = Len(s) + Len(t)
      /\ DOMAIN s = 1..Len(s) /\ DOMAIN t = 1..Len(t)
      /\ \A i \in 1..(Len(s) + Len(t)) : (s \o t)[i] = IF i <= Len(s) THEN s[i] ELSE t[i - Len(s)]
  BY ConcatProperties, LenProperties
<1>2. PICK m \in Nat : m = Len(s)
  BY <1>1
<1>3. PICK n \in Nat : n = Len(t)
  BY <1>1
<1> DEFINE u == s \o t
<1>4. /\ Len(u) = m + n
      /\ \A i \in 1..m : i \in 1..(m + n) /\ u[i] = s[i]
      /\ \A i \in 1..n : m + i \in 1..(m + n) /\ u[m + i] = t[i]
      /\ \A i \in 1..(m + n) : i \in 1..m \/ (i - m \in 1..n /\ u[i] = t[i - m])
  <2>1. \A i \in 1..(m + n) : u[i] = IF i <= m THEN s[i] ELSE t[i - m]
    BY <1>1, <1>2, <1>3
  <2>2. \A i \in 1..m : i \in 1..(m + n) /\ i <= m
    OBVIOUS
  <2>3. \A i \in 1..n : m + i \in 1..(m + n) /\ ~(m + i <= m) /\ (m + i) - m = i
    OBVIOUS
  <2>4. \A i \in 1..(m + n) : i \in 1..m \/ (~(i <= m) /\ i - m \in 1..n)
    OBVIOUS
  <2>5. Len(u) = m + n
    BY <1>1, <1>2, <1>3
  <2> HIDE DEF u
  <2>6. \A i \in 1..m : u[i] = s[i]
    BY <2>1, <2>2
  <2>7. \A i \in 1..n : u[m + i] = t[i]
    BY <2>1, <2>3
  <2>8. \A i \in 1..(m + n) : i \in 1..m \/ (i - m \in 1..n /\ u[i] = t[i - m])
    BY <2>1, <2>4
  <2> QED BY <2>2, <2>3, <2>5, <2>6, <2>7, <2>8
<1>5. /\ \A a \in Range(s) : \E i \in 1..m : s[i] = a
      /\ \A a \in Range(t) : \E i \in 1..n : t[i] = a
      /\ \A i \in 1..m : s[i] \in Range(s)
      /\ \A i \in 1..n : t[i] \in Range(t)
  BY <1>1, <1>2, <1>3 DEF Range
<1> HIDE DEF u
<1>6. ASSUME InOrder(u)
      PROVE  InOrder(s) /\ InOrder(t) /\ \A a \in Range(s), b \in Range(t) : MayFollow(a, b)
  <2>1. \A i, j \in 1..(m + n) : i < j => MayFollow(u[i], u[j])
    BY <1>4, <1>6 DEF InOrder
  <2>2. ASSUME NEW i \in 1..m, NEW j \in 1..m, i < j PROVE MayFollow(s[i], s[j])
    BY <1>4, <2>1, <2>2
  <2>3. ASSUME NEW i \in 1..n, NEW j \in 1..n, i < j PROVE MayFollow(t[i], t[j])
    <3>1. m + i < m + j
      BY <2>3
    <3> QED BY <1>4, <2>1, <3>1
  <2>4. ASSUME NEW i \in 1..m, NEW j \in 1..n PROVE MayFollow(s[i], t[j])
    <3>1. i < m + j
      OBVIOUS
    <3> QED BY <1>4, <2>1, <3>1
  <2> QED BY <1>2, <1>3, <1>5, <2>2, <2>3, <2>4 DEF InOrder
<1>7. ASSUME InOrder(s), InOrder(t), \A a \in Range(s), b \in Range(t) : MayFollow(a, b)
      PROVE  InOrder(u)
  <2> SUFFICES ASSUME NEW i \in 1..(m + n), NEW j \in 1..(m + n), i < j
               PROVE  MayFollow(u[i], u[j])
    BY <1>4 DEF InOrder
  <2>1. CASE i \in 1..m /\ j \in 1..m
    BY <1>2, <1>4, <1>7, <2>1 DEF InOrder
  <2>2. CASE i \in 1..m /\ j \notin 1..m
    BY <1>4, <1>5, <1>7, <2>2
  <2>3. CASE i \notin 1..m
    <3>1. j \notin 1..m /\ i - m < j - m
      BY <2>3
    <3> QED BY <1>3, <1>4, <1>7, <2>3, <3>1 DEF InOrder
  <2> QED BY <2>1, <2>2, <2>3
<1> QED BY <1>6, <1>7 DEF u

(* The items of one record are in order: there are two of them only when   *)
(* one is valid and the other poison.                                      *)
LEMMA ItemsInOrder ==
  ASSUME TypeOK, NEW p \in Partitions, NEW o \in 1..Len(log[p]), log[p][o] # "ignored"
  PROVE  InOrder(ItemsOf(p, o))
<1> DEFINE ok  == [partition |-> p, offset |-> o, parsed |-> TRUE]
           bad == [partition |-> p, offset |-> o, parsed |-> FALSE]
           kind == log[p][o]
<1>1. kind \in RecordKinds \ {"ignored"}
  <2>1. log[p][o] \in Kinds
    BY LenProperties, ElementOfSeq DEF TypeOK
  <2> QED BY <2>1, BatcherAssumption
<1>2. o \in Int
  BY LenProperties DEF TypeOK
<1>3. MayFollow(ok, bad)
  BY <1>2 DEF MayFollow
<1>4. \/ ItemsOf(p, o) = <<ok>>
      \/ ItemsOf(p, o) = <<bad>>
      \/ ItemsOf(p, o) = <<ok, bad>>
  BY <1>1 DEF ItemsOf, RecordKinds
<1> HIDE DEF ok, bad
<1>5. \A i, j \in 1..1 : ~(i < j)
  OBVIOUS
<1>6. \A i, j \in 1..2 : i < j => i = 1 /\ j = 2
  OBVIOUS
<1>7. InOrder(<<ok>>) /\ InOrder(<<bad>>)
  BY <1>5 DEF InOrder
<1>8. InOrder(<<ok, bad>>)
  BY <1>3, <1>6 DEF InOrder
<1> QED BY <1>4, <1>7, <1>8

(* The buffer is in order exactly when BufferOrdered and BufferDistinct    *)
(* hold of it.                                                             *)
LEMMA InOrderMeans ==
  ASSUME NEW s \in Seq(Item)
  PROVE  InOrder(s) <=>
           /\ \A i, j \in 1..Len(s) :
                (i < j /\ s[i].partition = s[j].partition) => s[i].offset <= s[j].offset
           /\ \A i, j \in 1..Len(s) :
                (i < j /\ RecordOf(s[i]) = RecordOf(s[j])) => s[i].parsed # s[j].parsed
<1>1. \A i \in 1..Len(s) : s[i] \in Item
  BY ElementOfSeq
<1>2. \A a, b \in Item :
        MayFollow(a, b) <=>
          /\ a.partition = b.partition => a.offset <= b.offset
          /\ RecordOf(a) = RecordOf(b) => a.parsed # b.parsed
  BY DEF MayFollow, RecordOf, Item
<1> QED BY <1>1, <1>2 DEF InOrder

-----------------------------------------------------------------------------
(* How the buffer moves.                                                   *)

(* A flush that starts detaches the whole batch, which nothing was ahead   *)
(* of: the buffer reads the same before and after.                         *)
LEMMA FlushMoves ==
  ASSUME TypeOK, Delivered, NEW batch \in Seq(Item), Flush(batch)
  PROVE  Buffer' = inflight \o batch
<1>1. CASE flushPc # "idle" \/ batch = << >>
  BY <1>1 DEF Flush, Buffer
<1>2. CASE flushPc = "idle" /\ batch # << >>
  <2>1. inflight = << >> /\ inflight' = batch /\ pending' = << >>
    BY <1>2 DEF Flush, Delivered
  <2>2. batch \o << >> = batch /\ << >> \o batch = batch
    BY ConcatEmptySeq
  <2> QED BY <2>1, <2>2 DEF Buffer
<1> QED BY <1>1, <1>2

(* A batch that is put back is ahead of what arrived meanwhile, as it was. *)
LEMMA ReattachMoves ==
  ASSUME TypeOK, Reattach
  PROVE  Buffer' = Buffer
<1>1. inflight' = << >> /\ pending' = inflight \o pending
  BY DEF Reattach, Settle
<1>2. inflight \o pending \in Seq(Item)
  BY ConcatProperties DEF TypeOK
<1>3. << >> \o (inflight \o pending) = inflight \o pending
  BY <1>2, ConcatEmptySeq
<1> QED BY <1>1, <1>3 DEF Buffer

(* What a step can do to the buffer.                                       *)
LEMMA BufferMoves ==
  ASSUME IInv, [Next]_vars
  PROVE  \/ Buffer' = Buffer
         \/ FlushCommit /\ Buffer' = pending
         \/ ProcessLost /\ Buffer' = << >>
         \/ \E p \in Partitions :
              AddRecord(p) /\ Buffer' = Buffer \o ItemsOf(p, position[p] + 1)
<1>t. /\ TypeOK /\ Delivered /\ pending \in Seq(Item) /\ inflight \in Seq(Item)
  BY DEF IInv, TypeOK
<1>e. /\ << >> \o pending = pending
      /\ << >> \o << >> = << >>
  BY <1>t, ConcatEmptySeq
<1>1. ASSUME NEW p \in Partitions, AddRecord(p)
      PROVE  Buffer' = Buffer \o ItemsOf(p, position[p] + 1)
  <2> DEFINE new == ItemsOf(p, position[p] + 1)
             batch == pending \o new
  <2>1. position[p] + 1 \in 1..Len(log[p]) /\ log[p][position[p] + 1] # "ignored"
    BY <1>1, <1>t, LenProperties DEF AddRecord, NextRecord, TypeOK
  <2>2. new \in Seq(Item)
    BY <1>t, <2>1, ItemsOfRecord
  <2>3. MaybeFlush(batch)
    BY <1>1 DEF AddRecord
  <2> HIDE DEF new
  <2>4. batch \in Seq(Item)
    BY <1>t, <2>2, ConcatProperties
  <2>5. Buffer' = inflight \o batch
    <3>1. CASE Flush(batch)
      BY <1>t, <2>4, <3>1, FlushMoves
    <3>2. CASE pending' = batch /\ inflight' = inflight
      BY <3>2 DEF Buffer
    <3> QED BY <2>3, <3>1, <3>2 DEF MaybeFlush, FlushBatch
  <2>6. inflight \o batch = Buffer \o new
    BY <1>t, <2>2, ConcatAssociative DEF Buffer
  <2> QED BY <2>5, <2>6 DEF new
<1>2. ASSUME Flush(pending) PROVE Buffer' = Buffer
  BY <1>2, <1>t, FlushMoves DEF Buffer
<1>3. ASSUME UNCHANGED <<pending, inflight>> PROVE Buffer' = Buffer
  BY <1>3 DEF Buffer
<1>4. CASE LagHigh \/ TimerFires \/ Drain
  BY <1>2, <1>4 DEF LagHigh, TimerFires, Drain, FlushBatch
<1>5. CASE FlushPoison
  BY <1>3, <1>5, <1>t, ReattachMoves DEF FlushPoison
<1>6. CASE FlushFails \/ FlushRefused
  BY <1>6, <1>t, ReattachMoves DEF FlushFails, FlushRefused
<1>7. CASE FlushCommit
  BY <1>7, <1>e DEF FlushCommit, Settle, Buffer
<1>8. CASE FlushOversized \/ FlushProduce
  BY <1>3, <1>8 DEF FlushOversized, FlushProduce
<1>9. CASE LagLow \/ Stop \/ CloseConsumer \/ LoopEnds \/ CloseProducer \/ Restart \/ UNCHANGED vars
  BY <1>3, <1>9 DEF LagLow, Stop, CloseConsumer, LoopEnds, CloseProducer, Restart, vars, flusher
<1>10. ASSUME NEW p \in Partitions, SkipRecord(p) PROVE Buffer' = Buffer
  BY <1>3, <1>10 DEF SkipRecord, flusher
<1>11. CASE Exit \/ Crash
  BY <1>11, <1>e DEF Exit, Crash, ProcessLost, Buffer
<1> QED BY <1>1, <1>4, <1>5, <1>6, <1>7, <1>8, <1>9, <1>10, <1>11 DEF Next

(* What the batches hold is what the buffer holds.                         *)
LEMMA BufferedInBuffer ==
  ASSUME TypeOK
  PROVE  Buffer \in Seq(Item) /\ Range(Buffer) = Buffered
<1>1. pending \in Seq(Item) /\ inflight \in Seq(Item)
  BY DEF TypeOK
<1> QED BY <1>1, RangeConcat, ConcatProperties DEF Buffer, Buffered

(* The same after a step.                                                  *)
LEMMA BufferedInBufferNext ==
  ASSUME IInv, [Next]_vars
  PROVE  Buffer' \in Seq(Item) /\ Range(Buffer') = Buffered'
<1>1. pending' \in Seq(Item) /\ inflight' \in Seq(Item)
  BY NextKeeps DEF IInv, TypeOK
<1> QED BY <1>1, RangeConcat, ConcatProperties DEF Buffer, Buffered

(* Every step leaves the buffer in order: a new record is behind all those *)
(* of its partition that were delivered before it.                         *)
LEMMA OrderKeeps ==
  ASSUME IInv, InOrder(Buffer), [Next]_vars
  PROVE  InOrder(Buffer')
<1>t. /\ TypeOK /\ Delivered /\ Buffer \in Seq(Item) /\ Range(Buffer) = Buffered
      /\ pending \in Seq(Item) /\ inflight \in Seq(Item)
  BY BufferedInBuffer DEF IInv, TypeOK
<1>1. CASE Buffer' = Buffer
  BY <1>1
<1>2. CASE Buffer' = pending
  BY <1>2, <1>t, InOrderConcat DEF Buffer
<1>3. CASE Buffer' = << >>
  BY <1>3 DEF InOrder
<1>4. ASSUME NEW p \in Partitions, AddRecord(p), Buffer' = Buffer \o ItemsOf(p, position[p] + 1)
      PROVE  InOrder(Buffer')
  <2> DEFINE o == position[p] + 1
             new == ItemsOf(p, o)
  <2>1. o \in 1..Len(log[p]) /\ log[p][o] # "ignored" /\ position[p] \in Nat
    BY <1>4, <1>t, LenProperties DEF AddRecord, NextRecord, TypeOK
  <2>2. /\ new \in Seq(Item) /\ InOrder(new)
        /\ \A b \in Range(new) : b.partition = p /\ b.offset = o
    <3>1. ASSUME NEW k \in 1..Len(log[p]), log[p][k] # "ignored"
          PROVE  /\ ItemsOf(p, k) \in Seq(Item) /\ InOrder(ItemsOf(p, k))
                 /\ \A b \in Range(ItemsOf(p, k)) : b.partition = p /\ b.offset = k
      <4>1. TypeOK
        BY <1>t
      <4>2. InOrder(ItemsOf(p, k))
        BY <3>1, <4>1, ItemsInOrder
      <4>3. /\ ItemsOf(p, k) \in Seq(Item)
            /\ \A b \in Range(ItemsOf(p, k)) : b.partition = p /\ b.offset = k
        BY <3>1, <4>1, ItemsOfRecord
      <4> QED BY <4>2, <4>3
    <3> QED BY <2>1, <3>1
  <2>3. ASSUME NEW a \in Range(Buffer), NEW b \in Range(new) PROVE MayFollow(a, b)
    <3>1. a.offset <= position[a.partition] /\ a \in Item
      BY <1>t, SeqElements DEF Delivered
    <3>2. b.partition = p /\ b.offset = o
      BY <2>2
    <3>3. a.offset \in Nat
      BY <3>1 DEF Item
    <3>4. a.partition = p => a.offset < b.offset /\ a.offset # b.offset
      BY <2>1, <3>1, <3>2, <3>3
    <3> HIDE DEF o, new
    <3> QED BY <2>1, <3>2, <3>3, <3>4 DEF MayFollow, o
  <2> HIDE DEF new
  <2> QED BY <1>4, <1>t, <2>2, <2>3, InOrderConcat DEF new
<1> QED BY <1>1, <1>2, <1>3, <1>4, BufferMoves

-----------------------------------------------------------------------------
(* How the service winds down.                                             *)

(* A step of the flush handler that ends the flight.                       *)
LEMMA SettleWinds ==
  ASSUME IInv, WindingDown, flushPc # "idle", phase' = phase, failed' = failed, Settle,
         timer' = timer \/ Reattach
  PROVE  WindingDown'
<1>1. flushPc' = "idle" /\ loopPc' = CASE loopPc = "flush" -> "await"
                                       [] loopPc = "final" -> "done"
                                       [] OTHER            -> loopPc
  BY DEF Settle
<1>2. timer \in BOOLEAN /\ loopPc \in LoopPcs
  BY DEF IInv, TypeOK
<1>3. /\ Ended' <=> Ended
      /\ loopPc = "done" => loopPc' = "done"
      /\ loopPc' # "final"
  BY <1>1, <1>2 DEF Ended, LoopPcs
<1>4. (Ended /\ ~failed) => ~timer'
  <2> SUFFICES ASSUME Ended, ~failed PROVE ~timer'
    OBVIOUS
  <2>1. ~timer /\ phase # "running"
    BY DEF WindingDown
  <2> QED BY <2>1 DEF Reattach
<1> QED BY <1>1, <1>3, <1>4 DEF WindingDown

(* A step that joins or starts a flush, or does nothing to the flusher,    *)
(* and stops or leaves the timer, with the loop where it was.              *)
LEMMA JoinWinds ==
  ASSUME IInv, WindingDown, phase' = phase, failed' = failed, loopPc' = loopPc,
         \/ timer' = timer /\ UNCHANGED flusher
         \/ FlushBatch(pending) /\ (loopPc = "done" => phase = "closed" /\ failed)
  PROVE  WindingDown'
<1>1. CASE timer' = timer /\ UNCHANGED flusher
  BY <1>1 DEF WindingDown, Ended, flusher
<1>2. CASE FlushBatch(pending) /\ (loopPc = "done" => phase = "closed" /\ failed)
  <2>1. timer' = FALSE
    BY <1>2 DEF FlushBatch
  <2>2. pending' = << >> \/ pending' = pending
    BY <1>2 DEF FlushBatch, Flush
  <2> QED BY <1>2, <2>1, <2>2 DEF WindingDown, Ended
<1> QED BY <1>1, <1>2

(* Every step preserves WindingDown.  A timer that fires after the loop is *)
(* done fires on the closed producer of a service whose stream had failed: *)
(* before that the next continuation is due.                               *)
LEMMA WindingKeeps ==
  ASSUME IInv, WindingDown, [Next]_vars
  PROVE  WindingDown'
<1>t. /\ TypeOK /\ Delivered /\ timer \in BOOLEAN /\ failed \in BOOLEAN
      /\ loopPc \in LoopPcs /\ phase \in Phases
  BY DEF IInv, TypeOK
<1>1. ASSUME NEW p \in Partitions, SkipRecord(p) PROVE WindingDown'
  BY <1>1, JoinWinds DEF SkipRecord, NextRecord, service
<1>2. ASSUME NEW p \in Partitions, AddRecord(p) PROVE WindingDown'
  <2>1. loopPc = "await" /\ phase = "running" /\ loopPc' \in {"lag", "flush"} /\ UNCHANGED service
    BY <1>2 DEF AddRecord, NextRecord, MaybeFlush
  <2> QED BY <2>1 DEF WindingDown, Ended, service
<1>3. CASE LagLow
  BY <1>3 DEF LagLow, WindingDown, Ended, service
<1>4. CASE LagHigh
  BY <1>4 DEF LagHigh, WindingDown, Ended, service
<1>5. CASE TimerFires
  <2>1. loopPc = "done" => phase = "closed" /\ failed
    <3> SUFFICES ASSUME loopPc = "done" PROVE phase = "closed" /\ failed
      OBVIOUS
    <3>1. failed
      BY <1>5 DEF TimerFires, WindingDown, Ended
    <3>2. phase \notin {"running", "closing", "stopping", "down"}
      BY <1>5, <3>1 DEF TimerFires, Due, Rejected
    <3> QED BY <1>t, <3>1, <3>2 DEF Phases
  <2> QED BY <1>5, <2>1, JoinWinds DEF TimerFires, service
<1>6. CASE FlushPoison
  <2>1. CASE Reattach
    BY <1>6, <2>1, SettleWinds DEF FlushPoison, InFlush, Reattach, service
  <2>2. CASE flushPc' = "oversized" /\ UNCHANGED <<pending, inflight, loopPc, timer>>
    BY <1>6, <2>2 DEF FlushPoison, InFlush, WindingDown, Ended, service
  <2> QED BY <1>6, <2>1, <2>2 DEF FlushPoison
<1>7. CASE FlushOversized
  BY <1>7 DEF FlushOversized, InFlush, WindingDown, Ended, service
<1>8. CASE FlushProduce
  BY <1>8 DEF FlushProduce, InFlush, WindingDown, Ended, service
<1>9. CASE FlushCommit
  BY <1>9, SettleWinds DEF FlushCommit, InFlush, service
<1>10. CASE FlushFails
  <2>1. flushPc # "idle" /\ phase' = phase /\ failed' = failed
    BY <1>10, FlushFailsEffect
  <2> QED BY <1>10, <2>1, SettleWinds DEF FlushFails, Reattach
<1>11. CASE FlushRefused
  BY <1>11, SettleWinds DEF FlushRefused, Refused, Reattach, service
<1>12. CASE Stop \/ CloseConsumer
  BY <1>12 DEF Stop, CloseConsumer, flusher, WindingDown, Ended
<1>13. CASE LoopEnds
  BY <1>13, <1>t DEF LoopEnds, flusher, WindingDown, Ended
<1>14. CASE Drain
  <2>1. pending' = << >>
    BY <1>14 DEF Drain, Flush
  <2>2. loopPc = "drain" /\ loopPc' = IF flushPc' = "idle" THEN "done" ELSE "final"
    BY <1>14 DEF Drain
  <2>3. timer' = timer /\ UNCHANGED service
    BY <1>14 DEF Drain
  <2> QED BY <2>1, <2>2, <2>3 DEF WindingDown, Ended, service
<1>15. CASE CloseProducer
  BY <1>15 DEF CloseProducer, flusher, WindingDown, Ended
<1>16. CASE Exit \/ Crash
  BY <1>16 DEF Exit, Crash, ProcessLost, WindingDown, Ended
<1>17. CASE Restart
  BY <1>17, <1>t DEF Restart, flusher, Delivered, WindingDown, Ended
<1>18. CASE UNCHANGED vars
  BY <1>18, JoinWinds DEF vars, flusher
<1> QED BY <1>1, <1>2, <1>3, <1>4, <1>5, <1>6, <1>7, <1>8, <1>9, <1>10, <1>11, <1>12,
           <1>13, <1>14, <1>15, <1>16, <1>17, <1>18 DEF Next

-----------------------------------------------------------------------------
(* What a flight of the closed producer gets to.                           *)

(* A sequence without elements is empty.                                   *)
LEMMA EmptyRange ==
  ASSUME NEW s \in Seq(Item), Range(s) = {}
  PROVE  s = << >>
<1>1. Len(s) \in Nat /\ DOMAIN s = 1..Len(s)
  BY LenProperties
<1>2. Len(s) = 0
  <2>1. ASSUME Len(s) # 0 PROVE FALSE
    <3>1. 1 \in DOMAIN s
      BY <1>1, <2>1
    <3> QED BY <3>1 DEF Range
  <2> QED BY <2>1
<1> QED BY <1>2, EmptySeq

(* A flight with nothing left to send to either topic is empty: each of    *)
(* its items is poison or a valid item of one of three kinds.              *)
LEMMA NothingToSend ==
  ASSUME IInv, Poison = {}, Valid({"unaddressable"}) = {}, Valid({"oversized"}) = {},
         Valid({"good"}) = {}
  PROVE  Range(inflight) = {}
<1> SUFFICES ASSUME NEW i \in Range(inflight) PROVE FALSE
  OBVIOUS
<1>1. Genuine(i)
  BY DEF IInv, Delivered, Buffered
<1>2. i.parsed
  BY DEF Poison
<1>3. KindOf(i) \in {"good", "oversized", "unaddressable"}
  BY <1>1, <1>2 DEF Genuine
<1> QED BY <1>2, <1>3 DEF Valid

(* The flight of a step that leaves it alone is the same flight.           *)
LEMMA FlightStays ==
  ASSUME IInv, [Next]_vars, inflight' = inflight
  PROVE  Poison' = Poison /\ \A kinds : Valid(kinds)' = Valid(kinds)
BY StepEffect DEF Poison, Valid, KindOf

(* Every step preserves ClosedFlight: the first thing the flight has to    *)
(* send is refused.                                                        *)
LEMMA ClosedFlightKeeps ==
  ASSUME IInv, WindingDown, ClosedFlight, [Next]_vars
  PROVE  ClosedFlight'
<1>t. TypeOK /\ Delivered /\ inflight \in Seq(Item)
  BY DEF IInv, TypeOK
<1> SUFFICES ASSUME phase' = "closed"
             PROVE  ClosedFlight'
  BY DEF ClosedFlight
<1>1. ASSUME flushPc' \in {"idle", "poison"} PROVE ClosedFlight'
  BY <1>1 DEF ClosedFlight
<1>2. CASE CloseProducer
  <2>1. flushPc = "idle"
    BY <1>2 DEF CloseProducer, WindingDown
  <2> QED BY <1>1, <1>2, <2>1 DEF CloseProducer, flusher
<1>3. CASE phase # "closed" /\ ~CloseProducer
  BY <1>3 DEF Next, SkipRecord, AddRecord, NextRecord, LagLow, LagHigh, TimerFires, FlushPoison,
     FlushOversized, FlushProduce, FlushCommit, InFlush, FlushFails, FlushRefused, Stop,
     CloseConsumer, LoopEnds, Drain, Exit, Crash, ProcessLost, Restart, vars, service
<1> SUFFICES ASSUME phase = "closed", ~CloseProducer PROVE ClosedFlight'
  BY <1>2, <1>3
<1>4. loopPc = "done" /\ flushPc # "commit"
  BY DEF WindingDown, ClosedFlight
<1>5. ASSUME flushPc' = flushPc, inflight' = inflight PROVE ClosedFlight'
  BY <1>5, FlightStays DEF ClosedFlight
<1>6. CASE TimerFires
  <2>1. \/ flushPc' = flushPc /\ inflight' = inflight
        \/ flushPc' = "poison"
    BY <1>6 DEF TimerFires, FlushBatch, Flush
  <2> QED BY <1>1, <1>5, <2>1
<1>7. CASE FlushPoison
  <2>1. CASE Reattach
    BY <1>1, <2>1 DEF Reattach, Settle
  <2>2. CASE Valid({"unaddressable"}) = {} /\ flushPc' = "oversized" /\ inflight' = inflight
    <3>1. Poison = {}
      BY <1>7 DEF FlushPoison, InFlush, Refused
    <3> QED BY <2>2, <3>1, FlightStays DEF ClosedFlight
  <2> QED BY <1>7, <2>1, <2>2 DEF FlushPoison
<1>8. CASE FlushOversized
  <2>1. flushPc = "oversized" /\ flushPc' = "produce" /\ inflight' = inflight
    BY <1>8 DEF FlushOversized, InFlush
  <2>2. Poison = {} /\ Valid({"unaddressable"}) = {}
    BY <2>1 DEF ClosedFlight
  <2>3. Valid({"oversized"}) = {}
    BY <1>8 DEF FlushOversized, InFlush, Refused
  <2> QED BY <2>1, <2>2, <2>3, FlightStays DEF ClosedFlight
<1>9. CASE FlushProduce
  <2>1. flushPc = "produce" /\ Valid({"good"}) = {}
    BY <1>9 DEF FlushProduce, InFlush, Refused
  <2>2. Poison = {} /\ Valid({"unaddressable"}) = {} /\ Valid({"oversized"}) = {}
    BY <2>1 DEF ClosedFlight
  <2>3. Range(inflight) = {}
    BY <2>1, <2>2, NothingToSend
  <2>4. inflight # << >>
    BY <1>t, <2>1 DEF Delivered
  <2> QED BY <1>t, <2>3, <2>4, EmptyRange
<1>10. CASE FlushCommit
  BY <1>4, <1>10 DEF FlushCommit, InFlush
<1>11. CASE FlushFails \/ FlushRefused
  BY <1>1, <1>11 DEF FlushFails, FlushRefused, Reattach, Settle
<1>12. CASE Exit \/ Crash
  BY <1>12 DEF Exit, Crash, ProcessLost
<1>13. CASE LagLow \/ LagHigh \/ LoopEnds \/ Drain
  BY <1>4, <1>13 DEF LagLow, LagHigh, LoopEnds, Drain
<1>14. CASE Stop \/ CloseConsumer \/ Restart
  BY <1>14 DEF Stop, CloseConsumer, Restart
<1>15. ASSUME NEW p \in Partitions, SkipRecord(p) \/ AddRecord(p) PROVE FALSE
  BY <1>15 DEF SkipRecord, AddRecord, NextRecord
<1>16. CASE UNCHANGED vars
  BY <1>5, <1>16 DEF vars
<1> QED BY <1>6, <1>7, <1>8, <1>9, <1>10, <1>11, <1>12, <1>13, <1>14, <1>15, <1>16 DEF Next

-----------------------------------------------------------------------------
(* What is published.                                                      *)

(* The topic after a send of batches that are not in it yet.               *)
LEMMA CopiesOfSend ==
  ASSUME NEW B, NEW S, \A x \in S : x \notin BagToSet(B)
  PROVE  /\ \A x \in BagToSet(B) : B[x] = 1 => (B (+) SetToBag(S))[x] = 1
         /\ \A x \in S : (B (+) SetToBag(S))[x] = 1
BY DEF BagToSet, SetToBag, (+)

(* Of a batch that is in order, no two payloads share a record, and none   *)
(* is empty.                                                               *)
LEMMA PiecesDisjoint ==
  ASSUME NEW batch \in Seq(Item), InOrder(batch), NEW pieces \in Fitted(batch)
  PROVE  /\ \A b \in pieces : b # {}
         /\ \A b, c \in pieces : b # c => b \cap c = {}
<1> DEFINE kept == {k \in 1..Len(batch) : Fits(batch[k])}
           piece(run, r) == {RecordOf(batch[k]) : k \in {j \in kept : run[j] = r}}
<1>1. PICK run \in [kept -> kept] : pieces = {piece(run, r) : r \in Range(run)}
  BY DEF Fitted
<1>2. \A k \in kept : k \in Int /\ k \in 1..Len(batch) /\ batch[k] \in Item /\ batch[k].parsed
  BY ElementOfSeq, LenProperties DEF Fits
<1>3. \A b, c \in Item : (RecordOf(b) = RecordOf(c) /\ b.parsed /\ c.parsed) => ~MayFollow(b, c)
  BY DEF MayFollow, RecordOf, Item
<1>4. ASSUME NEW j \in kept, NEW k \in kept, RecordOf(batch[j]) = RecordOf(batch[k])
      PROVE  j = k
  <2>1. /\ ~MayFollow(batch[j], batch[k])
        /\ ~MayFollow(batch[k], batch[j])
    BY <1>2, <1>3, <1>4
  <2>2. ~(j < k) /\ ~(k < j)
    BY <1>2, <2>1 DEF InOrder
  <2>3. j \in Int /\ k \in Int
    BY <1>2
  <2> HIDE DEF kept
  <2> QED BY <2>2, <2>3
<1>5. \A r \in Range(run) : \E k \in kept : run[k] = r
  BY DEF Range
<1> HIDE DEF kept
<1>6. ASSUME NEW b \in pieces PROVE b # {}
  <2>1. PICK r \in Range(run) : b = piece(run, r)
    BY <1>1
  <2>2. PICK k \in kept : run[k] = r
    BY <1>5
  <2>3. RecordOf(batch[k]) \in b
    BY <2>1, <2>2
  <2> QED BY <2>3
<1>7. ASSUME NEW b \in pieces, NEW c \in pieces, b # c PROVE b \cap c = {}
  <2>1. PICK r, q \in Range(run) : b = piece(run, r) /\ c = piece(run, q)
    BY <1>1
  <2>2. r # q
    BY <1>7, <2>1
  <2>3. ASSUME NEW x \in b \cap c PROVE FALSE
    <3>1. PICK j \in kept : run[j] = r /\ x = RecordOf(batch[j])
      BY <2>1, <2>3
    <3>2. PICK k \in kept : run[k] = q /\ x = RecordOf(batch[k])
      BY <2>1, <2>3
    <3>3. j = k
      BY <1>4, <3>1, <3>2
    <3> QED BY <2>2, <3>1, <3>2, <3>3
  <2> QED BY <2>3
<1> QED BY <1>6, <1>7

(* Until a fault nothing that is buffered has been committed.              *)
LEMMA UncommittedKeeps ==
  ASSUME IInv, Uncommitted, [Next]_vars, faults' = 0
  PROVE  Uncommitted'
<1>t. /\ TypeOK /\ Delivered /\ Range(Buffer) = Buffered /\ Range(Buffer') = Buffered'
      /\ pending \in Seq(Item) /\ inflight \in Seq(Item)
      /\ Buffer \in Seq(Item)
      /\ faults \in Nat
  BY BufferedInBuffer, BufferedInBufferNext DEF IInv, TypeOK
<1>1. CASE Buffer' = Buffer /\ committed' = committed
  BY <1>1, <1>t DEF Uncommitted
<1>2. CASE FlushCommit
  <2>1. flushPc = "commit" /\ committed' = LastOffsets(inflight) /\ pending' = pending
        /\ inflight' = << >>
    BY <1>2 DEF FlushCommit, InFlush, Settle
  <2>2. Buffered' = Range(pending)
    BY <2>1 DEF Buffered, Range
  <2>3. ASSUME NEW j \in Range(pending) PROVE committed'[j.partition] < j.offset
    <3>1. \/ committed'[j.partition] < j.offset
          \/ committed'[j.partition] = committed[j.partition]
      BY <2>1, LastOffsetsFacts
    <3>2. committed[j.partition] < j.offset
      BY DEF Uncommitted, Buffered
    <3> QED BY <3>1, <3>2
  <2> QED BY <2>2, <2>3 DEF Uncommitted
<1>3. CASE Buffer' = << >>
  <2>1. Buffered' = {}
    BY <1>3, <1>t DEF Range
  <2> QED BY <2>1 DEF Uncommitted
<1>4. ASSUME NEW p \in Partitions, AddRecord(p), Buffer' = Buffer \o ItemsOf(p, position[p] + 1)
      PROVE  Uncommitted'
  <2> DEFINE o == position[p] + 1
             new == ItemsOf(p, o)
  <2>1. /\ o \in 1..Len(log[p]) /\ log[p][o] # "ignored" /\ position[p] \in Nat
        /\ committed[p] \in Nat /\ committed' = committed /\ committed[p] <= position[p]
    BY <1>4, <1>t, LenProperties DEF AddRecord, NextRecord, TypeOK, Delivered, kafka
  <2>2. ASSUME NEW k \in 1..Len(log[p]), log[p][k] # "ignored"
        PROVE  /\ ItemsOf(p, k) \in Seq(Item)
               /\ \A b \in Range(ItemsOf(p, k)) : b.partition = p /\ b.offset = k
    <3>1. TypeOK
      BY <1>t
    <3> QED BY <2>2, <3>1, ItemsOfRecord
  <2>3. new \in Seq(Item) /\ \A b \in Range(new) : b.partition = p /\ b.offset = o
    BY <2>1, <2>2
  <2>4. committed[p] < o
    BY <2>1
  <2> HIDE DEF new
  <2>5. Buffered' = Buffered \cup Range(new)
    BY <1>4, <1>t, <2>3, RangeConcat DEF new
  <2> QED BY <2>1, <2>3, <2>4, <2>5 DEF Uncommitted
<1>5. CASE FlushFails
  BY <1>5, <1>t DEF FlushFails
<1>6. committed' = committed \/ FlushCommit \/ FlushFails
  BY DEF Next, SkipRecord, AddRecord, NextRecord, LagLow, LagHigh, TimerFires, FlushPoison,
     FlushOversized, FlushProduce, FlushRefused, Stop, CloseConsumer, LoopEnds, Drain, CloseProducer, Exit, Crash,
     ProcessLost, Restart, vars, kafka
<1> QED BY <1>1, <1>2, <1>3, <1>4, <1>5, <1>6, BufferMoves

(* A send publishes records of the flight only, each of them in one batch. *)
LEMMA ProduceEffect ==
  ASSUME IInv, InOrder(Buffer), FlushProduce
  PROVE  \E pieces \in Fitted(inflight) :
           /\ batched' = batched (+) SetToBag(pieces)
           /\ BagToSet(batched') = BagToSet(batched) \cup pieces
           /\ \A r \in UNION pieces : \E i \in Range(inflight) : RecordOf(i) = r
           /\ \A b \in pieces : b # {}
           /\ \A b, c \in pieces : b # c => b \cap c = {}
<1>1. PICK pieces \in Fitted(inflight) : batched' = batched (+) SetToBag(pieces)
  BY DEF FlushProduce
<1>2. pending \in Seq(Item) /\ inflight \in Seq(Item)
  BY DEF IInv, TypeOK
<1>3. InOrder(inflight)
  BY <1>2, InOrderConcat DEF Buffer
<1>4. UNION pieces = {RecordOf(i) : i \in {j \in Range(inflight) : Fits(j)}}
  BY <1>2, FittedCovers
<1>5. \A r \in UNION pieces : \E i \in Range(inflight) : RecordOf(i) = r
  BY <1>4
<1>6. /\ \A b \in pieces : b # {}
      /\ \A b, c \in pieces : b # c => b \cap c = {}
  BY <1>2, <1>3, PiecesDisjoint
<1>7. BagToSet(batched') = BagToSet(batched) \cup pieces
  BY <1>1, BagOfSend
<1> QED BY <1>1, <1>5, <1>6, <1>7

(* Until a fault a published record is committed, or the flight that       *)
(* carries it is about to commit it: no other step ends such a flight.     *)
LEMMA ReplayKeeps ==
  ASSUME IInv, InOrder(Buffer), WindingDown, ClosedFlight, NothingReplayed, [Next]_vars
  PROVE  NothingReplayed'
<1>t. /\ TypeOK /\ Delivered /\ faults \in Nat /\ inflight \in Seq(Item)
      /\ committed \in [Partitions -> Nat]
  BY DEF IInv, TypeOK
<1>g. faults' = 0 => faults = 0
  <2>1. ASSUME faults' = faults PROVE faults' = 0 => faults = 0
    BY <2>1
  <2>2. CASE FlushFails \/ Crash
    BY <1>t, <2>2 DEF FlushFails, Crash
  <2>3. ASSUME NEW p \in Partitions, SkipRecord(p) \/ AddRecord(p) PROVE faults' = faults
    BY <2>3 DEF SkipRecord, AddRecord, NextRecord
  <2>4. CASE LagLow \/ LagHigh \/ TimerFires \/ Drain
    BY <2>4 DEF LagLow, LagHigh, TimerFires, Drain
  <2>5. CASE FlushPoison \/ FlushOversized \/ FlushProduce \/ FlushCommit \/ FlushRefused
    BY <2>5 DEF FlushPoison, FlushOversized, FlushProduce, FlushCommit, FlushRefused
  <2>6. CASE Stop \/ CloseConsumer \/ LoopEnds \/ CloseProducer \/ Exit \/ Restart \/ UNCHANGED vars
    BY <2>6 DEF Stop, CloseConsumer, LoopEnds, CloseProducer, Exit, Restart, vars
  <2> QED BY <2>1, <2>2, <2>3, <2>4, <2>5, <2>6 DEF Next
<1> SUFFICES ASSUME faults' = 0, NEW r \in Anchorable'
             PROVE  r[2] <= committed'[r[1]] \/ Committing(r)'
  BY <1>g, UncommittedKeeps DEF NothingReplayed
<1>1. /\ Uncommitted
      /\ \A x \in Anchorable : x[2] <= committed[x[1]] \/ Committing(x)
  BY <1>g DEF NothingReplayed
<1>r. \A x \in Anchorable : x[1] \in Partitions /\ x[2] \in Nat
  BY <1>t DEF TypeOK, Anchorable, Record
<1>2. CASE FlushProduce
  <2>1. PICK pieces \in Fitted(inflight) :
          /\ BagToSet(batched') = BagToSet(batched) \cup pieces
          /\ \A x \in UNION pieces : \E i \in Range(inflight) : RecordOf(i) = x
    BY <1>2, ProduceEffect
  <2>2. /\ flushPc = "produce" /\ flushPc' = "commit" /\ inflight' = inflight /\ committed' = committed
    BY <1>2 DEF FlushProduce, InFlush
  <2>3. CASE r \in Anchorable
    BY <1>1, <2>2, <2>3 DEF Committing
  <2>4. CASE r \in UNION pieces
    <3>1. PICK i \in Range(inflight) : RecordOf(i) = r
      BY <2>1, <2>4
    <3> QED BY <2>2, <3>1 DEF Committing, RecordOf
  <2> QED BY <2>1, <2>3, <2>4 DEF Anchorable
<1>3. CASE FlushFails \/ Crash
  <2>1. faults' = faults + 1
    BY <1>3 DEF FlushFails, Crash
  <2> QED BY <1>t, <2>1
<1>4. CASE FlushCommit
  <2>1. /\ flushPc = "commit" /\ committed' = LastOffsets(inflight) /\ batched' = batched
    BY <1>4 DEF FlushCommit, InFlush
  <2>2. r \in Anchorable
    BY <2>1 DEF Anchorable
  <2>3. CASE r[2] <= committed[r[1]]
    <3>1. committed[r[1]] <= committed'[r[1]] /\ committed'[r[1]] \in Nat
      BY <1>r, <2>1, <2>2, LastOffsetsFacts
    <3> QED BY <1>r, <1>t, <2>2, <2>3, <3>1
  <2>4. CASE Committing(r)
    <3>1. PICK i \in Range(inflight) : RecordOf(i) = r
      BY <2>4 DEF Committing
    <3>2. i.offset <= committed'[i.partition]
      BY <2>1, LastOffsetsFacts
    <3> QED BY <3>1, <3>2 DEF RecordOf
  <2> QED BY <1>1, <2>2, <2>3, <2>4
<1>5. ASSUME batched' = batched, committed' = committed,
             flushPc = "commit" => flushPc' = flushPc /\ inflight' = inflight
      PROVE  r[2] <= committed'[r[1]] \/ Committing(r)'
  <2>1. r \in Anchorable
    BY <1>5 DEF Anchorable
  <2> QED BY <1>1, <1>5, <2>1 DEF Committing, RecordOf
<1>6. CASE Exit
  <2>1. flushPc # "commit"
    <3>1. CASE phase = "closed"
      BY <3>1 DEF ClosedFlight
    <3>2. CASE Rejected
      BY <3>2 DEF Rejected, WindingDown
    <3> QED BY <1>6, <3>1, <3>2 DEF Exit
  <2> QED BY <1>5, <1>6, <2>1 DEF Exit, ProcessLost, kafka
<1>7. ASSUME NEW batch, Flush(batch) PROVE flushPc = "commit" => flushPc' = flushPc /\ inflight' = inflight
  BY <1>7 DEF Flush
<1>8. ASSUME NEW p \in Partitions, SkipRecord(p) \/ AddRecord(p)
      PROVE  r[2] <= committed'[r[1]] \/ Committing(r)'
  <2>1. batched' = batched /\ committed' = committed
    BY <1>8 DEF SkipRecord, AddRecord, NextRecord, kafka
  <2>2. flushPc = "commit" => flushPc' = flushPc /\ inflight' = inflight
    BY <1>7, <1>8 DEF SkipRecord, AddRecord, MaybeFlush, FlushBatch, flusher
  <2> QED BY <1>5, <2>1, <2>2
<1>9. CASE LagHigh \/ TimerFires \/ Drain
  BY <1>5, <1>7, <1>9 DEF LagHigh, TimerFires, Drain, FlushBatch, kafka
<1>10. CASE FlushPoison \/ FlushOversized \/ FlushRefused
  <2>1. batched' = batched /\ committed' = committed /\ flushPc # "commit"
    BY <1>10 DEF FlushPoison, FlushOversized, FlushRefused, Refused, InFlush, kafka
  <2> QED BY <1>5, <2>1
<1>11. CASE LagLow \/ Stop \/ CloseConsumer \/ LoopEnds \/ CloseProducer \/ Restart \/ UNCHANGED vars
  BY <1>5, <1>11 DEF LagLow, Stop, CloseConsumer, LoopEnds, CloseProducer, Restart, vars, flusher, kafka
<1> QED BY <1>2, <1>3, <1>4, <1>6, <1>8, <1>9, <1>10, <1>11 DEF Next

(* Until a fault a send adds batches of records that no other batch holds: *)
(* all that was published before is committed, and the flight is not.      *)
LEMMA OnceKeeps ==
  ASSUME IInv, InOrder(Buffer), NothingReplayed, NoDuplicateWithoutFault, [Next]_vars
  PROVE  NoDuplicateWithoutFault'
<1>t. TypeOK /\ faults \in Nat /\ inflight \in Seq(Item) /\ committed \in [Partitions -> Nat]
  BY DEF IInv, TypeOK
<1> SUFFICES ASSUME faults' = 0
             PROVE  /\ \A b \in BagToSet(batched') : batched'[b] = 1
                    /\ \A b, c \in BagToSet(batched') : b # c => b \cap c = {}
  BY DEF NoDuplicateWithoutFault
<1>1. CASE batched' = batched /\ faults' = faults
  BY <1>1 DEF NoDuplicateWithoutFault
<1>2. CASE FlushFails \/ Crash
  <2>1. faults' = faults + 1
    BY <1>2 DEF FlushFails, Crash
  <2> QED BY <1>t, <2>1
<1>3. CASE FlushProduce
  <2>1. PICK pieces \in Fitted(inflight) :
          /\ batched' = batched (+) SetToBag(pieces)
          /\ BagToSet(batched') = BagToSet(batched) \cup pieces
          /\ \A r \in UNION pieces : \E i \in Range(inflight) : RecordOf(i) = r
          /\ \A b \in pieces : b # {}
          /\ \A b, c \in pieces : b # c => b \cap c = {}
    BY <1>3, ProduceEffect
  <2>2. faults = 0 /\ flushPc = "produce"
    BY <1>3 DEF FlushProduce, InFlush
  <2>3. /\ Uncommitted
        /\ \A r \in Anchorable : r[2] <= committed[r[1]]
        /\ \A b \in BagToSet(batched) : batched[b] = 1
        /\ \A b, c \in BagToSet(batched) : b # c => b \cap c = {}
    BY <2>2 DEF NothingReplayed, NoDuplicateWithoutFault, Committing
  <2>4. ASSUME NEW r \in UNION pieces PROVE r \notin Anchorable
    <3>1. PICK i \in Range(inflight) : RecordOf(i) = r
      BY <2>1
    <3>2. committed[i.partition] < i.offset /\ i \in Item
      BY <1>t, <2>3, SeqElements DEF Uncommitted, Buffered
    <3>3. i.offset \in Nat /\ committed[i.partition] \in Nat
      BY <1>t, <3>2 DEF Item
    <3>4. ~(i.offset <= committed[i.partition])
      BY <3>2, <3>3
    <3> QED BY <2>3, <3>1, <3>4 DEF RecordOf
  <2>5. ASSUME NEW b \in BagToSet(batched), NEW c \in pieces PROVE b \cap c = {} /\ b # c
    BY <2>1, <2>4 DEF Anchorable
  <2>6. \A b \in BagToSet(batched') : batched'[b] = 1
    <3>1. \A c \in pieces : c \notin BagToSet(batched)
      BY <2>5
    <3> QED BY <2>1, <2>3, <3>1, CopiesOfSend
  <2>7. ASSUME NEW b \in BagToSet(batched'), NEW c \in BagToSet(batched'), b # c
        PROVE  b \cap c = {}
    BY <2>1, <2>3, <2>5, <2>7
  <2> QED BY <2>6, <2>7
<1>4. ASSUME NEW p \in Partitions, SkipRecord(p) \/ AddRecord(p)
      PROVE  batched' = batched /\ faults' = faults
  BY <1>4 DEF SkipRecord, AddRecord, NextRecord, kafka
<1>5. CASE LagLow \/ LagHigh \/ TimerFires \/ FlushPoison \/ FlushOversized \/ FlushCommit
  BY <1>1, <1>5 DEF LagLow, LagHigh, TimerFires, FlushPoison, FlushOversized, FlushCommit, kafka
<1>6. CASE FlushRefused \/ Stop \/ CloseConsumer \/ LoopEnds \/ Drain \/ CloseProducer
  BY <1>1, <1>6 DEF FlushRefused, Stop, CloseConsumer, LoopEnds, Drain, CloseProducer, kafka
<1>7. CASE Exit \/ Restart \/ UNCHANGED vars
  BY <1>1, <1>7 DEF Exit, ProcessLost, Restart, vars, kafka
<1> QED BY <1>1, <1>2, <1>3, <1>4, <1>5, <1>6, <1>7 DEF Next

-----------------------------------------------------------------------------
(* The two conjuncts about the order of the buffer are one.                *)
LEMMA OrderMeans ==
  ASSUME IInv
  PROVE  InOrder(Buffer) <=> BufferOrdered /\ BufferDistinct
<1>1. Buffer \in Seq(Item)
  BY BufferedInBuffer DEF IInv
<1> QED BY <1>1, InOrderMeans DEF BufferOrdered, BufferDistinct

(* The same after a step.                                                  *)
LEMMA OrderMeansNext ==
  ASSUME IInv, [Next]_vars
  PROVE  InOrder(Buffer') <=> (BufferOrdered /\ BufferDistinct)'
<1>1. Buffer' \in Seq(Item)
  BY BufferedInBufferNext
<1> QED BY <1>1, InOrderMeans DEF BufferOrdered, BufferDistinct

(* OnceInv holds at the start: nothing is buffered or published.           *)
LEMMA InitOnce == Init => OnceInv
<1> SUFFICES ASSUME Init PROVE OnceInv
  OBVIOUS
<1>1. Buffer = << >> /\ BagToSet(batched) = {} /\ Buffered = {}
  BY DEF Init, Buffer, Buffered, Range, BagToSet, EmptyBag, SetToBag
<1>2. BufferOrdered /\ BufferDistinct
  BY <1>1 DEF BufferOrdered, BufferDistinct
<1>3. WindingDown /\ ClosedFlight
  BY DEF Init, WindingDown, Ended, ClosedFlight
<1>4. NothingReplayed /\ NoDuplicateWithoutFault
  BY <1>1 DEF NothingReplayed, Uncommitted, Anchorable, NoDuplicateWithoutFault
<1> QED BY <1>2, <1>3, <1>4 DEF OnceInv

(* Every step preserves OnceInv.                                           *)
LEMMA OnceStep == IInv /\ OnceInv /\ [Next]_vars => OnceInv'
<1> SUFFICES ASSUME IInv, OnceInv, [Next]_vars PROVE OnceInv'
  OBVIOUS
<1>1. InOrder(Buffer) /\ WindingDown /\ ClosedFlight /\ NothingReplayed /\ NoDuplicateWithoutFault
  BY OrderMeans DEF OnceInv
<1>2. (BufferOrdered /\ BufferDistinct)'
  BY <1>1, OrderKeeps, OrderMeansNext
<1>3. WindingDown' /\ ClosedFlight'
  BY <1>1, WindingKeeps, ClosedFlightKeeps
<1>4. NothingReplayed' /\ NoDuplicateWithoutFault'
  BY <1>1, ReplayKeeps, OnceKeeps
<1> QED BY <1>2, <1>3, <1>4 DEF OnceInv

(* OnceInv holds in every reachable state.                                 *)
THEOREM OnceInvariant == Spec => []OnceInv
<1>1. Init => OnceInv
  BY InitOnce
<1>2. IInv /\ OnceInv /\ [Next]_vars => OnceInv'
  BY OnceStep
<1> QED BY <1>1, <1>2, Invariant, PTL DEF Spec

(* A batch that is put back after a failed flush is ahead of newer         *)
(* records: the items of a partition stay in the order of their offsets.   *)
THEOREM OrderKept == Spec => []BufferOrdered
<1>1. OnceInv => BufferOrdered
  BY DEF OnceInv
<1> QED BY <1>1, OnceInvariant, PTL

(* Unless a call fails or the process crashes, no record is published in   *)
(* two payloads and no payload is published twice.                         *)
THEOREM PublishedOnce == Spec => []NoDuplicateWithoutFault
<1>1. OnceInv => NoDuplicateWithoutFault
  BY DEF OnceInv
<1> QED BY <1>1, OnceInvariant, PTL

(* Once the producer is closed, no flush runs and no timer is armed unless *)
(* the stream had failed, and then none of the flushes reaches a commit.   *)
THEOREM ClosingIsQuiet == Spec => []ClosedIsQuiet
<1>1. OnceInv => ClosedIsQuiet
  <2> SUFFICES ASSUME OnceInv, phase = "closed"
               PROVE  /\ (timer \/ flushPc # "idle") => failed
                      /\ flushPc # "commit"
    BY DEF ClosedIsQuiet
  <2>1. loopPc = "done" /\ Ended
    BY DEF OnceInv, WindingDown, Ended
  <2>2. (timer \/ flushPc # "idle") => failed
    BY <2>1 DEF OnceInv, WindingDown
  <2> QED BY <2>2 DEF OnceInv, ClosedFlight
<1> QED BY <1>1, OnceInvariant, PTL

=============================================================================
