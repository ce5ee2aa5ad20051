------------------------------- MODULE FitBatch -------------------------------
(***************************************************************************)
(* fitBatch(): a list of events becomes payloads that fit the chain's      *)
(* limit.  A list that does not fit is halved, and a single event that     *)
(* does not fit is reported as oversized.  The compressed size is not      *)
(* monotone, so which lists fit is arbitrary, except that a list with an   *)
(* event that is too large by itself does not.                             *)
(*                                                                         *)
(* Batcher abstracts the halving to Fitted; here the two are compared.     *)
(***************************************************************************)
EXTENDS Batcher

(* filter(isValidItem): the valid items of a batch, in their order.        *)
ValidPositions(batch) == {k \in 1..Len(batch) : batch[k].parsed}

Increasing(f) == \A i, j \in DOMAIN f : i < j => f[i] < f[j]

Listing(K) == CHOOSE f \in [1..Cardinality(K) -> K] : Increasing(f)

ValidItems(batch) ==
  LET positions == ValidPositions(batch)
  IN [i \in 1..Cardinality(positions) |-> batch[Listing(positions)[i]]]

(* A slice <<first, last>> stands for consecutive events, none if first is *)
(* beyond last.  The sets of slices that may be the ones that fit.         *)
Slices(n) == (1..n + 1) \X (0..n)

FittingSlices(events) ==
  {fitting \in SUBSET {s \in Slices(Len(events)) : s[1] <= s[2]} :
     /\ \A k \in 1..Len(events) : <<k, k>> \in fitting <=> Fits(events[k])
     /\ \A s \in fitting : \A k \in s[1]..s[2] : Fits(events[k])}

(* Mutant of Second: the event in the middle is in neither half.           *)
SecondAfterNext(first, last) == <<first + (last - first + 2) \div 2 + 1, last>>

(* events.slice(0, middle) and events.slice(middle), with middle half of   *)
(* the length, rounded up.                                                 *)
First(first, last)  == <<first, first + (last - first + 2) \div 2 - 1>>
Second(first, last) == <<first + (last - first + 2) \div 2, last>>

Joined(one, two) == [batches   |-> one.batches \o two.batches,
                     oversized |-> one.oversized \o two.oversized]

(* The outcome for n events: the payloads as slices, the oversized events  *)
(* by their numbers.                                                       *)
Halve(n, fitting) ==
  LET fit[s \in Slices(n)] ==
        IF s[1] > s[2] THEN [batches |-> << >>, oversized |-> << >>]
        ELSE IF s \in fitting THEN [batches |-> <<s>>, oversized |-> << >>]
        ELSE IF s[1] = s[2] THEN [batches |-> << >>, oversized |-> <<s[1]>>]
        ELSE Joined(fit[First(s[1], s[2])], fit[Second(s[1], s[2])])
  IN fit[<<1, n>>]

-----------------------------------------------------------------------------
(* Every event comes out once, in a payload that fits or as oversized, and *)
(* in its order.                                                           *)
KeepsEvents(events, fitting, outcome) ==
  /\ Range(outcome.batches) \subseteq fitting
  /\ \A i, j \in DOMAIN outcome.batches : i < j => outcome.batches[i][2] < outcome.batches[j][1]
  /\ Increasing(outcome.oversized)
  /\ UNION {b[1]..b[2] : b \in Range(outcome.batches)} = {k \in 1..Len(events) : Fits(events[k])}
  /\ Range(outcome.oversized) = {k \in 1..Len(events) : ~Fits(events[k])}

RecordsIn(events, b) == {RecordOf(events[k]) : k \in b[1]..b[2]}

(* Whatever the compression makes of the events, none is lost or           *)
(* duplicated and their order is kept (comment at fitBatch: "order is      *)
(* preserved [...] no event is lost or duplicated"), and the payloads are  *)
(* among those that Batcher publishes.                                     *)
HalvingKeepsEvents ==
  flushPc = "produce" =>
    LET events == ValidItems(inflight)
    IN \A fitting \in FittingSlices(events) :
         LET outcome == Halve(Len(events), fitting)
         IN /\ KeepsEvents(events, fitting, outcome)
            /\ {RecordsIn(events, b) : b \in Range(outcome.batches)} \in Fitted(inflight)

=============================================================================
