----------------------------- MODULE FitBatchProofs -----------------------------
(***************************************************************************)
(* The halving of fitBatch() keeps every event, for batches of any length  *)
(* and whichever lists of events fit.                                      *)
(***************************************************************************)
EXTENDS FitBatch, BatcherProofs, FiniteSetTheorems

(* Induction on the natural numbers, for a set of them.                    *)
LEMMA SetInduction ==
  ASSUME NEW S, 0 \in S, \A m \in Nat : m \in S => m + 1 \in S
  PROVE  \A m \in Nat : m \in S
<1> DEFINE T == Nat \ S
<1> SUFFICES ASSUME T # {}
             PROVE  FALSE
  OBVIOUS
<1>1. PICK m \in T : \A k \in T : ~ (<<k, m>> \in OpToRel(<, Nat))
  BY WFMin, NatLessThanWellFounded
<1>2. m \in Nat /\ m # 0 /\ m \notin S
  OBVIOUS
<1>3. m - 1 \in Nat /\ m - 1 + 1 = m /\ m - 1 < m
  BY <1>2
<1>4. m - 1 \notin S
  BY <1>2, <1>3
<1>5. <<m - 1, m>> \in OpToRel(<, Nat)
  BY <1>2, <1>3 DEF OpToRel
<1> QED BY <1>1, <1>3, <1>4, <1>5

-----------------------------------------------------------------------------
(* The halving.                                                            *)

(* What Halve() makes of a slice when g is what it makes of the halves.    *)
Halved(g, s, fitting) ==
  IF s[1] > s[2] THEN [batches |-> << >>, oversized |-> << >>]
  ELSE IF s \in fitting THEN [batches |-> <<s>>, oversized |-> << >>]
  ELSE IF s[1] = s[2] THEN [batches |-> << >>, oversized |-> <<s[1]>>]
  ELSE Joined(g[First(s[1], s[2])], g[Second(s[1], s[2])])

(* The halves of a slice are shorter than the slice and make it up.        *)
LEMMA Halves ==
  ASSUME NEW n \in Nat, NEW s \in Slices(n), s[1] < s[2]
  PROVE  /\ First(s[1], s[2]) \in Slices(n) /\ Second(s[1], s[2]) \in Slices(n)
         /\ First(s[1], s[2])[1] = s[1] /\ Second(s[1], s[2])[2] = s[2]
         /\ s[1] <= First(s[1], s[2])[2] /\ First(s[1], s[2])[2] < s[2]
         /\ Second(s[1], s[2])[1] = First(s[1], s[2])[2] + 1
<1>1. s[1] \in Nat /\ s[2] \in Nat /\ 1 <= s[1] /\ s[2] <= n
  BY DEF Slices
<1>2. PICK d \in Nat : d = s[2] - s[1] /\ d >= 1
  BY <1>1
<1>3. PICK h \in Nat : h = (d + 2) \div 2 /\ 1 <= h /\ h <= d
  <2>1. (d + 2) \div 2 \in Nat /\ 1 <= (d + 2) \div 2 /\ (d + 2) \div 2 <= d
    BY <1>2
  <2> QED BY <2>1
<1>4. First(s[1], s[2]) = <<s[1], s[1] + h - 1>> /\ Second(s[1], s[2]) = <<s[1] + h, s[2]>>
  BY <1>2, <1>3 DEF First, Second
<1> QED BY <1>1, <1>2, <1>3, <1>4 DEF Slices

(* The recursion is defined on every slice.                                *)
Shorter(n, m) == {s \in Slices(n) : s[2] - s[1] + 1 <= m}

Solves(g, D, fitting) == g = [s \in D |-> Halved(g, s, fitting)]

(* By induction on the length of the slices.                               *)
LEMMA HalvingDefined ==
  ASSUME NEW n \in Nat, NEW fitting
  PROVE  \E g : Solves(g, Slices(n), fitting)
<1> DEFINE S == {m \in Nat : \E g : Solves(g, Shorter(n, m), fitting)}
<1>0. \A s \in Slices(n) : s[1] \in Nat /\ s[2] \in Nat /\ 1 <= s[1] /\ s[2] <= n
  BY DEF Slices
<1>1. 0 \in S
  <2> DEFINE g == [s \in Shorter(n, 0) |-> [batches |-> << >>, oversized |-> << >>]]
  <2>1. ASSUME NEW s \in Shorter(n, 0)
        PROVE  Halved(g, s, fitting) = [batches |-> << >>, oversized |-> << >>]
    <3>1. s[1] > s[2]
      BY <1>0 DEF Shorter
    <3> QED BY <3>1 DEF Halved
  <2>2. Solves(g, Shorter(n, 0), fitting)
    BY <2>1 DEF Solves
  <2> QED BY <2>2
<1>2. ASSUME NEW m \in Nat, m \in S
      PROVE  m + 1 \in S
  <2>1. PICK g : Solves(g, Shorter(n, m), fitting)
    BY <1>2
  <2> DEFINE h == [s \in Shorter(n, m + 1) |-> Halved(g, s, fitting)]
  <2>2. Shorter(n, m) \subseteq Shorter(n, m + 1)
    BY <1>0 DEF Shorter
  <2>3. \A s \in Shorter(n, m) : h[s] = g[s]
    BY <2>1, <2>2 DEF Solves
  <2>4. ASSUME NEW s \in Shorter(n, m + 1)
        PROVE  Halved(h, s, fitting) = Halved(g, s, fitting)
    <3>1. CASE s[1] < s[2]
      <4>1. First(s[1], s[2]) \in Shorter(n, m) /\ Second(s[1], s[2]) \in Shorter(n, m)
        <5>1. s \in Slices(n) /\ s[2] - s[1] + 1 <= m + 1
          BY DEF Shorter
        <5> QED BY <1>0, <3>1, <5>1, Halves DEF Shorter
      <4> HIDE DEF h
      <4> QED BY <2>3, <4>1 DEF Halved
    <3>2. CASE ~(s[1] < s[2])
      <4>1. s[1] > s[2] \/ s[1] = s[2]
        BY <1>0, <3>2 DEF Shorter
      <4> HIDE DEF h
      <4> QED BY <4>1 DEF Halved
    <3> QED BY <3>1, <3>2
  <2>5. Solves(h, Shorter(n, m + 1), fitting)
    BY <2>4 DEF Solves
  <2> QED BY <2>5
<1> HIDE DEF S
<1>3. n \in S
  BY <1>1, <1>2, SetInduction
<1>4. Shorter(n, n) = Slices(n)
  BY <1>0 DEF Shorter
<1> QED BY <1>3, <1>4 DEF S

(* Halve() is the value of such a solution at the whole batch.             *)
LEMMA HalveIs ==
  ASSUME NEW n \in Nat, NEW fitting
  PROVE  \E g : Solves(g, Slices(n), fitting) /\ Halve(n, fitting) = g[<<1, n>>]
<1> DEFINE Is(g) == g = [s \in Slices(n) |->
             IF s[1] > s[2] THEN [batches |-> << >>, oversized |-> << >>]
             ELSE IF s \in fitting THEN [batches |-> <<s>>, oversized |-> << >>]
             ELSE IF s[1] = s[2] THEN [batches |-> << >>, oversized |-> <<s[1]>>]
             ELSE Joined(g[First(s[1], s[2])], g[Second(s[1], s[2])])]
           fit == CHOOSE g : Is(g)
<1>1. ASSUME NEW g PROVE Is(g) <=> Solves(g, Slices(n), fitting)
  BY DEF Solves, Halved
<1>2. Is(fit)
  BY <1>1, HalvingDefined
<1>3. Halve(n, fitting) = fit[<<1, n>>]
  BY DEF Halve
<1> HIDE DEF fit, Is
<1> QED BY <1>1, <1>2, <1>3

-----------------------------------------------------------------------------
(* A sequence in the order of a relation.                                  *)
Sorted(f, precedes) == \A i, j \in 1..Len(f) : i < j => <<f[i], f[j]>> \in precedes

(* Two sequences in order, the second behind the first, are in order.      *)
LEMMA ConcatSorted ==
  ASSUME NEW S, NEW f \in Seq(S), NEW g \in Seq(S), NEW precedes,
         Sorted(f, precedes), Sorted(g, precedes),
         \A x \in Range(f), y \in Range(g) : <<x, y>> \in precedes
  PROVE  /\ f \o g \in Seq(S) /\ Range(f \o g) = Range(f) \cup Range(g)
         /\ Sorted(f \o g, precedes)
<1>1. /\ f \o g \in Seq(S) /\ Len(f \o g) = Len(f) + Len(g)
      /\ DOMAIN f = 1..Len(f) /\ DOMAIN g = 1..Len(g)
      /\ \A i \in 1..(Len(f) + Len(g)) : (f \o g)[i] = IF i <= Len(f) THEN f[i] ELSE g[i - Len(f)]
  BY ConcatProperties, LenProperties
<1>2. PICK m \in Nat : m = Len(f)
  BY LenProperties
<1>3. PICK n \in Nat : n = Len(g)
  BY LenProperties
<1> DEFINE h == f \o g
<1>4. Len(h) = m + n /\ \A i \in 1..(m + n) : h[i] = IF i <= m THEN f[i] ELSE g[i - m]
  BY <1>1, <1>2, <1>3
<1> HIDE DEF h
<1>5. ASSUME NEW i \in 1..(m + n), NEW j \in 1..(m + n), i < j
      PROVE  <<h[i], h[j]>> \in precedes
  <2>1. CASE j <= m
    <3>1. i \in 1..m /\ j \in 1..m /\ i <= m
      BY <1>5, <2>1
    <3> QED BY <1>2, <1>4, <1>5, <3>1 DEF Sorted
  <2>2. CASE i <= m /\ ~(j <= m)
    <3>1. i \in 1..m /\ j - m \in 1..n
      BY <2>2
    <3>2. h[i] = f[i] /\ h[j] = g[j - m]
      BY <1>4, <2>2
    <3>3. f[i] \in Range(f) /\ g[j - m] \in Range(g)
      BY <1>1, <1>2, <1>3, <3>1 DEF Range
    <3> QED BY <3>2, <3>3
  <2>3. CASE ~(i <= m)
    <3>1. i - m \in 1..n /\ j - m \in 1..n /\ i - m < j - m /\ ~(j <= m)
      BY <1>5, <2>3
    <3>2. h[i] = g[i - m] /\ h[j] = g[j - m]
      BY <1>4, <2>3, <3>1
    <3> QED BY <1>3, <3>1, <3>2 DEF Sorted
  <2> QED BY <2>1, <2>2, <2>3
<1>6. Sorted(h, precedes)
  BY <1>4, <1>5 DEF Sorted
<1> QED BY <1>1, <1>6, RangeConcat DEF h

(* What the halving makes of a slice: the payloads and the oversized       *)
(* events of the slice, in order, and every event of the slice.            *)
Ahead(fitting) == {p \in fitting \X fitting : p[1][2] < p[2][1]}
Smaller == {p \in Nat \X Nat : p[1] < p[2]}

Good(events, fitting, s, outcome) ==
  /\ outcome.batches \in Seq(fitting) /\ Sorted(outcome.batches, Ahead(fitting))
  /\ outcome.oversized \in Seq(Nat) /\ Sorted(outcome.oversized, Smaller)
  /\ \A b \in Range(outcome.batches) : s[1] <= b[1] /\ b[2] <= s[2]
  /\ \A k \in Range(outcome.oversized) : k \in s[1]..s[2] /\ ~Fits(events[k])
  /\ \A k \in s[1]..s[2] : \/ k \in Range(outcome.oversized)
                          \/ \E b \in Range(outcome.batches) : k \in b[1]..b[2]

(* A slice that fits has only events that fit, and an event alone fits or not. *)
LEMMA FittingFacts ==
  ASSUME NEW events, Len(events) \in Nat, NEW fitting \in FittingSlices(events)
  PROVE  /\ \A s \in fitting : /\ s \in Slices(Len(events)) /\ s = <<s[1], s[2]>>
                               /\ s[1] \in Nat /\ s[2] \in Nat
                               /\ 1 <= s[1] /\ s[1] <= s[2] /\ s[2] <= Len(events)
                               /\ \A k \in s[1]..s[2] : Fits(events[k])
         /\ \A k \in 1..Len(events) : ~Fits(events[k]) <=> <<k, k>> \notin fitting
<1>1. \A s \in fitting : s \in Slices(Len(events)) /\ s[1] <= s[2]
  BY DEF FittingSlices
<1>2. \A s \in Slices(Len(events)) : /\ s = <<s[1], s[2]>> /\ s[1] \in Nat /\ s[2] \in Nat
                                     /\ 1 <= s[1] /\ s[2] <= Len(events)
  BY DEF Slices
<1> QED BY <1>1, <1>2 DEF FittingSlices

(* Sequences of no and of one element.                                     *)
LEMMA FewFacts ==
  ASSUME NEW S, NEW x \in S, NEW precedes
  PROVE  /\ << >> \in Seq(S) /\ Range(<< >>) = {} /\ Sorted(<< >>, precedes)
         /\ <<x>> \in Seq(S) /\ Range(<<x>>) = {x} /\ Sorted(<<x>>, precedes)
<1>1. << >> \in Seq(S) /\ Range(<< >>) = {} /\ Len(<< >>) = 0
  BY DEF Range
<1>2. <<x>> \in Seq(S) /\ Len(<<x>>) = 1 /\ DOMAIN <<x>> = {1} /\ <<x>>[1] = x
  OBVIOUS
<1>3. Range(<<x>>) = {x}
  BY <1>2 DEF Range
<1> QED BY <1>1, <1>2, <1>3 DEF Sorted

(* What is right for both halves is right for the whole.                   *)
LEMMA JoinedGood ==
  ASSUME NEW events, Len(events) \in Nat, NEW fitting \in FittingSlices(events),
         NEW s \in Slices(Len(events)), s[1] < s[2], NEW one, NEW two,
         Good(events, fitting, First(s[1], s[2]), one), Good(events, fitting, Second(s[1], s[2]), two)
  PROVE  Good(events, fitting, s, Joined(one, two))
<1> DEFINE a == First(s[1], s[2])
           b == Second(s[1], s[2])
<1>1. /\ a[1] = s[1] /\ b[2] = s[2] /\ s[1] <= a[2] /\ a[2] < s[2] /\ b[1] = a[2] + 1
      /\ s[1] \in Nat /\ s[2] \in Nat /\ a[2] \in Nat
  BY Halves DEF Slices
<1> HIDE DEF a, b
<1>2. Good(events, fitting, a, one) /\ Good(events, fitting, b, two)
  BY DEF a, b
<1>3. ASSUME NEW x \in Range(one.batches), NEW y \in Range(two.batches)
      PROVE  <<x, y>> \in Ahead(fitting)
  <2>1. x \in fitting /\ y \in fitting
    BY <1>2, SeqElements DEF Good
  <2>2. x[2] <= a[2] /\ b[1] <= y[1]
    BY <1>2 DEF Good
  <2>3. x[2] \in Nat /\ y[1] \in Nat
    BY <2>1, FittingFacts
  <2> QED BY <1>1, <2>1, <2>2, <2>3 DEF Ahead
<1>4. ASSUME NEW x \in Range(one.oversized), NEW y \in Range(two.oversized)
      PROVE  <<x, y>> \in Smaller
  <2>1. x \in a[1]..a[2] /\ y \in b[1]..b[2]
    BY <1>2 DEF Good
  <2> QED BY <1>1, <2>1 DEF Smaller
<1>5. /\ Joined(one, two).batches = one.batches \o two.batches
      /\ Joined(one, two).oversized = one.oversized \o two.oversized
  BY DEF Joined
<1>6. /\ Joined(one, two).batches \in Seq(fitting)
      /\ Range(Joined(one, two).batches) = Range(one.batches) \cup Range(two.batches)
      /\ Sorted(Joined(one, two).batches, Ahead(fitting))
  BY <1>2, <1>3, <1>5, ConcatSorted DEF Good
<1>7. /\ Joined(one, two).oversized \in Seq(Nat)
      /\ Range(Joined(one, two).oversized) = Range(one.oversized) \cup Range(two.oversized)
      /\ Sorted(Joined(one, two).oversized, Smaller)
  BY <1>2, <1>4, <1>5, ConcatSorted DEF Good
<1>8. ASSUME NEW c \in Range(Joined(one, two).batches)
      PROVE  s[1] <= c[1] /\ c[2] <= s[2]
  <2>1. c \in fitting
    BY <1>6, SeqElements
  <2>2. c[1] \in Nat /\ c[2] \in Nat
    BY <2>1, FittingFacts
  <2>3. \/ a[1] <= c[1] /\ c[2] <= a[2]
        \/ b[1] <= c[1] /\ c[2] <= b[2]
    BY <1>2, <1>6, <1>8 DEF Good
  <2> QED BY <1>1, <2>2, <2>3
<1>9. ASSUME NEW k \in Range(Joined(one, two).oversized)
      PROVE  k \in s[1]..s[2] /\ ~Fits(events[k])
  <2>1. (k \in a[1]..a[2] \/ k \in b[1]..b[2]) /\ ~Fits(events[k])
    BY <1>2, <1>7, <1>9 DEF Good
  <2> QED BY <1>1, <2>1
<1>10. ASSUME NEW k \in s[1]..s[2]
       PROVE  \/ k \in Range(Joined(one, two).oversized)
              \/ \E c \in Range(Joined(one, two).batches) : k \in c[1]..c[2]
  <2>1. k \in a[1]..a[2] \/ k \in b[1]..b[2]
    BY <1>1
  <2> QED BY <1>2, <1>6, <1>7, <2>1 DEF Good
<1> HIDE DEF Joined
<1> QED BY <1>6, <1>7, <1>8, <1>9, <1>10 DEF Good

(* The four cases of the recursion.                                        *)
LEMMA HalvedCases ==
  ASSUME NEW g, NEW s, NEW fitting, s[1] \in Nat, s[2] \in Nat
  PROVE  /\ s[1] > s[2] => Halved(g, s, fitting) = [batches |-> << >>, oversized |-> << >>]
         /\ (s[1] <= s[2] /\ s \in fitting)
              => Halved(g, s, fitting) = [batches |-> <<s>>, oversized |-> << >>]
         /\ (s[1] = s[2] /\ s \notin fitting)
              => Halved(g, s, fitting) = [batches |-> << >>, oversized |-> <<s[1]>>]
         /\ (s[1] < s[2] /\ s \notin fitting)
              => Halved(g, s, fitting) = Joined(g[First(s[1], s[2])], g[Second(s[1], s[2])])
<1>1. /\ s[1] > s[2] => ~(s[1] <= s[2])
      /\ s[1] <= s[2] => ~(s[1] > s[2])
      /\ s[1] = s[2] => ~(s[1] > s[2])
      /\ s[1] < s[2] => ~(s[1] > s[2]) /\ s[1] # s[2]
  OBVIOUS
<1> QED BY <1>1, Zenon DEF Halved

(* By induction on the length, the recursion is right for every slice.     *)
LEMMA HalvingGood ==
  ASSUME NEW events, Len(events) \in Nat, NEW fitting \in FittingSlices(events)
  PROVE  Good(events, fitting, <<1, Len(events)>>, Halve(Len(events), fitting))
<1> DEFINE n == Len(events)
<1>1. PICK g : Solves(g, Slices(n), fitting) /\ Halve(n, fitting) = g[<<1, n>>]
  BY HalveIs
<1>2. \A s \in Slices(n) : g[s] = Halved(g, s, fitting)
  BY <1>1 DEF Solves
<1>3. \A s \in Slices(n) : /\ s = <<s[1], s[2]>> /\ s[1] \in Nat /\ s[2] \in Nat
                           /\ 1 <= s[1] /\ s[2] <= n
  BY DEF Slices
<1> DEFINE S == {m \in Nat : \A s \in Shorter(n, m) : Good(events, fitting, s, g[s])}
<1>4. ASSUME NEW s \in Slices(n), ~(s[1] < s[2]) \/ s \in fitting
      PROVE  Good(events, fitting, s, g[s])
  <2>1. CASE s[1] > s[2]
    <3>1. g[s].batches = << >> /\ g[s].oversized = << >> /\ ~ \E k : k \in s[1]..s[2]
      BY <1>2, <1>3, <2>1, HalvedCases
    <3>2. << >> \in Seq(fitting) /\ << >> \in Seq(Nat) /\ Range(<< >>) = {} /\ Len(<< >>) = 0
      BY DEF Range
    <3> QED BY <3>1, <3>2 DEF Good, Sorted
  <2>2. CASE s[1] <= s[2] /\ s \in fitting
    <3>1. g[s].batches = <<s>> /\ g[s].oversized = << >>
      BY <1>2, <1>3, <2>2, HalvedCases
    <3>2. /\ <<s>> \in Seq(fitting) /\ Range(<<s>>) = {s} /\ Sorted(<<s>>, Ahead(fitting))
          /\ << >> \in Seq(Nat) /\ Range(<< >>) = {} /\ Sorted(<< >>, Smaller)
      BY <2>2, FewFacts
    <3> QED BY <1>3, <3>1, <3>2 DEF Good
  <2>3. CASE s[1] = s[2] /\ s \notin fitting
    <3>1. g[s].batches = << >> /\ g[s].oversized = <<s[1]>>
      BY <1>2, <1>3, <2>3, HalvedCases
    <3>2. /\ <<s[1]>> \in Seq(Nat) /\ Range(<<s[1]>>) = {s[1]} /\ Sorted(<<s[1]>>, Smaller)
          /\ Range(<< >>) = {}
      BY <1>3, FewFacts
    <3>3. << >> \in Seq(fitting) /\ Sorted(<< >>, Ahead(fitting))
      BY DEF Sorted
    <3>4. s = <<s[1], s[1]>> /\ s[1] \in 1..n
      BY <1>3, <2>3
    <3>5. ~Fits(events[s[1]])
      BY <2>3, <3>4, FittingFacts
    <3>6. \A k \in s[1]..s[2] : k = s[1]
      BY <1>3, <2>3
    <3> QED BY <1>3, <2>3, <3>1, <3>2, <3>3, <3>5, <3>6 DEF Good
  <2> QED BY <1>3, <1>4, <2>1, <2>2, <2>3
<1>5. 0 \in S
  <2>1. \A s \in Shorter(n, 0) : s \in Slices(n) /\ ~(s[1] < s[2])
    BY <1>3 DEF Shorter
  <2> QED BY <1>4, <2>1
<1>6. ASSUME NEW m \in Nat, m \in S
      PROVE  m + 1 \in S
  <2>1. ASSUME NEW s \in Shorter(n, m + 1) PROVE Good(events, fitting, s, g[s])
    <3>1. s \in Slices(n) /\ s[2] - s[1] + 1 <= m + 1
      BY DEF Shorter
    <3>2. CASE s[1] < s[2] /\ s \notin fitting
      <4>1. First(s[1], s[2]) \in Shorter(n, m) /\ Second(s[1], s[2]) \in Shorter(n, m)
        BY <1>3, <3>1, <3>2, Halves DEF Shorter
      <4>2. g[s] = Joined(g[First(s[1], s[2])], g[Second(s[1], s[2])])
        BY <1>2, <1>3, <3>1, <3>2, HalvedCases
      <4> QED BY <1>6, <3>1, <3>2, <4>1, <4>2, JoinedGood
    <3> QED BY <1>4, <3>1, <3>2
  <2> QED BY <2>1
<1> HIDE DEF S
<1>7. n \in S
  BY <1>5, <1>6, SetInduction
<1>8. <<1, n>> \in Shorter(n, n)
  BY DEF Shorter, Slices
<1> QED BY <1>1, <1>7, <1>8 DEF S

-----------------------------------------------------------------------------
(* The valid items of a batch, in their order.                             *)

(* A finite set of positions has a listing.                                *)
LEMMA ListingExists ==
  ASSUME NEW n \in Nat
  PROVE  \A K \in SUBSET (1..n) :
           /\ IsFiniteSet(K) /\ Cardinality(K) \in Nat
           /\ \E f \in [1..Cardinality(K) -> K] : Increasing(f)
<1> DEFINE Listed(K) == \E f \in [1..Cardinality(K) -> K] : Increasing(f)
           S == {m \in Nat : \A K \in SUBSET (1..m) : Listed(K)}
<1>1. ASSUME NEW m \in Nat, NEW K \in SUBSET (1..m)
      PROVE  IsFiniteSet(K) /\ Cardinality(K) \in Nat
  <2>1. IsFiniteSet(1..m)
    BY FS_Interval
  <2> QED BY <2>1, FS_Subset, FS_CardinalityType
<1>2. 0 \in S
  <2>1. ASSUME NEW K \in SUBSET (1..0) PROVE Listed(K)
    <3>1. K = {} /\ Cardinality({}) = 0
      BY FS_EmptySet
    <3> DEFINE f == [i \in 1..0 |-> i]
    <3>2. f \in [1..0 -> K] /\ Increasing(f)
      BY DEF Increasing
    <3> QED BY <3>1, <3>2
  <2> QED BY <2>1
<1>3. ASSUME NEW m \in Nat, m \in S PROVE m + 1 \in S
  <2>1. ASSUME NEW K \in SUBSET (1..m + 1) PROVE Listed(K)
    <3> DEFINE L == K \ {m + 1}
    <3>1. L \in SUBSET (1..m)
      OBVIOUS
    <3>2. PICK c \in Nat : c = Cardinality(L) /\ IsFiniteSet(L)
      BY <1>1, <3>1
    <3>3. PICK f \in [1..c -> L] : Increasing(f)
      BY <1>3, <3>1, <3>2
    <3>4. CASE m + 1 \notin K
      <4>1. K = L
        BY <3>4
      <4> QED BY <3>2, <3>3, <4>1
    <3>5. CASE m + 1 \in K
      <4>1. K = L \cup {m + 1} /\ m + 1 \notin L
        BY <3>5
      <4> HIDE DEF L
      <4>2. Cardinality(K) = c + 1
        BY <3>2, <4>1, FS_AddElement
      <4> DEFINE h == [i \in 1..c + 1 |-> IF i = c + 1 THEN m + 1 ELSE f[i]]
      <4>3. h \in [1..c + 1 -> K]
        <5>1. \A i \in 1..c + 1 : i = c + 1 \/ i \in 1..c
          OBVIOUS
        <5> QED BY <4>1, <5>1
      <4>4. ASSUME NEW i \in 1..c + 1, NEW j \in 1..c + 1, i < j
            PROVE  h[i] < h[j]
        <5>1. i \in 1..c /\ i # c + 1 /\ h[i] = f[i] /\ f[i] \in L /\ f[i] \in 1..m
          <6>1. i \in 1..c /\ i # c + 1
            BY <4>4
          <6>2. f[i] \in L
            BY <6>1
          <6> QED BY <3>1, <6>1, <6>2
        <5>2. CASE j = c + 1
          BY <5>1, <5>2
        <5>3. CASE j # c + 1
          <6>1. j \in 1..c /\ h[j] = f[j]
            BY <5>3
          <6> QED BY <3>3, <4>4, <5>1, <6>1 DEF Increasing
        <5> QED BY <5>2, <5>3
      <4>5. Increasing(h)
        <5>1. DOMAIN h = 1..c + 1
          OBVIOUS
        <5> HIDE DEF h
        <5> QED BY <4>4, <5>1 DEF Increasing
      <4> HIDE DEF h
      <4> QED BY <4>2, <4>3, <4>5
    <3> QED BY <3>4, <3>5
  <2> HIDE DEF Listed
  <2> QED BY <2>1
<1> HIDE DEF S
<1>4. n \in S
  BY <1>2, <1>3, SetInduction
<1> QED BY <1>1, <1>4 DEF S

(* The valid items are those of the batch, each once.                      *)
LEMMA ValidFacts ==
  ASSUME NEW batch, Len(batch) \in Nat
  PROVE  LET K == ValidPositions(batch)
             n == Len(ValidItems(batch))
             f == Listing(K)
         IN  /\ n \in Nat /\ f \in [1..n -> K]
             /\ \A i, j \in 1..n : i < j => f[i] < f[j]
             /\ \A k \in K : \E i \in 1..n : f[i] = k
             /\ \A i \in 1..n : ValidItems(batch)[i] = batch[f[i]]
<1> DEFINE K == ValidPositions(batch)
           f == Listing(K)
<1>1. K \in SUBSET (1..Len(batch)) /\ \A k \in K : k \in Nat
  BY DEF ValidPositions
<1>2. IsFiniteSet(K) /\ Cardinality(K) \in Nat /\ \E g \in [1..Cardinality(K) -> K] : Increasing(g)
  BY <1>1, ListingExists
<1>3. f \in [1..Cardinality(K) -> K] /\ Increasing(f)
  BY <1>2 DEF Listing
<1>4. PICK n \in Nat : n = Cardinality(K)
  BY <1>2
<1>5. \A i \in 1..n : ValidItems(batch)[i] = batch[f[i]]
  BY <1>4 DEF ValidItems
<1>6. Len(ValidItems(batch)) = n
  BY <1>4 DEF ValidItems
<1> HIDE DEF K, f
<1>7. \A i, j \in 1..n : i < j => f[i] < f[j]
  BY <1>3, <1>4 DEF Increasing
<1>8. f \in Injection(1..n, K)
  <2>1. ASSUME NEW i \in 1..n PROVE f[i] \in Nat
    <3>1. f[i] \in K
      BY <1>3, <1>4
    <3> QED BY <1>1, <3>1
  <2>2. ASSUME NEW i \in 1..n, NEW j \in 1..n, f[i] = f[j] PROVE i = j
    <3>1. ~(i < j) /\ ~(j < i)
      BY <1>7, <2>1, <2>2
    <3> QED BY <3>1
  <2> QED BY <1>3, <1>4, <2>2 DEF Injection, IsInjective
<1>9. Cardinality(1..n) = n
  BY FS_Interval
<1>10. f \in Surjection(1..n, K)
  BY <1>2, <1>4, <1>8, <1>9, FS_Injection
<1>11. \A k \in K : \E i \in 1..n : f[i] = k
  BY <1>10 DEF Surjection
<1> QED BY <1>3, <1>4, <1>5, <1>6, <1>7, <1>11 DEF K, f

-----------------------------------------------------------------------------
(* The payloads of the halving are among those that Batcher publishes: a   *)
(* payload is a run of events that fit, and no other valid one is between. *)
LEMMA PiecesFitted ==
  ASSUME NEW batch, Len(batch) \in Nat,
         NEW fitting \in FittingSlices(ValidItems(batch)),
         NEW bs \in Seq(fitting), Sorted(bs, Ahead(fitting)),
         \A k \in 1..Len(ValidItems(batch)) :
           Fits(ValidItems(batch)[k]) => \E b \in Range(bs) : k \in b[1]..b[2]
  PROVE  {RecordsIn(ValidItems(batch), b) : b \in Range(bs)} \in Fitted(batch)
<1> DEFINE events == ValidItems(batch)
           K == ValidPositions(batch)
           f == Listing(K)
           B == Range(bs)
           kept == {k \in 1..Len(batch) : Fits(batch[k])}
           cuts == {k \in 1..Len(batch) : batch[k].parsed /\ ~Fits(batch[k])}
<1>1. PICK n \in Nat : n = Len(events)
  BY ValidFacts
<1>2. /\ f \in [1..n -> K]
      /\ \A i, j \in 1..n : i < j => f[i] < f[j]
      /\ \A k \in K : \E i \in 1..n : f[i] = k
      /\ \A i \in 1..n : events[i] = batch[f[i]]
  BY <1>1, ValidFacts
<1>3. /\ \A k \in K : k \in 1..Len(batch) /\ k \in Nat
      /\ kept \subseteq K /\ cuts \subseteq K
      /\ \A k \in K : Fits(batch[k]) => k \in kept
      /\ \A k \in kept : Fits(batch[k])
      /\ \A k \in cuts : ~Fits(batch[k])
  BY DEF ValidPositions, Fits
<1>4. \A b \in B : /\ b[1] \in 1..n /\ b[2] \in 1..n /\ b[1] <= b[2]
                   /\ \A i \in b[1]..b[2] : Fits(events[i])
  <2>1. \A b \in B : b \in fitting
    BY SeqElements
  <2>2. \A b \in B : /\ b[1] \in Nat /\ b[2] \in Nat /\ 1 <= b[1] /\ b[1] <= b[2] /\ b[2] <= n
                     /\ \A i \in b[1]..b[2] : Fits(events[i])
    BY <1>1, <2>1, FittingFacts
  <2> HIDE DEF B, events
  <2> QED BY <2>2
<1>5. \A b, c \in B : b = c \/ b[2] < c[1] \/ c[2] < b[1]
  <2> TAKE b, c \in B
  <2>1. PICK i \in 1..Len(bs), j \in 1..Len(bs) : bs[i] = b /\ bs[j] = c
    BY LenProperties DEF Range
  <2>2. i = j \/ i < j \/ j < i
    BY <2>1, LenProperties
  <2>3. i < j => b[2] < c[1]
    BY <2>1 DEF Sorted, Ahead
  <2>4. j < i => c[2] < b[1]
    BY <2>1 DEF Sorted, Ahead
  <2> QED BY <2>1, <2>2, <2>3, <2>4
<1>6. \A i \in 1..n : Fits(events[i]) => \E b \in B : i \in b[1]..b[2]
  BY <1>1
<1> HIDE DEF events, K, f, B, kept, cuts
<1>7. \A i \in 1..n : f[i] \in K /\ f[i] \in Nat
  <2>1. \A i \in 1..n : f[i] \in K
    BY <1>2
  <2> QED BY <1>3, <2>1
<1>8. \A i, j \in 1..n : (f[i] = f[j] => i = j) /\ (f[i] < f[j] => i < j) /\ (i <= j => f[i] <= f[j])
                         /\ (f[i] <= f[j] => i <= j)
  <2> TAKE i, j \in 1..n
  <2>1. i < j => f[i] < f[j]
    BY <1>2
  <2>2. j < i => f[j] < f[i]
    BY <1>2
  <2>3. f[i] \in Nat /\ f[j] \in Nat
    BY <1>7
  <2>4. PICK x \in Nat, y \in Nat : x = f[i] /\ y = f[j]
    BY <2>3
  <2>5. i = j => x = y
    BY <2>4
  <2>6. (i < j => x < y) /\ (j < i => y < x)
    BY <2>1, <2>2, <2>4
  <2>7. (x = y => i = j) /\ (x < y => i < j) /\ (i <= j => x <= y) /\ (x <= y => i <= j)
    BY <2>5, <2>6
  <2> QED BY <2>4, <2>7
<1> DEFINE Home(k, b) == b \in B /\ \E i \in b[1]..b[2] : f[i] = k
           run == [k \in kept |-> f[(CHOOSE b : Home(k, b))[1]]]
<1>9. \A b \in B : \A i \in b[1]..b[2] : i \in 1..n
  BY <1>4
<1>10. \A b, c \in B : \A i \in b[1]..b[2] : i \in c[1]..c[2] => b = c
  <2> TAKE b, c \in B
  <2> TAKE i \in b[1]..b[2]
  <2> HAVE i \in c[1]..c[2]
  <2>1. b[1] \in Nat /\ b[2] \in Nat /\ c[1] \in Nat /\ c[2] \in Nat
    BY <1>4
  <2>2. i \in Nat /\ b[1] <= i /\ i <= b[2] /\ c[1] <= i /\ i <= c[2]
    BY <2>1
  <2>3. ~(b[2] < c[1]) /\ ~(c[2] < b[1])
    BY <2>1, <2>2
  <2> QED BY <1>5, <2>3
<1>11. ASSUME NEW k \in kept PROVE \E b : Home(k, b)
  <2>1. PICK i \in 1..n : f[i] = k
    BY <1>2, <1>3
  <2>2. Fits(events[i])
    BY <1>2, <1>3, <2>1
  <2> QED BY <1>6, <2>1, <2>2
<1>12. ASSUME NEW k, NEW b, NEW c, Home(k, b), Home(k, c) PROVE b = c
  <2>1. PICK i \in b[1]..b[2] : f[i] = k
    BY <1>12
  <2>2. PICK j \in c[1]..c[2] : f[j] = k
    BY <1>12
  <2>3. i = j
    BY <1>8, <1>9, <1>12, <2>1, <2>2
  <2> QED BY <1>10, <1>12, <2>1, <2>2, <2>3
<1>13. ASSUME NEW b \in B, NEW i \in b[1]..b[2] PROVE f[i] \in kept /\ Home(f[i], b)
  <2>1. i \in 1..n /\ Fits(events[i])
    BY <1>4, <1>9
  <2>2. f[i] \in K /\ Fits(batch[f[i]])
    BY <1>2, <1>7, <2>1
  <2> QED BY <1>3, <2>2
<1>14. ASSUME NEW k \in kept, NEW b, Home(k, b) PROVE run[k] = f[b[1]]
  <2>1. (CHOOSE c : Home(k, c)) = b
    BY <1>12, <1>14
  <2> HIDE DEF Home
  <2> QED BY <2>1
<1>15. \A b \in B : b[1] \in b[1]..b[2]
  BY <1>4
<1>16. ASSUME NEW k \in kept PROVE \E b \in B : Home(k, b) /\ run[k] = f[b[1]] /\ run[k] \in kept
  <2>1. PICK b : Home(k, b)
    BY <1>11
  <2>2. b \in B
    BY <2>1
  <2>3. f[b[1]] \in kept
    BY <1>13, <1>15, <2>2
  <2> HIDE DEF Home, run
  <2> QED BY <1>14, <2>1, <2>2, <2>3
<1>17. run \in [kept -> kept]
  <2>1. \A k \in kept : run[k] \in kept
    BY <1>16
  <2> QED BY <2>1
<1>18. \A b, c \in B : f[b[1]] = f[c[1]] => b = c
  BY <1>8, <1>9, <1>10, <1>15
<1>19. ASSUME NEW j \in kept, NEW k \in kept, j < k
       PROVE  run[j] <= run[k] /\ (run[j] = run[k] => (j..k) \cap cuts = {})
  <2>1. PICK b \in B : Home(j, b) /\ run[j] = f[b[1]]
    BY <1>16
  <2>2. PICK c \in B : Home(k, c) /\ run[k] = f[c[1]]
    BY <1>16
  <2> HIDE DEF run
  <2>3. PICK x \in b[1]..b[2] : f[x] = j
    BY <2>1
  <2>4. PICK y \in c[1]..c[2] : f[y] = k
    BY <2>2
  <2>5. x \in 1..n /\ y \in 1..n /\ x < y
    BY <1>8, <1>9, <1>19, <2>3, <2>4
  <2>6. b[1] \in 1..n /\ b[2] \in 1..n /\ c[1] \in 1..n /\ c[2] \in 1..n
    BY <1>4
  <2>7. b[1] <= c[1]
    <3>1. b = c \/ b[2] < c[1] \/ c[2] < b[1]
      BY <1>5
    <3>2. b[1] <= x /\ x <= b[2] /\ c[1] <= y /\ y <= c[2]
      BY <2>3, <2>4, <2>6
    <3>3. ~(c[2] < b[1])
      BY <2>5, <2>6, <3>2
    <3>4. b = c => b[1] <= c[1]
      BY <2>6
    <3>5. b[2] < c[1] => b[1] <= c[1]
      BY <2>5, <2>6, <3>2
    <3> QED BY <3>1, <3>3, <3>4, <3>5
  <2>8. run[j] <= run[k]
    BY <1>8, <2>1, <2>2, <2>6, <2>7
  <2>9. ASSUME run[j] = run[k], NEW z \in (j..k) \cap cuts PROVE FALSE
    <3>1. b = c
      BY <1>18, <2>1, <2>2, <2>9
    <3>2. PICK m \in 1..n : f[m] = z
      BY <1>2, <1>3, <2>9
    <3>3. j \in Nat /\ k \in Nat
      BY <1>3
    <3>4. f[x] <= f[m] /\ f[m] <= f[y]
      BY <2>3, <2>4, <2>9, <3>2, <3>3
    <3>5. x <= m /\ m <= y
      BY <1>8, <2>5, <3>2, <3>4
    <3>6. m \in b[1]..b[2]
      BY <2>3, <2>4, <2>5, <2>6, <3>1, <3>5
    <3>7. Fits(events[m]) /\ events[m] = batch[f[m]]
      BY <1>2, <1>4, <3>2, <3>6
    <3> QED BY <1>3, <2>9, <3>2, <3>7
  <2> QED BY <2>8, <2>9
<1>20. ASSUME NEW b \in B
       PROVE  {RecordOf(batch[k]) : k \in {j \in kept : run[j] = f[b[1]]}} = RecordsIn(events, b)
  <2>1. ASSUME NEW k \in kept, run[k] = f[b[1]] PROVE \E i \in b[1]..b[2] : f[i] = k
    <3>1. PICK c \in B : Home(k, c) /\ run[k] = f[c[1]]
      BY <1>16
    <3>2. c = b
      BY <1>18, <2>1, <3>1
    <3> QED BY <3>1, <3>2
  <2>2. ASSUME NEW i \in b[1]..b[2] PROVE f[i] \in kept /\ run[f[i]] = f[b[1]]
    <3>1. f[i] \in kept /\ Home(f[i], b)
      BY <1>13
    <3> HIDE DEF Home, run
    <3> QED BY <1>14, <3>1
  <2>3. \A i \in b[1]..b[2] : events[i] = batch[f[i]]
    BY <1>2, <1>9
  <2> HIDE DEF run, Home
  <2> QED BY <2>1, <2>2, <2>3 DEF RecordsIn
<1>21. Range(run) = {f[b[1]] : b \in B}
  <2>1. \A k \in kept : \E b \in B : run[k] = f[b[1]]
    BY <1>16
  <2>2. ASSUME NEW b \in B PROVE f[b[1]] \in kept /\ run[f[b[1]]] = f[b[1]]
    <3>1. f[b[1]] \in kept /\ Home(f[b[1]], b)
      BY <1>13, <1>15
    <3> HIDE DEF Home, run
    <3> QED BY <1>14, <3>1
  <2>3. DOMAIN run = kept
    OBVIOUS
  <2> HIDE DEF run, Home
  <2> QED BY <2>1, <2>2, <2>3 DEF Range
<1> HIDE DEF run, Home
<1> DEFINE Of(r) == {RecordOf(batch[k]) : k \in {j \in kept : run[j] = r}}
<1>22. {Of(r) : r \in Range(run)} = {RecordsIn(events, b) : b \in B}
  <2>1. \A b \in B : Of(f[b[1]]) = RecordsIn(events, b)
    BY <1>20
  <2> HIDE DEF Of
  <2> QED BY <1>21, <2>1
<1> DEFINE runs == {x \in [kept -> kept] : \A j, k \in kept : j < k =>
                      /\ x[j] <= x[k]
                      /\ x[j] = x[k] => (j..k) \cap cuts = {}}
<1>23. run \in runs
  BY <1>17, <1>19
<1>24. {Of(r) : r \in Range(run)} \in
         {{{RecordOf(batch[k]) : k \in {j \in kept : x[j] = r}} : r \in Range(x)} : x \in runs}
  <2> HIDE DEF runs
  <2> QED BY <1>23, Zenon
<1>25. Fitted(batch) =
         {{{RecordOf(batch[k]) : k \in {j \in kept : x[j] = r}} : r \in Range(x)} : x \in runs}
  BY DEF Fitted, kept, cuts
<1>26. {Of(r) : r \in Range(run)} \in Fitted(batch)
  BY <1>24, <1>25
<1> QED BY <1>22, <1>26 DEF events, B

-----------------------------------------------------------------------------
(* The recursion of fitBatch() loses no event and duplicates none, keeps   *)
(* their order and makes only payloads that fit, whatever the length of    *)
(* the batch, its events and the lists of them that fit.                   *)
THEOREM HalvingIsFaithful ==
  ASSUME NEW batch, Len(batch) \in Nat,
         NEW fitting \in FittingSlices(ValidItems(batch))
  PROVE  LET events == ValidItems(batch)
             outcome == Halve(Len(events), fitting)
         IN  /\ KeepsEvents(events, fitting, outcome)
             /\ {RecordsIn(events, b) : b \in Range(outcome.batches)} \in Fitted(batch)
<1> DEFINE events == ValidItems(batch)
           outcome == Halve(Len(events), fitting)
<1>1. PICK n \in Nat : n = Len(events)
  BY ValidFacts
<1>2. Good(events, fitting, <<1, n>>, outcome)
  BY <1>1, HalvingGood
<1> HIDE DEF events, outcome
<1>3. /\ \A s \in fitting : /\ s[1] \in Nat /\ s[2] \in Nat /\ 1 <= s[1] /\ s[2] <= n
                            /\ \A k \in s[1]..s[2] : Fits(events[k])
  BY <1>1, FittingFacts DEF events
<1>4. /\ outcome.batches \in Seq(fitting) /\ Sorted(outcome.batches, Ahead(fitting))
      /\ outcome.oversized \in Seq(Nat) /\ Sorted(outcome.oversized, Smaller)
      /\ \A k \in Range(outcome.oversized) : k \in 1..n /\ ~Fits(events[k])
      /\ \A k \in 1..n : \/ k \in Range(outcome.oversized)
                         \/ \E b \in Range(outcome.batches) : k \in b[1]..b[2]
  BY <1>2 DEF Good
<1>5. \A b \in Range(outcome.batches) : b \in fitting
  BY <1>4, SeqElements
<1>6. /\ DOMAIN outcome.batches = 1..Len(outcome.batches)
      /\ DOMAIN outcome.oversized = 1..Len(outcome.oversized)
  BY <1>4, LenProperties
<1>7. UNION {b[1]..b[2] : b \in Range(outcome.batches)} = {k \in 1..n : Fits(events[k])}
  <2>1. ASSUME NEW b \in Range(outcome.batches), NEW k \in b[1]..b[2]
        PROVE  k \in 1..n /\ Fits(events[k])
    BY <1>3, <1>5
  <2> QED BY <1>4, <2>1
<1>8. Range(outcome.oversized) = {k \in 1..n : ~Fits(events[k])}
  <2>1. ASSUME NEW k \in 1..n, ~Fits(events[k]) PROVE k \in Range(outcome.oversized)
    BY <1>3, <1>4, <1>5, <2>1
  <2> QED BY <1>4, <2>1
<1>9. KeepsEvents(events, fitting, outcome)
  BY <1>1, <1>4, <1>5, <1>6, <1>7, <1>8 DEF KeepsEvents, Sorted, Ahead, Smaller, Increasing
<1>10. \A k \in 1..n : Fits(events[k]) => \E b \in Range(outcome.batches) : k \in b[1]..b[2]
  BY <1>4
<1>11. {RecordsIn(events, b) : b \in Range(outcome.batches)} \in Fitted(batch)
  BY <1>1, <1>4, <1>10, PiecesFitted DEF events
<1> QED BY <1>9, <1>11 DEF events, outcome

(* So the payloads of each batch that reaches the produce call are right,  *)
(* and Batcher, which publishes any cut into runs, leaves none out.        *)
THEOREM HalvingKeeps == Spec => []HalvingKeepsEvents
<1>1. TypeOK => HalvingKeepsEvents
  <2> SUFFICES ASSUME TypeOK PROVE HalvingKeepsEvents
    OBVIOUS
  <2>1. Len(inflight) \in Nat
    BY LenProperties DEF TypeOK
  <2> QED BY <2>1, HalvingIsFaithful DEF HalvingKeepsEvents
<1> QED BY <1>1, TypeCorrect, PTL

=============================================================================
