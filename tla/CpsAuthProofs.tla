----------------------------- MODULE CpsAuthProofs -----------------------------
(***************************************************************************)
(* What the CPS authentication answers and what its cache forgets, for     *)
(* every set of sensors, every tree and its changes, and all sizes of the  *)
(* cache and of the walk.                                                  *)
(***************************************************************************)
EXTENDS CpsAuth, SequenceTheorems, FiniteSetTheorems, WellFoundedInduction, TLAPS

-----------------------------------------------------------------------------
(* Lemmas about sequences.                                                 *)

(* RemoveAt() keeps the others, each in its turn.                          *)
LEMMA RemoveAtFacts ==
  ASSUME NEW S, NEW f \in Seq(S), NEW p \in DOMAIN f
  PROVE  /\ RemoveAt(f, p) \in Seq(S)
         /\ Len(RemoveAt(f, p)) = Len(f) - 1
         /\ \A j \in 1..Len(f) - 1 : RemoveAt(f, p)[j] = IF j < p THEN f[j] ELSE f[j + 1]
<1> DEFINE a == SubSeq(f, 1, p - 1)
           b == SubSeq(f, p + 1, Len(f))
<1>1. Len(f) \in Nat /\ DOMAIN f = 1..Len(f) /\ p \in 1..Len(f)
  BY LenProperties
<1>2. \A i \in 1..Len(f) : f[i] \in S
  BY ElementOfSeq
<1>3. a \in Seq(S) /\ Len(a) = p - 1 /\ \A i \in 1..p - 1 : a[i] = f[i]
  <2>1. /\ a \in Seq(S)
        /\ Len(a) = IF 1 <= p - 1 THEN p - 1 - 1 + 1 ELSE 0
        /\ \A i \in 1..p - 1 - 1 + 1 : a[i] = f[1 + i - 1]
    <3>1. \A i \in 1..p - 1 : f[i] \in S
      BY <1>1, <1>2
    <3> QED BY <1>1, <3>1, SubSeqProperties
  <2>2. 1..p - 1 - 1 + 1 = 1..p - 1 /\ \A i \in 1..p - 1 : 1 + i - 1 = i
    BY <1>1
  <2>3. Len(a) = p - 1
    BY <1>1, <2>1
  <2> HIDE DEF a
  <2> QED BY <2>1, <2>2, <2>3
<1>4. b \in Seq(S) /\ Len(b) = Len(f) - p /\ \A i \in 1..Len(f) - p : b[i] = f[p + i]
  <2>1. /\ b \in Seq(S)
        /\ Len(b) = IF p + 1 <= Len(f) THEN Len(f) - (p + 1) + 1 ELSE 0
        /\ \A i \in 1..Len(f) - (p + 1) + 1 : b[i] = f[p + 1 + i - 1]
    <3>1. \A i \in p + 1..Len(f) : f[i] \in S
      BY <1>1, <1>2
    <3> QED BY <1>1, <3>1, SubSeqProperties
  <2>2. Len(f) - (p + 1) + 1 = Len(f) - p /\ \A i \in 1..Len(f) - p : p + 1 + i - 1 = p + i
    BY <1>1
  <2>3. Len(b) = Len(f) - p
    BY <1>1, <2>1
  <2> HIDE DEF b
  <2> QED BY <2>1, <2>2, <2>3
<1>5. RemoveAt(f, p) = a \o b
  BY DEF RemoveAt
<1> HIDE DEF a, b
<1>6. /\ a \o b \in Seq(S) /\ Len(a \o b) = Len(a) + Len(b)
      /\ \A i \in 1..Len(a) + Len(b) :
           (a \o b)[i] = IF i <= Len(a) THEN a[i] ELSE b[i - Len(a)]
  BY <1>3, <1>4, ConcatProperties
<1>7. Len(f) - 1 = Len(a) + Len(b)
  BY <1>1, <1>3, <1>4
<1>8. ASSUME NEW j \in 1..Len(f) - 1
      PROVE  (a \o b)[j] = IF j < p THEN f[j] ELSE f[j + 1]
  <2>1. CASE j < p
    <3>1. j <= Len(a) /\ j \in 1..p - 1
      BY <1>1, <1>3, <2>1
    <3> QED BY <1>3, <1>6, <1>7, <2>1, <3>1
  <2>2. CASE ~ (j < p)
    <3>1. ~ (j <= Len(a)) /\ j - Len(a) \in 1..Len(f) - p /\ p + (j - Len(a)) = j + 1
      BY <1>1, <1>3, <2>2
    <3> QED BY <1>4, <1>6, <1>7, <2>2, <3>1
  <2> QED BY <2>1, <2>2
<1> QED BY <1>5, <1>6, <1>7, <1>8

(* Delete() keeps the others and their order.                              *)
LEMMA DeleteFacts ==
  ASSUME NEW S, NEW f \in Seq(S), NEW at \in SUBSET DOMAIN f, \A i, j \in at : i = j
  PROVE  LET d == Delete(f, at) IN
         /\ d \in Seq(S)
         /\ Len(d) = IF at = {} THEN Len(f) ELSE Len(f) - 1
         /\ \A j \in DOMAIN d : \E i \in DOMAIN f \ at : d[j] = f[i]
         /\ \A i \in DOMAIN f \ at : \E j \in DOMAIN d : d[j] = f[i]
         /\ \A j, k \in DOMAIN d : j < k =>
              \E i, l \in DOMAIN f \ at : i < l /\ d[j] = f[i] /\ d[k] = f[l]
         /\ \A i, l \in DOMAIN f \ at : i < l =>
              \E j, k \in DOMAIN d : j < k /\ d[j] = f[i] /\ d[k] = f[l]
<1> DEFINE d == Delete(f, at)
<1>1. Len(f) \in Nat /\ DOMAIN f = 1..Len(f)
  BY LenProperties
<1>2. CASE at = {}
  <2>1. d = f
    BY <1>2 DEF Delete
  <2>2. DOMAIN f \ at = DOMAIN f
    BY <1>2
  <2> HIDE DEF d
  <2>3. /\ d \in Seq(S) /\ Len(d) = Len(f)
        /\ \A j \in DOMAIN d : \E i \in DOMAIN f : d[j] = f[i]
        /\ \A i \in DOMAIN f : \E j \in DOMAIN d : d[j] = f[i]
        /\ \A j, k \in DOMAIN d : j < k =>
             \E i, l \in DOMAIN f : i < l /\ d[j] = f[i] /\ d[k] = f[l]
        /\ \A i, l \in DOMAIN f : i < l =>
             \E j, k \in DOMAIN d : j < k /\ d[j] = f[i] /\ d[k] = f[l]
    BY <2>1
  <2> QED BY <1>2, <2>2, <2>3 DEF d
<1>3. CASE at # {}
  <2>1. PICK p \in at : at = {p}
    BY <1>3
  <2>2. p \in 1..Len(f) /\ d = RemoveAt(f, p)
    <3>1. (CHOOSE i \in at : TRUE) = p
      BY <2>1
    <3> QED BY <1>1, <1>3, <3>1 DEF Delete
  <2> HIDE DEF d
  <2> DEFINE n == Len(f)
             here(j)  == IF j < p THEN j ELSE j + 1
             there(i) == IF i < p THEN i ELSE i - 1
  <2>3. d \in Seq(S) /\ Len(d) = n - 1 /\ DOMAIN d = 1..n - 1
    <3>1. d \in Seq(S) /\ Len(d) = n - 1
      BY <1>1, <2>2, RemoveAtFacts
    <3> QED BY <3>1, LenProperties
  <2>4. \A j \in 1..n - 1 : here(j) \in 1..n \ at /\ d[j] = f[here(j)]
    <3>1. \A j \in 1..n - 1 : d[j] = IF j < p THEN f[j] ELSE f[j + 1]
      BY <1>1, <2>2, RemoveAtFacts
    <3>2. \A j \in 1..n - 1 : here(j) \in 1..n /\ here(j) # p
      BY <1>1, <2>2
    <3> QED BY <2>1, <3>1, <3>2
  <2>5. \A i \in 1..n \ at : there(i) \in 1..n - 1 /\ here(there(i)) = i
    BY <1>1, <2>1, <2>2
  <2>6. \A j, k \in 1..n - 1 : j < k => here(j) < here(k)
    BY <1>1, <2>2
  <2>7. \A i, l \in 1..n \ at : i < l => there(i) < there(l)
    BY <1>1, <2>1, <2>2
  <2>8. \A i \in 1..n \ at : d[there(i)] = f[i]
    BY <2>4, <2>5
  <2> HIDE DEF here, there
  <2>9. \A j \in DOMAIN d : \E i \in DOMAIN f \ at : d[j] = f[i]
    BY <1>1, <2>3, <2>4
  <2>10. \A i \in DOMAIN f \ at : \E j \in DOMAIN d : d[j] = f[i]
    BY <1>1, <2>3, <2>5, <2>8
  <2>11. \A j, k \in DOMAIN d : j < k =>
           \E i, l \in DOMAIN f \ at : i < l /\ d[j] = f[i] /\ d[k] = f[l]
    BY <1>1, <2>3, <2>4, <2>6
  <2>12. \A i, l \in DOMAIN f \ at : i < l =>
           \E j, k \in DOMAIN d : j < k /\ d[j] = f[i] /\ d[k] = f[l]
    BY <1>1, <2>3, <2>5, <2>7, <2>8
  <2> QED BY <1>3, <2>3, <2>9, <2>10, <2>11, <2>12 DEF d
<1> QED BY <1>2, <1>3

-----------------------------------------------------------------------------
(* Lemmas about the cache.                                                 *)

OneEntryEach(entries) ==
  \A i, j \in DOMAIN entries : entries[i].sensor = entries[j].sensor => i = j

(* Every pair of entries of d stood in the same order in f.                *)
InOrderOf(d, f) ==
  \A j, k \in DOMAIN d : j < k =>
    \E i, l \in DOMAIN f : i < l /\ d[j] = f[i] /\ d[k] = f[l]

(* Without the entry of a sensor, the cache is what it was otherwise.      *)
LEMMA WithoutFacts ==
  ASSUME TypeOK, NEW s \in Sensors
  PROVE  /\ Without(cache, s) \in Seq(Entries)
         /\ Len(Without(cache, s)) <= CacheMaxSize
         /\ Len(Without(cache, s)) = CacheMaxSize =>
              Len(cache) = CacheMaxSize /\ Without(cache, s) = cache
         /\ OneEntryEach(Without(cache, s))
         /\ Range(Without(cache, s)) = {e \in Range(cache) : e.sensor # s}
         /\ InOrderOf(Without(cache, s), cache)
<1> DEFINE at == {i \in DOMAIN cache : cache[i].sensor = s}
           d  == Delete(cache, at)
<1>1. cache \in Seq(Entries) /\ Len(cache) <= CacheMaxSize /\ OneEntryEach(cache)
  BY DEF TypeOK, OneEntryEach
<1>2. Without(cache, s) = d
  BY DEF Without
<1>3. at \in SUBSET DOMAIN cache /\ \A i, j \in at : i = j
  BY <1>1 DEF OneEntryEach
<1>4. \A i \in DOMAIN cache : i \in at <=> cache[i].sensor = s
  OBVIOUS
<1>5. at = {} => d = cache
  BY DEF Delete
<1> HIDE DEF at, d
<1>6. /\ d \in Seq(Entries)
      /\ Len(d) = IF at = {} THEN Len(cache) ELSE Len(cache) - 1
      /\ \A j \in DOMAIN d : \E i \in DOMAIN cache \ at : d[j] = cache[i]
      /\ \A i \in DOMAIN cache \ at : \E j \in DOMAIN d : d[j] = cache[i]
      /\ \A j, k \in DOMAIN d : j < k =>
           \E i, l \in DOMAIN cache \ at : i < l /\ d[j] = cache[i] /\ d[k] = cache[l]
  BY <1>1, <1>3, DeleteFacts DEF d
<1>7. Len(cache) \in Nat /\ Len(d) \in Nat /\ CacheMaxSize \in Nat
      /\ DOMAIN cache = 1..Len(cache) /\ DOMAIN d = 1..Len(d)
  BY <1>1, <1>6, LenProperties, CpsAssumption
<1>8. Len(d) <= CacheMaxSize /\ (Len(d) = CacheMaxSize => Len(cache) = CacheMaxSize /\ d = cache)
  <2>1. CASE at = {}
    <3>1. d = cache /\ Len(d) = Len(cache)
      BY <1>5, <1>6, <2>1
    <3> QED BY <1>1, <3>1
  <2>2. CASE at # {}
    <3>1. Len(d) = Len(cache) - 1
      BY <1>6, <2>2
    <3>2. \A n, m, max \in Nat : n = m - 1 /\ m <= max => n <= max /\ n # max
      OBVIOUS
    <3>3. Len(d) <= CacheMaxSize /\ Len(d) # CacheMaxSize
      BY <1>1, <1>7, <3>1, <3>2
    <3> QED BY <3>3
  <2> QED BY <2>1, <2>2
<1>9. InOrderOf(d, cache)
  BY <1>6 DEF InOrderOf
<1>10. Range(d) = {e \in Range(cache) : e.sensor # s}
  <2>1. ASSUME NEW j \in DOMAIN d
        PROVE  d[j] \in Range(cache) /\ d[j].sensor # s
    <3>1. PICK i \in DOMAIN cache \ at : d[j] = cache[i]
      BY <1>6
    <3>2. i \in DOMAIN cache /\ i \notin at
      OBVIOUS
    <3> QED BY <1>4, <3>1, <3>2 DEF Range
  <2>2. ASSUME NEW i \in DOMAIN cache, cache[i].sensor # s
        PROVE  cache[i] \in Range(d)
    <3>1. i \in DOMAIN cache \ at
      BY <1>4, <2>2
    <3> QED BY <1>6, <3>1 DEF Range
  <2> QED BY <2>1, <2>2 DEF Range
<1>11. OneEntryEach(d)
  <2>1. \A j, k \in DOMAIN d : j < k => d[j].sensor # d[k].sensor
    <3> TAKE j, k \in DOMAIN d
    <3> HAVE j < k
    <3>1. PICK i, l \in DOMAIN cache : i < l /\ d[j] = cache[i] /\ d[k] = cache[l]
      BY <1>6
    <3>2. i # l
      BY <1>7, <3>1
    <3> QED BY <1>1, <3>1, <3>2 DEF OneEntryEach
  <2>2. \A j, k \in DOMAIN d : j < k \/ k < j \/ j = k
    BY <1>7
  <2> QED BY <2>1, <2>2 DEF OneEntryEach
<1> QED BY <1>2, <1>6, <1>8, <1>9, <1>10, <1>11

(* An entry is added behind the others.                                    *)
LEMMA AppendFacts ==
  ASSUME NEW d \in Seq(Entries), OneEntryEach(d), NEW e \in Entries,
         \A f \in Range(d) : f.sensor # e.sensor
  PROVE  /\ Append(d, e) \in Seq(Entries) /\ Len(Append(d, e)) = Len(d) + 1
         /\ OneEntryEach(Append(d, e))
         /\ Range(Append(d, e)) = Range(d) \cup {e}
         /\ \A j, k \in DOMAIN Append(d, e) : j < k =>
              \/ j \in DOMAIN d /\ k \in DOMAIN d /\ Append(d, e)[j] = d[j] /\ Append(d, e)[k] = d[k]
              \/ Append(d, e)[j] \in Range(d) /\ Append(d, e)[k] = e
<1> DEFINE a == Append(d, e)
<1>1. /\ a \in Seq(Entries) /\ Len(a) = Len(d) + 1
      /\ \A i \in 1..Len(d) : a[i] = d[i]
      /\ a[Len(d) + 1] = e
  BY AppendProperties
<1> HIDE DEF a
<1>2. Len(d) \in Nat /\ DOMAIN d = 1..Len(d) /\ DOMAIN a = 1..Len(d) + 1
  BY <1>1, LenProperties
<1>3. \A i \in DOMAIN a : \/ i \in DOMAIN d /\ a[i] = d[i] /\ i < Len(d) + 1
                          \/ i = Len(d) + 1 /\ a[i] = e
  BY <1>1, <1>2
<1>4. \A i \in DOMAIN d : i \in DOMAIN a /\ a[i] = d[i] /\ d[i] \in Range(d)
  BY <1>1, <1>2 DEF Range
<1>5. OneEntryEach(a)
  BY <1>3, <1>4 DEF OneEntryEach
<1>6. Range(a) = Range(d) \cup {e}
  <2>1. Len(d) + 1 \in DOMAIN a
    BY <1>2
  <2> QED BY <1>1, <1>3, <1>4, <2>1 DEF Range
<1>7. \A j, k \in DOMAIN a : j < k =>
        \/ j \in DOMAIN d /\ k \in DOMAIN d /\ a[j] = d[j] /\ a[k] = d[k]
        \/ a[j] \in Range(d) /\ a[k] = e
  BY <1>2, <1>3, <1>4
<1> QED BY <1>1, <1>5, <1>6, <1>7 DEF a

(* What is left of a, an added entry behind the others, in the cache.      *)
Kept(a) == IF Len(a) > CacheMaxSize THEN Tail(a) ELSE a

(* An entry that is put in the cache comes last, and takes the place of    *)
(* the first only if the cache is full.                                    *)
LEMMA KeptFacts ==
  ASSUME TypeOK, NEW s \in Sensors, NEW e \in Entries, e.sensor = s,
         NEW c, c = Kept(Append(Without(cache, s), e))
  PROVE  /\ c \in Seq(Entries) /\ Len(c) <= CacheMaxSize /\ OneEntryEach(c)
         /\ e \in Range(c)
         /\ \A f \in Range(c) : f = e \/ (f \in Range(cache) /\ f.sensor # s)
         /\ \A f \in Range(cache) :
              f.sensor = s \/ f \in Range(c) \/ (Len(cache) = CacheMaxSize /\ f = cache[1])
         /\ \A j, k \in DOMAIN c : j < k =>
              \/ /\ c[j].sensor # s /\ c[k].sensor # s
                 /\ \E i, l \in DOMAIN cache : i < l /\ c[j] = cache[i] /\ c[k] = cache[l]
              \/ c[j] \in Range(cache) /\ c[j].sensor # s /\ c[k] = e
<1> DEFINE d == Without(cache, s)
           a == Append(d, e)
<1>1. /\ d \in Seq(Entries) /\ Len(d) <= CacheMaxSize
      /\ Len(d) = CacheMaxSize => Len(cache) = CacheMaxSize /\ d = cache
      /\ OneEntryEach(d)
      /\ Range(d) = {f \in Range(cache) : f.sensor # s}
      /\ InOrderOf(d, cache)
  BY WithoutFacts
<1>2. c = Kept(a)
  OBVIOUS
<1> HIDE DEF d
<1>3. /\ a \in Seq(Entries) /\ Len(a) = Len(d) + 1 /\ OneEntryEach(a)
      /\ Range(a) = Range(d) \cup {e}
      /\ \A j, k \in DOMAIN a : j < k =>
           \/ j \in DOMAIN d /\ k \in DOMAIN d /\ a[j] = d[j] /\ a[k] = d[k]
           \/ a[j] \in Range(d) /\ a[k] = e
  BY <1>1, AppendFacts
<1>4. /\ a # << >> /\ a[Len(d) + 1] = e
      /\ \A i \in 1..Len(d) : a[i] = d[i]
  BY <1>1, AppendProperties
<1> HIDE DEF a
<1>5. /\ Len(d) \in Nat /\ CacheMaxSize \in Nat /\ CacheMaxSize >= 1
      /\ DOMAIN d = 1..Len(d) /\ DOMAIN a = 1..Len(d) + 1
      /\ Len(a) = Len(d) + 1 /\ Len(d) <= CacheMaxSize
  BY <1>1, <1>3, LenProperties, CpsAssumption
<1>9. Range(a) = {f \in Range(cache) : f.sensor # s} \cup {e}
  BY <1>1, <1>3
<1>6. \A j, k \in DOMAIN a : j < k =>
        \/ /\ a[j].sensor # s /\ a[k].sensor # s
           /\ \E i, l \in DOMAIN cache : i < l /\ a[j] = cache[i] /\ a[k] = cache[l]
        \/ a[j] \in Range(cache) /\ a[j].sensor # s /\ a[k] = e
  <2> TAKE j, k \in DOMAIN a
  <2> HAVE j < k
  <2>1. CASE j \in DOMAIN d /\ k \in DOMAIN d /\ a[j] = d[j] /\ a[k] = d[k]
    <3>1. d[j] \in Range(d) /\ d[k] \in Range(d)
      BY <2>1 DEF Range
    <3>2. \E i, l \in DOMAIN cache : i < l /\ d[j] = cache[i] /\ d[k] = cache[l]
      BY <1>1, <2>1 DEF InOrderOf
    <3> QED BY <1>1, <2>1, <3>1, <3>2
  <2>2. CASE a[j] \in Range(d) /\ a[k] = e
    BY <1>1, <2>2
  <2> QED BY <1>3, <2>1, <2>2
<1>7. CASE ~ (Len(a) > CacheMaxSize)
  <2>1. c = a
    BY <1>2, <1>7 DEF Kept
  <2>2. Len(a) <= CacheMaxSize
    BY <1>5, <1>7
  <2>3. /\ e \in Range(c)
        /\ \A f \in Range(c) : f = e \/ (f \in Range(cache) /\ f.sensor # s)
        /\ \A f \in Range(cache) : f.sensor = s \/ f \in Range(c)
    BY <1>9, <2>1
  <2>4. c \in Seq(Entries) /\ Len(c) <= CacheMaxSize /\ OneEntryEach(c)
    BY <1>3, <2>1, <2>2
  <2> QED BY <1>6, <2>1, <2>3, <2>4
<1>8. CASE Len(a) > CacheMaxSize
  <2>1. c = Tail(a)
    BY <1>2, <1>8 DEF Kept
  <2>2. Len(d) = CacheMaxSize
    <3>1. \A n, max \in Nat : n <= max /\ n + 1 > max => n = max
      OBVIOUS
    <3>2. Len(d) + 1 > CacheMaxSize
      BY <1>5, <1>8
    <3> QED BY <1>5, <3>1, <3>2
  <2>3. Len(cache) = CacheMaxSize /\ d = cache
    BY <1>1, <2>2
  <2>4. /\ c \in Seq(Entries) /\ Len(c) = Len(a) - 1
        /\ \A i \in 1..Len(c) : c[i] = a[i + 1]
    BY <1>3, <1>4, <2>1, HeadTailProperties
  <2>5. Len(c) = CacheMaxSize /\ DOMAIN c = 1..CacheMaxSize /\ DOMAIN a = 1..CacheMaxSize + 1
    BY <1>3, <1>5, <2>2, <2>4, LenProperties
  <2>6. \A i \in DOMAIN c : i + 1 \in DOMAIN a /\ c[i] = a[i + 1]
    BY <1>5, <2>4, <2>5
  <2>7. OneEntryEach(c)
    <3> SUFFICES ASSUME NEW i \in DOMAIN c, NEW j \in DOMAIN c, c[i].sensor = c[j].sensor
                 PROVE  i = j
      BY DEF OneEntryEach
    <3>1. i + 1 = j + 1
      BY <1>3, <2>6 DEF OneEntryEach
    <3> QED BY <1>5, <2>5, <3>1
  <2>8. e \in Range(c)
    <3>1. CacheMaxSize \in DOMAIN c /\ c[CacheMaxSize] = e
      BY <1>4, <1>5, <2>2, <2>5, <2>6
    <3> QED BY <3>1 DEF Range
  <2>9. \A f \in Range(c) : f = e \/ (f \in Range(cache) /\ f.sensor # s)
    <3>1. \A f \in Range(c) : f \in Range(a)
      BY <2>6 DEF Range
    <3> QED BY <1>9, <3>1
  <2>10. \A f \in Range(cache) : f \in Range(c) \/ f = cache[1]
    <3> SUFFICES ASSUME NEW i \in DOMAIN d, i # 1
                 PROVE  d[i] \in Range(c)
      BY <2>3 DEF Range
    <3>1. i - 1 \in DOMAIN c /\ i - 1 + 1 = i
      BY <1>5, <2>2, <2>5
    <3>2. c[i - 1] = d[i]
      BY <1>4, <1>5, <2>6, <3>1
    <3> QED BY <3>1, <3>2 DEF Range
  <2>11. ASSUME NEW j \in DOMAIN c, NEW k \in DOMAIN c, j < k
         PROVE  \/ /\ c[j].sensor # s /\ c[k].sensor # s
                   /\ \E i, l \in DOMAIN cache : i < l /\ c[j] = cache[i] /\ c[k] = cache[l]
                \/ c[j] \in Range(cache) /\ c[j].sensor # s /\ c[k] = e
    <3>1. /\ j + 1 \in DOMAIN a /\ k + 1 \in DOMAIN a /\ j + 1 < k + 1
          /\ c[j] = a[j + 1] /\ c[k] = a[k + 1]
      BY <1>5, <2>5, <2>6, <2>11
    <3> QED BY <1>6, <3>1
  <2>12. Len(c) <= CacheMaxSize
    BY <1>5, <2>5
  <2> QED BY <2>3, <2>4, <2>7, <2>8, <2>9, <2>10, <2>11, <2>12
<1> QED BY <1>7, <1>8

(* A sensor that is used is the latest; the others keep their order.       *)
LEMMA UsedFacts ==
  ASSUME TypeOK, CacheByUse, NEW s \in Sensors, Used(s)
  PROVE  /\ uses' \in Seq(Sensors)
         /\ \A i, j \in DOMAIN uses' : uses'[i] = uses'[j] => i = j
         /\ Range(uses') = Range(uses) \cup {s}
         /\ \A u, v \in Sensors : Before(uses, u, v) /\ u # s /\ v # s => Before(uses', u, v)
         /\ \A u \in Range(uses) : u # s => Before(uses', u, s)
<1> DEFINE at == {i \in DOMAIN uses : uses[i] = s}
           d  == Delete(uses, at)
           a  == Append(d, s)
<1>1. uses \in Seq(Sensors) /\ \A i, j \in DOMAIN uses : uses[i] = uses[j] => i = j
  BY DEF TypeOK, CacheByUse
<1>2. uses' = a
  BY DEF Used
<1>3. at \in SUBSET DOMAIN uses /\ \A i, j \in at : i = j
  BY <1>1
<1>4. \A i \in DOMAIN uses : i \in at <=> uses[i] = s
  OBVIOUS
<1> HIDE DEF at
<1>5. /\ d \in Seq(Sensors)
      /\ \A j \in DOMAIN d : \E i \in DOMAIN uses \ at : d[j] = uses[i]
      /\ \A i \in DOMAIN uses \ at : \E j \in DOMAIN d : d[j] = uses[i]
      /\ \A j, k \in DOMAIN d : j < k =>
           \E i, l \in DOMAIN uses \ at : i < l /\ d[j] = uses[i] /\ d[k] = uses[l]
      /\ \A i, l \in DOMAIN uses \ at : i < l =>
           \E j, k \in DOMAIN d : j < k /\ d[j] = uses[i] /\ d[k] = uses[l]
  BY <1>1, <1>3, DeleteFacts
<1> HIDE DEF d
<1>6. /\ a \in Seq(Sensors) /\ Len(a) = Len(d) + 1
      /\ \A i \in 1..Len(d) : a[i] = d[i]
      /\ a[Len(d) + 1] = s
  BY <1>5, AppendProperties
<1> HIDE DEF a
<1>7. /\ Len(d) \in Nat /\ DOMAIN d = 1..Len(d) /\ DOMAIN a = 1..Len(d) + 1
      /\ DOMAIN uses = 1..Len(uses) /\ Len(uses) \in Nat
  BY <1>1, <1>5, <1>6, LenProperties
<1>8. \A i \in DOMAIN a : \/ i \in DOMAIN d /\ a[i] = d[i]
                          \/ i = Len(d) + 1 /\ a[i] = s
  BY <1>6, <1>7
<1>9. /\ Len(d) + 1 \in DOMAIN a
      /\ \A i \in DOMAIN d : i \in DOMAIN a /\ a[i] = d[i] /\ i < Len(d) + 1
  BY <1>6, <1>7
<1>10. \A j \in DOMAIN d : d[j] \in Range(uses) /\ d[j] # s
  <2> TAKE j \in DOMAIN d
  <2>1. PICK i \in DOMAIN uses \ at : d[j] = uses[i]
    BY <1>5
  <2>2. i \in DOMAIN uses /\ i \notin at
    OBVIOUS
  <2> QED BY <1>4, <2>1, <2>2 DEF Range
<1>11. \A u \in Range(uses) : u # s => \E j \in DOMAIN d : d[j] = u
  <2> SUFFICES ASSUME NEW i \in DOMAIN uses, uses[i] # s
               PROVE  \E j \in DOMAIN d : d[j] = uses[i]
    BY DEF Range
  <2>1. i \in DOMAIN uses \ at
    BY <1>4
  <2> QED BY <1>5, <2>1
<1>12. \A i, j \in DOMAIN a : a[i] = a[j] => i = j
  <2>1. \A j, k \in DOMAIN d : j < k => d[j] # d[k]
    <3> TAKE j, k \in DOMAIN d
    <3> HAVE j < k
    <3>1. PICK i, l \in DOMAIN uses : i < l /\ d[j] = uses[i] /\ d[k] = uses[l]
      BY <1>5
    <3> QED BY <1>1, <1>7, <3>1
  <2>2. \A j, k \in DOMAIN d : d[j] = d[k] => j = k
    BY <1>7, <2>1
  <2> QED BY <1>8, <1>10, <2>2
<1>13. Range(a) = Range(uses) \cup {s}
  <2>1. \A i \in DOMAIN a : a[i] \in Range(uses) \cup {s}
    BY <1>8, <1>10
  <2>2. \A u \in Range(uses) \cup {s} : \E i \in DOMAIN a : a[i] = u
    BY <1>6, <1>9, <1>11
  <2> QED BY <2>1, <2>2 DEF Range
<1>14. ASSUME NEW u \in Sensors, NEW v \in Sensors, Before(uses, u, v), u # s, v # s
       PROVE  Before(uses', u, v)
  <2>1. PICK i, l \in DOMAIN uses : i < l /\ uses[i] = u /\ uses[l] = v
    BY <1>14 DEF Before
  <2>2. i \in DOMAIN uses \ at /\ l \in DOMAIN uses \ at
    BY <1>4, <1>14, <2>1
  <2>3. PICK j, k \in DOMAIN d : j < k /\ d[j] = u /\ d[k] = v
    BY <1>5, <2>1, <2>2
  <2> QED BY <1>2, <1>9, <2>3 DEF Before
<1>15. ASSUME NEW u \in Range(uses), u # s
       PROVE  Before(uses', u, s)
  <2>1. PICK j \in DOMAIN d : d[j] = u
    BY <1>11, <1>15
  <2> QED BY <1>2, <1>6, <1>9, <2>1 DEF Before
<1> QED BY <1>2, <1>6, <1>12, <1>13, <1>14, <1>15

(* The cache with one more entry stands in the order of use.               *)
LEMMA PutKeepsOrder ==
  ASSUME TypeOK, CacheByUse, NEW s \in Sensors, NEW e \in Entries, e.sensor = s,
         Used(s), cache' = Kept(Append(Without(cache, s), e))
  PROVE  CacheByUse'
<1>1. /\ uses' \in Seq(Sensors)
      /\ \A i, j \in DOMAIN uses' : uses'[i] = uses'[j] => i = j
      /\ Range(uses') = Range(uses) \cup {s}
      /\ \A u, v \in Sensors : Before(uses, u, v) /\ u # s /\ v # s => Before(uses', u, v)
      /\ \A u \in Range(uses) : u # s => Before(uses', u, s)
  BY UsedFacts
<1>2. /\ cache' \in Seq(Entries)
      /\ \A f \in Range(cache') : f = e \/ (f \in Range(cache) /\ f.sensor # s)
      /\ \A j, k \in DOMAIN cache' : j < k =>
           \/ /\ cache'[j].sensor # s /\ cache'[k].sensor # s
              /\ \E i, l \in DOMAIN cache :
                   i < l /\ cache'[j] = cache[i] /\ cache'[k] = cache[l]
           \/ cache'[j] \in Range(cache) /\ cache'[j].sensor # s /\ cache'[k] = e
  BY KeptFacts
<1>3. /\ \A f \in Range(cache) : f.sensor \in Range(uses)
      /\ \A i, j \in DOMAIN cache : i < j => Before(uses, cache[i].sensor, cache[j].sensor)
  BY DEF CacheByUse
<1>4. \A f \in Range(cache') : f.sensor \in Range(uses')
  BY <1>1, <1>2, <1>3
<1>5. ASSUME NEW j \in DOMAIN cache', NEW k \in DOMAIN cache', j < k
      PROVE  Before(uses', cache'[j].sensor, cache'[k].sensor)
  <2>1. cache'[j].sensor \in Sensors /\ cache'[k].sensor \in Sensors
    <3>1. cache'[j] \in Entries /\ cache'[k] \in Entries
      BY <1>2, LenProperties, ElementOfSeq
    <3> QED BY <3>1 DEF Entries
  <2>2. CASE /\ cache'[j].sensor # s /\ cache'[k].sensor # s
             /\ \E i, l \in DOMAIN cache :
                  i < l /\ cache'[j] = cache[i] /\ cache'[k] = cache[l]
    <3>1. Before(uses, cache'[j].sensor, cache'[k].sensor)
      BY <1>3, <2>2
    <3> QED BY <1>1, <2>1, <2>2, <3>1
  <2>3. CASE cache'[j] \in Range(cache) /\ cache'[j].sensor # s /\ cache'[k] = e
    <3>1. cache'[j].sensor \in Range(uses)
      BY <1>3, <2>3
    <3> QED BY <1>1, <2>3, <3>1
  <2> QED BY <1>2, <1>5, <2>2, <2>3
<1> QED BY <1>1, <1>4, <1>5 DEF CacheByUse

-----------------------------------------------------------------------------
(* Lemmas about the ancestors of a node.                                   *)

(* Induction on the natural numbers, for a set of them.                    *)
LEMMA SetInduction ==
  ASSUME NEW S, 0 \in S, \A m \in Nat : m \in S => m + 1 \in S
  PROVE  \A m \in Nat : m \in S
<1> DEFINE T == Nat \ S
<1> SUFFICES ASSUME T # {}
             PROVE  FALSE
  OBVIOUS
<1>1. PICK m \in T : \A k \in T : ~ (<<k, m>> \in OpToRel(<, Nat))
  BY WFMin, NatLessThanWellFounded
<1>2. m \in Nat /\ m # 0 /\ m \notin S
  OBVIOUS
<1>3. m - 1 \in Nat /\ m - 1 + 1 = m /\ m - 1 < m
  BY <1>2
<1>4. m - 1 \notin S
  BY <1>2, <1>3
<1>5. <<m - 1, m>> \in OpToRel(<, Nat)
  BY <1>2, <1>3 DEF OpToRel
<1> QED BY <1>1, <1>3, <1>4, <1>5

(* The iteration of a function from a start is defined.                    *)
Iterates(g, step, x, N) == g = [k \in 0..N |-> IF k = 0 THEN x ELSE step[g[k - 1]]]

(* Such an iteration exists.                                               *)
LEMMA Iteration ==
  ASSUME NEW D, NEW x \in D, NEW step \in [D -> D], NEW N \in Nat
  PROVE  \E g \in [0..N -> D] : Iterates(g, step, x, N)
<1> USE DEF Iterates
<1> DEFINE S == {m \in Nat : \E g \in [0..m -> D] : Iterates(g, step, x, m)}
<1>1. 0 \in S
  <2> DEFINE g == [k \in 0..0 |-> x]
  <2>1. \A k \in 0..0 : k = 0
    OBVIOUS
  <2>2. g \in [0..0 -> D] /\ Iterates(g, step, x, 0)
    BY <2>1
  <2> QED BY <2>2
<1>2. ASSUME NEW m \in Nat, m \in S
      PROVE  m + 1 \in S
  <2>1. PICK g \in [0..m -> D] : Iterates(g, step, x, m)
    BY <1>2
  <2> DEFINE h == [k \in 0..m + 1 |-> IF k = m + 1 THEN step[g[m]] ELSE g[k]]
  <2>2. h \in [0..m + 1 -> D]
    <3>1. \A k \in 0..m + 1 : k = m + 1 \/ k \in 0..m
      OBVIOUS
    <3>2. m \in 0..m /\ g[m] \in D /\ step[g[m]] \in D
      OBVIOUS
    <3> QED BY <3>1, <3>2
  <2>3. ASSUME NEW k \in 0..m + 1
        PROVE  h[k] = IF k = 0 THEN x ELSE step[h[k - 1]]
    <3>1. CASE k = m + 1
      <4>1. k # 0 /\ k - 1 = m /\ m \in 0..m + 1 /\ m # m + 1
        BY <3>1
      <4> QED BY <3>1, <4>1
    <3>2. CASE k # m + 1
      <4>1. k \in 0..m /\ (k # 0 => k - 1 \in 0..m + 1 /\ k - 1 # m + 1)
        BY <3>2
      <4>2. h[k] = g[k] /\ (k # 0 => h[k - 1] = g[k - 1])
        BY <3>2, <4>1
      <4>3. g[k] = IF k = 0 THEN x ELSE step[g[k - 1]]
        BY <2>1, <4>1
      <4> QED BY <4>2, <4>3
    <3> QED BY <3>1, <3>2
  <2>4. Iterates(h, step, x, m + 1)
    <3> HIDE DEF h
    <3> QED BY <2>2, <2>3
  <2> HIDE DEF h, Iterates
  <2> QED BY <2>2, <2>4
<1> HIDE DEF S
<1>3. N \in S
  BY <1>1, <1>2, SetInduction
<1> QED BY <1>3 DEF S

(* The recursive function of Ancestors() satisfies its equations.          *)
LEMMA AncestorsFacts ==
  ASSUME parent \in [Nodes -> NodesOrNone], NEW n \in NodesOrNone
  PROVE  /\ Ancestors(n) \in [0..MaxSteps -> NodesOrNone]
         /\ Ancestors(n)[0] = n
         /\ \A k \in 1..MaxSteps : Ancestors(n)[k] = Up(Ancestors(n)[k - 1])
<1> DEFINE step == [v \in NodesOrNone |-> Up(v)]
           Is(g) == g = [k \in 0..MaxSteps |-> IF k = 0 THEN n ELSE Up(g[k - 1])]
           up == CHOOSE g : Is(g)
<1>1. MaxSteps \in Nat
  BY CpsAssumption
<1>2. step \in [NodesOrNone -> NodesOrNone]
  BY DEF Up, NodesOrNone
<1>3. PICK g \in [0..MaxSteps -> NodesOrNone] :
        Iterates(g, step, n, MaxSteps)
  <2> HIDE DEF step
  <2> QED BY <1>1, <1>2, Iteration
<1>4. \A k \in 0..MaxSteps : k # 0 => k - 1 \in 0..MaxSteps
  BY <1>1
<1>5. Is(g)
  BY <1>3, <1>4 DEF Iterates
<1>6. Is(up)
  BY <1>5
<1>7. Ancestors(n) = up
  BY DEF Ancestors
<1> HIDE DEF up
<1>8. up[0] = n /\ \A k \in 1..MaxSteps : up[k] = Up(up[k - 1])
  BY <1>1, <1>6
<1>9. up \in [0..MaxSteps -> NodesOrNone]
  <2> DEFINE S == {m \in Nat : m <= MaxSteps => up[m] \in NodesOrNone}
  <2>1. 0 \in S
    BY <1>8
  <2>2. ASSUME NEW m \in Nat, m \in S
        PROVE  m + 1 \in S
    <3> SUFFICES ASSUME m + 1 <= MaxSteps
                 PROVE  up[m + 1] \in NodesOrNone
      OBVIOUS
    <3>1. m <= MaxSteps /\ m + 1 \in 1..MaxSteps /\ m + 1 - 1 = m
      BY <1>1
    <3>2. up[m] \in NodesOrNone /\ up[m + 1] = Up(up[m])
      BY <1>8, <2>2, <3>1
    <3> QED BY <3>2 DEF Up, NodesOrNone
  <2> HIDE DEF S
  <2>3. \A m \in Nat : m \in S
    BY <2>1, <2>2, SetInduction
  <2>4. \A m \in 0..MaxSteps : up[m] \in NodesOrNone
    BY <1>1, <2>3 DEF S
  <2> QED BY <1>6, <2>4
<1> QED BY <1>7, <1>8, <1>9

(* A set that holds an ancestor, and with each of its nodes the parent,    *)
(* holds all the further ancestors.                                        *)
LEMMA AncestorsStay ==
  ASSUME parent \in [Nodes -> NodesOrNone], NEW n \in NodesOrNone,
         NEW c \in 0..MaxSteps, NEW W, Ancestors(n)[c] \in W, \A v \in W : Up(v) \in W
  PROVE  \A k \in c..MaxSteps : Ancestors(n)[k] \in W
<1> DEFINE S == {m \in Nat : c + m <= MaxSteps => Ancestors(n)[c + m] \in W}
<1>1. MaxSteps \in Nat /\ c \in Nat
  BY CpsAssumption
<1>2. 0 \in S
  <2>1. c + 0 = c
    BY <1>1
  <2> QED BY <2>1
<1>3. ASSUME NEW m \in Nat, m \in S
      PROVE  m + 1 \in S
  <2> SUFFICES ASSUME c + (m + 1) <= MaxSteps
               PROVE  Ancestors(n)[c + (m + 1)] \in W
    OBVIOUS
  <2>1. /\ c + m <= MaxSteps /\ c + (m + 1) \in 1..MaxSteps
        /\ c + (m + 1) - 1 = c + m
    BY <1>1
  <2>2. Ancestors(n)[c + m] \in W
    BY <1>3, <2>1
  <2>3. Ancestors(n)[c + (m + 1)] = Up(Ancestors(n)[c + m])
    BY <2>1, AncestorsFacts
  <2> QED BY <2>2, <2>3
<1> HIDE DEF S
<1>4. \A m \in Nat : m \in S
  BY <1>2, <1>3, SetInduction
<1>5. ASSUME NEW k \in c..MaxSteps
      PROVE  Ancestors(n)[k] \in W
  <2>1. k - c \in Nat /\ c + (k - c) = k /\ k <= MaxSteps
    BY <1>1
  <2> QED BY <1>4, <2>1 DEF S
<1> QED BY <1>5

(* So does that of Climb().                                                *)
LEMMA ClimbFacts ==
  ASSUME NEW from \in SUBSET NodesOrNone, NEW by
  PROVE  /\ Climb(from, by)[0] = from
         /\ \A k \in 1..MaxSteps : Climb(from, by)[k] = Linked(Climb(from, by)[k - 1], by)
<1> DEFINE step == [A \in SUBSET NodesOrNone |-> Linked(A, by)]
           Is(g) == g = [k \in 0..MaxSteps |-> IF k = 0 THEN from ELSE Linked(g[k - 1], by)]
           up == CHOOSE g : Is(g)
<1>1. MaxSteps \in Nat
  BY CpsAssumption
<1>2. step \in [SUBSET NodesOrNone -> SUBSET NodesOrNone]
  BY DEF Linked
<1>3. PICK g \in [0..MaxSteps -> SUBSET NodesOrNone] : Iterates(g, step, from, MaxSteps)
  <2> HIDE DEF step
  <2> QED BY <1>1, <1>2, Iteration
<1>4. \A k \in 0..MaxSteps : k # 0 => k - 1 \in 0..MaxSteps
  BY <1>1
<1>5. Is(g)
  BY <1>3, <1>4 DEF Iterates
<1>6. Is(up)
  BY <1>5
<1>7. Climb(from, by) = up
  BY DEF Climb
<1> HIDE DEF up
<1>8. up[0] = from /\ \A k \in 1..MaxSteps : up[k] = Linked(up[k - 1], by)
  BY <1>1, <1>6
<1> QED BY <1>7, <1>8

(* More nodes and more links reach more.                                   *)
LEMMA ClimbGrows ==
  ASSUME NEW from \in SUBSET NodesOrNone, NEW from2 \in SUBSET NodesOrNone, from \subseteq from2,
         NEW by, NEW by2, by \subseteq by2
  PROVE  \A k \in 0..MaxSteps : Climb(from, by)[k] \subseteq Climb(from2, by2)[k]
<1> DEFINE S == {m \in Nat : m <= MaxSteps => Climb(from, by)[m] \subseteq Climb(from2, by2)[m]}
<1>1. MaxSteps \in Nat
  BY CpsAssumption
<1>2. /\ Climb(from, by)[0] = from /\ Climb(from2, by2)[0] = from2
      /\ \A k \in 1..MaxSteps :
           /\ Climb(from, by)[k] = Linked(Climb(from, by)[k - 1], by)
           /\ Climb(from2, by2)[k] = Linked(Climb(from2, by2)[k - 1], by2)
  BY ClimbFacts
<1>3. 0 \in S
  BY <1>2
<1>4. ASSUME NEW m \in Nat, m \in S
      PROVE  m + 1 \in S
  <2> SUFFICES ASSUME m + 1 <= MaxSteps
               PROVE  Climb(from, by)[m + 1] \subseteq Climb(from2, by2)[m + 1]
    OBVIOUS
  <2>1. m <= MaxSteps /\ m + 1 \in 1..MaxSteps /\ m + 1 - 1 = m
    BY <1>1
  <2>2. Climb(from, by)[m] \subseteq Climb(from2, by2)[m]
    BY <1>4, <2>1
  <2>3. /\ Climb(from, by)[m + 1] = Linked(Climb(from, by)[m], by)
        /\ Climb(from2, by2)[m + 1] = Linked(Climb(from2, by2)[m], by2)
    BY <1>2, <2>1
  <2> QED BY <2>2, <2>3 DEF Linked
<1> HIDE DEF S
<1>5. \A m \in Nat : m \in S
  BY <1>3, <1>4, SetInduction
<1>6. \A m \in 0..MaxSteps : m \in Nat /\ m <= MaxSteps
  BY <1>1
<1> QED BY <1>5, <1>6 DEF S

-----------------------------------------------------------------------------
(* Lemmas about the walk.                                                  *)

(* The step counter of a look-up is the number of links behind it.         *)
LEMMA StepsFacts ==
  ASSUME TypeOK, WayInBounds, NEW s \in Sensors, pc[s] = "info"
  PROVE  /\ Steps(s) \in 0..MaxSteps /\ Cardinality(visited[s]) = Steps(s) + 1
         /\ Exhausted(s) => Steps(s) = MaxSteps
         /\ ~Exhausted(s) => Steps(s) + 1 \in 1..MaxSteps
         /\ Up(node[s]) = parent[node[s]] /\ parent[node[s]] \in NodesOrNone
<1>1. IsFiniteSet(visited[s]) /\ node[s] \in Nodes /\ Steps(s) \in 0..MaxSteps
  BY DEF WayInBounds
<1>2. Cardinality(visited[s]) \in Nat
  BY <1>1, FS_CardinalityType
<1>3. MaxSteps \in Nat /\ node[s] # None
  BY <1>1, CpsAssumption
<1>4. parent[node[s]] \in NodesOrNone
  BY <1>1 DEF TypeOK
<1> QED BY <1>1, <1>2, <1>3, <1>4 DEF Steps, Exhausted, Up

(* The next read is that of the next ancestor.                             *)
LEMMA NextAncestor ==
  ASSUME TypeOK, WayInBounds, NEW s \in Sensors, pc[s] = "info", OnTheWay(s)
  PROVE  /\ identity[s] \in NodesOrNone
         /\ ~Exhausted(s) => Ancestors(identity[s])[Steps(s) + 1] = parent[node[s]]
<1>1. identity[s] \in NodesOrNone /\ parent \in [Nodes -> NodesOrNone]
  BY DEF TypeOK
<1>2. ASSUME ~Exhausted(s)
      PROVE  Ancestors(identity[s])[Steps(s) + 1] = parent[node[s]]
  <2>1. PICK n \in Nat : n = Steps(s)
    BY StepsFacts
  <2>2. n + 1 \in 1..MaxSteps /\ n + 1 - 1 = n
    BY <1>2, <2>1, StepsFacts
  <2>3. Ancestors(identity[s])[n + 1] = Up(Ancestors(identity[s])[n])
    <3>1. \A k \in 1..MaxSteps :
            Ancestors(identity[s])[k] = Up(Ancestors(identity[s])[k - 1])
      BY <1>1, AncestorsFacts
    <3> QED BY <2>2, <3>1
  <2> QED BY <2>1, <2>3, StepsFacts DEF OnTheWay
<1> QED BY <1>1, <1>2

(* The end of the tree, a cycle or an exhausted walk: the root is not      *)
(* among the ancestors in reach.                                           *)
LEMMA DeniedOutsideTree ==
  ASSUME TypeOK, WayInBounds, NEW s \in Sensors, pc[s] = "info", OnTheWay(s),
         parent[node[s]] # Root \/ Exhausted(s),
         Exhausted(s) \/ parent[node[s]] = None \/ parent[node[s]] \in visited[s]
  PROVE  ~IsRootDescendant(s)
<1> DEFINE A == Ancestors(identity[s])
           n == Steps(s)
           p == parent[node[s]]
<1>1. n \in 0..MaxSteps /\ MaxSteps \in Nat
  BY StepsFacts, CpsAssumption
<1>2. /\ A[n] = node[s] /\ visited[s] = {A[k] : k \in 0..n}
      /\ \A k \in 1..n : A[k] # Root
  BY DEF OnTheWay
<1>3. identity[s] \in NodesOrNone /\ parent \in [Nodes -> NodesOrNone]
  BY DEF TypeOK
<1>4. \A k \in 1..MaxSteps : A[k] = Up(A[k - 1])
  BY <1>3, AncestorsFacts
<1> SUFFICES \A k \in 1..MaxSteps : A[k] # Root
  BY DEF IsRootDescendant
<1>5. CASE Exhausted(s)
  <2>1. n = MaxSteps
    BY <1>5, StepsFacts
  <2> QED BY <1>2, <2>1
<1>6. CASE ~Exhausted(s) /\ p = None
  <2>1. n + 1 \in 0..MaxSteps /\ A[n + 1] \in {None}
    BY <1>1, <1>6, StepsFacts, NextAncestor
  <2>2. \A v \in {None} : Up(v) \in {None}
    BY DEF Up
  <2> HIDE DEF A, n
  <2>3. \A k \in n + 1..MaxSteps : A[k] \in {None}
    BY <1>3, <2>1, <2>2, AncestorsStay DEF A
  <2>4. \A k \in 1..MaxSteps : k \in 1..n \/ k \in n + 1..MaxSteps
    BY <1>1
  <2> QED BY <1>2, <2>3, <2>4, CpsAssumption
<1>7. CASE ~Exhausted(s) /\ p # None /\ p # Root /\ p \in visited[s]
  <2> DEFINE W == {A[k] : k \in 1..n} \cup {p}
  <2>1. n + 1 \in 1..MaxSteps /\ A[n + 1] = p
    BY <1>1, <1>7, StepsFacts, NextAncestor
  <2>2. PICK j \in 0..n : p = A[j]
    BY <1>2, <1>7
  <2>3. \A k \in 1..n + 1 : A[k] \in W
    <3>1. \A k \in 1..n + 1 : k \in 1..n \/ k = n + 1
      BY <1>1
    <3> QED BY <2>1, <3>1
  <2>4. \A k \in 0..n : k + 1 \in 1..n + 1 /\ k + 1 \in 1..MaxSteps /\ k + 1 - 1 = k
    BY <1>1, <2>1
  <2>5. \A k \in 0..n : Up(A[k]) \in W
    <3> HIDE DEF W, A, n
    <3> QED BY <1>4, <2>3, <2>4
  <2>6. \A k \in 1..n : k \in 0..n
    BY <1>1
  <2>7. \A v \in W : Up(v) \in W
    <3>1. \A v \in W : \E k \in 0..n : v = A[k]
      BY <2>2, <2>6
    <3> HIDE DEF W, A, n
    <3> QED BY <2>5, <3>1
  <2>8. Root \notin W
    BY <1>2, <1>7
  <2>9. 1 \in 0..MaxSteps /\ A[1] \in W
    <3>1. 1 \in 1..n + 1 /\ 1 \in 0..MaxSteps
      BY <1>1, <2>1
    <3> HIDE DEF W, A, n
    <3> QED BY <2>3, <3>1
  <2>10. \A k \in 1..MaxSteps : A[k] \in W
    <3> HIDE DEF W
    <3> QED BY <1>3, <2>7, <2>9, AncestorsStay
  <2> HIDE DEF W
  <2> QED BY <2>8, <2>10
<1> QED BY <1>5, <1>6, <1>7

-----------------------------------------------------------------------------
(* The invariant is inductive.                                             *)

(* What the invariant says of the look-up of one sensor.                   *)
LookupOK(s) ==
  /\ pc[s] # "info" => visited[s] = {}
  /\ pc[s] = "info" => /\ IsFiniteSet(visited[s]) /\ node[s] \in Nodes
                       /\ Steps(s) \in 0..MaxSteps
                       /\ node[s] \in Climb(bindings[s], links[s])[Steps(s)]
                       /\ s \notin disturbed => OnTheWay(s)
  /\ pc[s] # "idle" => identity[s] \in bindings[s] /\ Links \subseteq links[s]

LookupSame(s) ==
  /\ UNCHANGED <<pc[s], node[s], visited[s], bindings[s], links[s]>>
  /\ s \in disturbed' <=> s \in disturbed

(* The three parts of the invariant, look-up by look-up.                   *)
LEMMA LookupsOK == WayInBounds /\ WayFollowsTree /\ WayRecorded <=> \A s \in Sensors : LookupOK(s)
BY DEF WayInBounds, WayFollowsTree, WayRecorded, LookupOK

(* What depends on the tree alone stays while the tree does.               *)
LEMMA TreeSame ==
  ASSUME UNCHANGED <<identity, parent>>
  PROVE  /\ \A n : Ancestors(n)' = Ancestors(n)
         /\ \A s \in Sensors : IsRootDescendant(s)' = IsRootDescendant(s)
         /\ Links' = Links
<1>1. \A n : Ancestors(n)' = Ancestors(n)
  BY DEF Ancestors, Up
<1>2. Links' = Links
  BY DEF Links
<1> QED BY <1>1, <1>2 DEF IsRootDescendant

(* A step that leaves the tree and a look-up alone keeps what is known of  *)
(* it.                                                                     *)
LEMMA LookupKept ==
  ASSUME NEW s \in Sensors, LookupOK(s), LookupSame(s), UNCHANGED <<identity, parent>>
  PROVE  LookupOK(s)'
<1>1. \A n : Ancestors(n)' = Ancestors(n)
  BY TreeSame
<1>2. Links' = Links
  BY TreeSame
<1>3. Steps(s)' = Steps(s)
  BY DEF Steps, LookupSame
<1>4. OnTheWay(s)' <=> OnTheWay(s)
  BY <1>1, <1>3 DEF OnTheWay, LookupSame
<1> QED BY <1>2, <1>3, <1>4 DEF LookupOK, LookupSame

(* A sensor without a look-up has nothing to satisfy.                      *)
LEMMA IdleOK ==
  ASSUME NEW s \in Sensors, pc'[s] = "idle", visited'[s] = {}
  PROVE  LookupOK(s)'
BY DEF LookupOK

(* The initial states satisfy the invariant.                               *)
LEMMA InitInvariant == Init => IInv
<1> SUFFICES ASSUME Init
             PROVE  IInv
  OBVIOUS
<1>1. cache = << >> /\ uses = << >> /\ Range(cache) = {} /\ DOMAIN cache = {} /\ DOMAIN uses = {}
  BY DEF Init, Range
<1>2. TypeOK
  <2>1. cache \in Seq(Entries) /\ Len(cache) <= CacheMaxSize /\ uses \in Seq(Sensors)
    BY <1>1, EmptySeq, CpsAssumption
  <2> QED BY <1>1, <2>1 DEF Init, TypeOK, NodesOrNone
<1>3. \A s \in Sensors : LookupOK(s)
  BY DEF Init, LookupOK
<1>4. CacheByUse /\ NoEntryInFlight /\ CacheFollowsTree
  BY <1>1 DEF CacheByUse, NoEntryInFlight, CacheFollowsTree
<1> QED BY <1>2, <1>3, <1>4, LookupsOK DEF IInv

(* What an entry that is put in the cache at its use leaves true.          *)
LEMMA PutFacts ==
  ASSUME TypeOK, CacheByUse, NEW s \in Sensors, NEW e \in Entries, e.sensor = s,
         Used(s), cache' = Kept(Append(Without(cache, s), e))
  PROVE  /\ cache' \in Seq(Entries) /\ Len(cache') <= CacheMaxSize
         /\ \A i, j \in DOMAIN cache' : cache'[i].sensor = cache'[j].sensor => i = j
         /\ uses' \in Seq(Sensors)
         /\ CacheByUse'
         /\ \A f \in Range(cache') : f = e \/ (f \in Range(cache) /\ f.sensor # s)
<1>1. uses' \in Seq(Sensors)
  BY UsedFacts
<1>2. CacheByUse'
  BY PutKeepsOrder
<1>3. /\ cache' \in Seq(Entries) /\ Len(cache') <= CacheMaxSize /\ OneEntryEach(cache')
      /\ \A f \in Range(cache') : f = e \/ (f \in Range(cache) /\ f.sensor # s)
  BY KeptFacts
<1> QED BY <1>1, <1>2, <1>3 DEF OneEntryEach

(* An entry of the cache is an entry, of a sensor.                         *)
LEMMA CachedAreEntries ==
  ASSUME TypeOK
  PROVE  \A e \in Range(cache) : e \in Entries /\ e.sensor \in Sensors
<1>1. cache \in Seq(Entries)
  BY DEF TypeOK
<1>2. \A e \in Range(cache) : e \in Entries
  BY <1>1, LenProperties, ElementOfSeq DEF Range
<1> QED BY <1>2 DEF Entries

(* An entry that is touched was in the cache: nothing is evicted.          *)
LEMMA TouchPuts ==
  ASSUME TypeOK, NEW e \in Range(cache), Touch(e)
  PROVE  /\ e \in Entries /\ e.sensor \in Sensors
         /\ cache' = Append(Without(cache, e.sensor), e)
         /\ cache' = Kept(Append(Without(cache, e.sensor), e))
<1> DEFINE d == Without(cache, e.sensor)
<1>1. e \in Entries /\ e.sensor \in Sensors
  BY CachedAreEntries
<1>2. /\ d \in Seq(Entries) /\ Len(d) <= CacheMaxSize
      /\ Len(d) = CacheMaxSize => d = cache
      /\ Range(d) = {f \in Range(cache) : f.sensor # e.sensor}
  BY <1>1, WithoutFacts
<1>3. cache' = Append(d, e)
  BY DEF Touch
<1> HIDE DEF d
<1>4. Len(d) # CacheMaxSize
  BY <1>2
<1>5. Len(Append(d, e)) = Len(d) + 1 /\ Len(d) \in Nat /\ CacheMaxSize \in Nat
  BY <1>1, <1>2, AppendProperties, LenProperties, CpsAssumption
<1>6. ~ (Len(Append(d, e)) > CacheMaxSize)
  <2>1. \A n, m, max \in Nat : n <= max /\ n # max /\ m = n + 1 => ~ (m > max)
    OBVIOUS
  <2>2. Len(d) + 1 \in Nat
    BY <1>5
  <2> QED BY <1>2, <1>4, <1>5, <2>1, <2>2
<1>7. Kept(Append(d, e)) = Append(d, e)
  BY <1>6 DEF Kept
<1> QED BY <1>1, <1>3, <1>7 DEF d

(* The entry of an answer.                                                 *)
Answer(s, allowed) ==
  [sensor |-> s, allowed |-> allowed,
   expiresAt |-> IF allowed THEN None ELSE now + NegativeTtl]

(* set() of the LruCache.                                                  *)
LEMMA SetPuts ==
  ASSUME TypeOK, NEW s \in Sensors, NEW allowed \in BOOLEAN, Set(s, allowed)
  PROVE  /\ Answer(s, allowed) \in Entries
         /\ Answer(s, allowed).sensor = s /\ Answer(s, allowed).allowed = allowed
         /\ cache' = Kept(Append(Without(cache, s), Answer(s, allowed)))
<1>1. Answer(s, allowed) \in Entries
  <2>1. now + NegativeTtl \in Nat
    BY CpsAssumption DEF TypeOK
  <2> QED BY <2>1 DEF Answer, Entries
<1>2. Answer(s, allowed).sensor = s /\ Answer(s, allowed).allowed = allowed
  BY DEF Answer
<1>3. cache' = Kept(Append(Without(cache, s), Answer(s, allowed)))
  BY DEF Set, Kept, Answer
<1> QED BY <1>1, <1>2, <1>3

(* A call that finds its sensor in the cache.                              *)
LEMMA HitKeeps ==
  ASSUME IInv, NEW s \in Sensors, Hit(s)
  PROVE  IInv'
<1>1. PICK e \in Range(cache) : e.sensor = s /\ Touch(e)
  BY DEF Hit
<1>2. TypeOK /\ CacheByUse /\ Used(s)
  BY DEF IInv, Hit
<1>3. e \in Entries /\ cache' = Kept(Append(Without(cache, s), e))
  BY <1>1, <1>2, TouchPuts
<1>4. /\ cache' \in Seq(Entries) /\ Len(cache') <= CacheMaxSize
      /\ \A i, j \in DOMAIN cache' : cache'[i].sensor = cache'[j].sensor => i = j
      /\ uses' \in Seq(Sensors)
      /\ CacheByUse'
      /\ \A f \in Range(cache') : f = e \/ (f \in Range(cache) /\ f.sensor # s)
  BY <1>1, <1>2, <1>3, PutFacts
<1>5. TypeOK'
  BY <1>2, <1>4 DEF Hit, TypeOK, chain, lookup
<1>6. \A f \in Range(cache') : f \in Range(cache)
  BY <1>4
<1>7. NoEntryInFlight'
  BY <1>6 DEF IInv, NoEntryInFlight, Hit, lookup
<1>8. CacheFollowsTree'
  <2>1. \A f \in Range(cache') : f.sensor \in disturbed \/ f.allowed = IsRootDescendant(f.sensor)
    BY <1>6 DEF IInv, CacheFollowsTree
  <2>2. \A f \in Range(cache') : f.sensor \in Sensors
    BY <1>2, <1>6, CachedAreEntries
  <2>3. \A t \in Sensors : IsRootDescendant(t)' = IsRootDescendant(t)
    BY TreeSame DEF Hit, chain
  <2>4. disturbed' = disturbed
    BY DEF Hit
  <2> QED BY <2>1, <2>2, <2>3, <2>4 DEF CacheFollowsTree
<1>9. \A t \in Sensors : LookupOK(t)'
  <2> TAKE t \in Sensors
  <2>1. LookupOK(t)
    BY LookupsOK DEF IInv
  <2>2. LookupSame(t) /\ UNCHANGED <<identity, parent>>
    BY DEF LookupSame, Hit, chain, lookup
  <2> QED BY <2>1, <2>2, LookupKept
<1>10. WayInBounds' /\ WayFollowsTree' /\ WayRecorded'
  BY <1>9 DEF WayInBounds, WayFollowsTree, WayRecorded, LookupOK
<1> QED BY <1>4, <1>5, <1>7, <1>8, <1>10 DEF IInv

(* While the tree stays, so does the truth of the answers that stay.       *)
LEMMA AnswersKept ==
  ASSUME TypeOK, CacheFollowsTree, UNCHANGED <<identity, parent>>,
         \A f \in Range(cache') :
           f \in Range(cache) /\ (f.sensor \in disturbed => f.sensor \in disturbed')
  PROVE  CacheFollowsTree'
<1>1. \A f \in Range(cache') : f.sensor \in Sensors
  BY CachedAreEntries
<1>2. \A t \in Sensors : IsRootDescendant(t)' = IsRootDescendant(t)
  BY TreeSame
<1> QED BY <1>1, <1>2 DEF CacheFollowsTree

(* A call that starts a look-up.                                           *)
LEMMA MissKeeps ==
  ASSUME IInv, NEW s \in Sensors, Miss(s)
  PROVE  IInv'
<1> USE DEF chain
<1>1. TypeOK /\ CacheByUse /\ NoEntryInFlight /\ CacheFollowsTree
  BY DEF IInv
<1>2. /\ cache' \in Seq(Entries) /\ Len(cache') <= CacheMaxSize /\ OneEntryEach(cache')
      /\ Range(cache') = {e \in Range(cache) : e.sensor # s}
      /\ InOrderOf(cache', cache)
  BY <1>1, WithoutFacts DEF Miss
<1>3. Links' = Links
  BY TreeSame DEF Miss
<1>4. TypeOK'
  <2>1. /\ cache' \in Seq(Entries) /\ Len(cache') <= CacheMaxSize
        /\ \A i, j \in DOMAIN cache' : cache'[i].sensor = cache'[j].sensor => i = j
    BY <1>2 DEF OneEntryEach
  <2>2. bindings' \in [Sensors -> SUBSET NodesOrNone]
    BY <1>1 DEF Miss, TypeOK
  <2>3. links' \in [Sensors -> SUBSET (Nodes \X NodesOrNone)]
    <3>1. Links \in SUBSET (Nodes \X NodesOrNone)
      BY <1>1 DEF Links, TypeOK
    <3> QED BY <1>1, <3>1 DEF Miss, TypeOK
  <2>4. pc' \in [Sensors -> {"idle", "identity", "info"}] /\ disturbed' \subseteq Sensors
    BY <1>1 DEF Miss, TypeOK
  <2> QED BY <1>1, <2>1, <2>2, <2>3, <2>4 DEF Miss, TypeOK
<1>5. CacheByUse'
  <2>1. uses' = uses
    BY DEF Miss
  <2>2. \A i, j \in DOMAIN cache' : i < j => Before(uses, cache'[i].sensor, cache'[j].sensor)
    BY <1>1, <1>2 DEF CacheByUse, InOrderOf
  <2>3. \A e \in Range(cache') : e.sensor \in Range(uses)
    BY <1>1, <1>2 DEF CacheByUse
  <2> QED BY <1>1, <2>1, <2>2, <2>3 DEF CacheByUse
<1>6. NoEntryInFlight'
  <2>1. \A e \in Range(cache') : e \in Range(cache) /\ e.sensor # s /\ e.sensor \in Sensors
    BY <1>1, <1>2, CachedAreEntries
  <2>2. \A t \in Sensors : t # s => pc'[t] = pc[t]
    BY <1>1 DEF Miss, TypeOK
  <2> QED BY <1>1, <2>1, <2>2 DEF NoEntryInFlight
<1>7. CacheFollowsTree'
  <2>1. \A f \in Range(cache') :
          f \in Range(cache) /\ (f.sensor \in disturbed => f.sensor \in disturbed')
    BY <1>2 DEF Miss
  <2>2. UNCHANGED <<identity, parent>>
    BY DEF Miss
  <2> QED BY <1>1, <2>1, <2>2, AnswersKept
<1>8. \A t \in Sensors : LookupOK(t)'
  <2> TAKE t \in Sensors
  <2>1. LookupOK(t)
    BY LookupsOK DEF IInv
  <2>2. CASE t = s
    <3>1. pc'[s] = "identity" /\ bindings'[s] = {identity[s]} /\ links'[s] = Links
          /\ identity' = identity
      BY <1>1 DEF Miss, TypeOK
    <3>2. visited'[s] = {}
      BY <2>1, <2>2 DEF LookupOK, Miss
    <3> QED BY <1>3, <2>2, <3>1, <3>2 DEF LookupOK
  <2>3. CASE t # s
    <3>1. LookupSame(t) /\ UNCHANGED <<identity, parent>>
      BY <1>1, <2>3 DEF LookupSame, Miss, TypeOK
    <3> QED BY <2>1, <3>1, LookupKept
  <2> QED BY <2>2, <2>3
<1>9. WayInBounds' /\ WayFollowsTree' /\ WayRecorded'
  BY <1>8 DEF WayInBounds, WayFollowsTree, WayRecorded, LookupOK
<1> QED BY <1>4, <1>5, <1>6, <1>7, <1>9 DEF IInv

(* Time alone changes nothing.                                             *)
LEMMA TickKeeps ==
  ASSUME IInv, now' \in Nat, UNCHANGED <<chain, cache, lookup, history>>
  PROVE  IInv'
<1> USE DEF chain, lookup, history
<1>1. TypeOK /\ CacheByUse /\ NoEntryInFlight /\ CacheFollowsTree
  BY DEF IInv
<1>2. TypeOK'
  BY <1>1 DEF TypeOK
<1>3. CacheByUse' /\ NoEntryInFlight'
  BY <1>1 DEF CacheByUse, NoEntryInFlight
<1>4. CacheFollowsTree'
  BY <1>1, AnswersKept
<1>5. \A t \in Sensors : LookupOK(t)'
  <2> TAKE t \in Sensors
  <2>1. LookupOK(t)
    BY LookupsOK DEF IInv
  <2>2. LookupSame(t) /\ UNCHANGED <<identity, parent>>
    BY DEF LookupSame
  <2> QED BY <2>1, <2>2, LookupKept
<1>6. WayInBounds' /\ WayFollowsTree' /\ WayRecorded'
  BY <1>5 DEF WayInBounds, WayFollowsTree, WayRecorded, LookupOK
<1> QED BY <1>2, <1>3, <1>4, <1>6 DEF IInv

(* After a change of the tree nothing is claimed of its answers; the       *)
(* history of a look-up grows.                                             *)
LEMMA ChangeKeeps ==
  ASSUME IInv, Change
  PROVE  IInv'
<1> USE DEF lookup
<1>1. TypeOK /\ CacheByUse /\ NoEntryInFlight /\ CacheFollowsTree
  BY DEF IInv
<1>2. identity' \in [Sensors -> NodesOrNone] /\ parent' \in [Nodes -> NodesOrNone]
  BY <1>1 DEF Change, TypeOK
<1>3. disturbed' = Sensors /\ UNCHANGED <<now, cache, pc, node, visited, uses>>
  BY DEF Change
<1>4. Links' \subseteq Nodes \X NodesOrNone
  BY <1>2 DEF Links
<1>5. /\ bindings' = [s \in Sensors |->
           IF pc[s] = "idle" THEN {} ELSE bindings[s] \cup {identity'[s]}]
      /\ links' = [s \in Sensors |-> IF pc[s] = "idle" THEN {} ELSE links[s] \cup Links']
  BY DEF Change
<1>6. bindings' \in [Sensors -> SUBSET NodesOrNone]
  BY <1>1, <1>2, <1>5 DEF TypeOK
<1>7. links' \in [Sensors -> SUBSET (Nodes \X NodesOrNone)]
  BY <1>1, <1>4, <1>5 DEF TypeOK
<1>8. TypeOK'
  <2>1. changes' \in Nat
    BY <1>1 DEF Change, TypeOK
  <2> QED BY <1>1, <1>2, <1>3, <1>6, <1>7, <2>1 DEF TypeOK
<1>9. CacheByUse' /\ NoEntryInFlight'
  BY <1>1, <1>3 DEF CacheByUse, NoEntryInFlight
<1>10. CacheFollowsTree'
  <2>1. \A f \in Range(cache') : f.sensor \in Sensors
    BY <1>1, <1>3, CachedAreEntries
  <2> QED BY <1>3, <2>1 DEF CacheFollowsTree
<1>11. \A s \in Sensors : LookupOK(s)'
  <2> TAKE s \in Sensors
  <2>1. LookupOK(s)
    BY LookupsOK DEF IInv
  <2>2. Steps(s)' = Steps(s)
    BY <1>3 DEF Steps
  <2>3. CASE pc[s] = "idle"
    <3>1. pc'[s] = "idle" /\ visited'[s] = {}
      BY <1>3, <2>1, <2>3 DEF LookupOK
    <3> QED BY <3>1, IdleOK
  <2>4. CASE pc[s] # "idle"
    <3>1. bindings'[s] = bindings[s] \cup {identity'[s]} /\ links'[s] = links[s] \cup Links'
      BY <1>5, <2>4
    <3>2. pc[s] = "info" => Climb(bindings[s], links[s])[Steps(s)]
                              \subseteq Climb(bindings'[s], links'[s])[Steps(s)]
      <4>1. bindings[s] \in SUBSET NodesOrNone /\ bindings'[s] \in SUBSET NodesOrNone
        BY <1>1, <1>6 DEF TypeOK
      <4>2. bindings[s] \subseteq bindings'[s] /\ links[s] \subseteq links'[s]
        BY <3>1
      <4>3. \A k \in 0..MaxSteps :
              Climb(bindings[s], links[s])[k] \subseteq Climb(bindings'[s], links'[s])[k]
        BY <4>1, <4>2, ClimbGrows
      <4> QED BY <2>1, <4>3 DEF LookupOK
    <3>3. s \in disturbed'
      BY <1>3
    <3> QED BY <1>3, <2>1, <2>2, <2>4, <3>1, <3>2, <3>3 DEF LookupOK
  <2> QED BY <2>3, <2>4
<1>12. WayInBounds' /\ WayFollowsTree' /\ WayRecorded'
  BY <1>11 DEF WayInBounds, WayFollowsTree, WayRecorded, LookupOK
<1> QED BY <1>8, <1>9, <1>10, <1>12 DEF IInv

(* A look-up that lands leaves the others alone.                           *)
LEMMA LandFacts ==
  ASSUME IInv, NEW s \in Sensors, Land(s), UNCHANGED chain, UNCHANGED disturbed
  PROVE  /\ pc' \in [Sensors -> {"idle", "identity", "info"}]
         /\ node' \in [Sensors -> NodesOrNone]
         /\ visited' \in [Sensors -> SUBSET Nodes]
         /\ bindings' \in [Sensors -> SUBSET NodesOrNone]
         /\ links' \in [Sensors -> SUBSET (Nodes \X NodesOrNone)]
         /\ \A t \in Sensors : pc'[t] = IF t = s THEN "idle" ELSE pc[t]
         /\ WayInBounds' /\ WayFollowsTree' /\ WayRecorded'
<1>1. TypeOK
  BY DEF IInv
<1>2. /\ pc' \in [Sensors -> {"idle", "identity", "info"}]
      /\ node' \in [Sensors -> NodesOrNone]
      /\ visited' \in [Sensors -> SUBSET Nodes]
      /\ bindings' \in [Sensors -> SUBSET NodesOrNone]
      /\ links' \in [Sensors -> SUBSET (Nodes \X NodesOrNone)]
      /\ \A t \in Sensors : pc'[t] = IF t = s THEN "idle" ELSE pc[t]
  BY <1>1 DEF Land, TypeOK, NodesOrNone
<1>3. \A t \in Sensors : LookupOK(t)'
  <2> TAKE t \in Sensors
  <2>1. LookupOK(t)
    BY LookupsOK DEF IInv
  <2>2. CASE t = s
    <3>1. visited'[s] = {}
      BY <1>1 DEF Land, TypeOK
    <3> QED BY <1>2, <2>2, <3>1, IdleOK
  <2>3. CASE t # s
    <3>1. LookupSame(t) /\ UNCHANGED <<identity, parent>>
      BY <1>1, <2>3 DEF LookupSame, Land, TypeOK, chain
    <3> QED BY <2>1, <3>1, LookupKept
  <2> QED BY <2>2, <2>3
<1>4. WayInBounds' /\ WayFollowsTree' /\ WayRecorded'
  BY <1>3 DEF WayInBounds, WayFollowsTree, WayRecorded, LookupOK
<1> QED BY <1>2, <1>4

(* An answer that the tree gives, or that the tree has overtaken, may be   *)
(* cached.                                                                 *)
LEMMA ConcludeKeeps ==
  ASSUME IInv, NEW s \in Sensors, NEW allowed \in BOOLEAN, Conclude(s, allowed),
         UNCHANGED <<now, chain>>,
         s \in disturbed \/ allowed = IsRootDescendant(s)
  PROVE  IInv'
<1> DEFINE e == Answer(s, allowed)
<1>1. TypeOK /\ CacheByUse /\ NoEntryInFlight /\ CacheFollowsTree
  BY DEF IInv
<1>2. Set(s, allowed) /\ Land(s) /\ Used(s) /\ disturbed' = disturbed
  BY DEF Conclude
<1>3. /\ e \in Entries /\ e.sensor = s /\ e.allowed = allowed
      /\ cache' = Kept(Append(Without(cache, s), e))
  BY <1>1, <1>2, SetPuts
<1> HIDE DEF e
<1>4. /\ cache' \in Seq(Entries) /\ Len(cache') <= CacheMaxSize
      /\ \A i, j \in DOMAIN cache' : cache'[i].sensor = cache'[j].sensor => i = j
      /\ uses' \in Seq(Sensors)
      /\ CacheByUse'
      /\ \A f \in Range(cache') : f = e \/ (f \in Range(cache) /\ f.sensor # s)
  BY <1>1, <1>2, <1>3, PutFacts
<1>5. /\ pc' \in [Sensors -> {"idle", "identity", "info"}]
      /\ node' \in [Sensors -> NodesOrNone]
      /\ visited' \in [Sensors -> SUBSET Nodes]
      /\ bindings' \in [Sensors -> SUBSET NodesOrNone]
      /\ links' \in [Sensors -> SUBSET (Nodes \X NodesOrNone)]
      /\ \A t \in Sensors : pc'[t] = IF t = s THEN "idle" ELSE pc[t]
      /\ WayInBounds' /\ WayFollowsTree' /\ WayRecorded'
  BY <1>2, LandFacts
<1>6. TypeOK'
  BY <1>1, <1>2, <1>4, <1>5 DEF TypeOK, chain
<1>7. \A f \in Range(cache') : f = e \/ (f \in Range(cache) /\ f.sensor \in Sensors /\ f.sensor # s)
  BY <1>1, <1>4, CachedAreEntries
<1>8. NoEntryInFlight'
  BY <1>1, <1>3, <1>5, <1>7 DEF NoEntryInFlight
<1>9. CacheFollowsTree'
  <2>1. \A t \in Sensors : IsRootDescendant(t)' = IsRootDescendant(t)
    BY TreeSame DEF chain
  <2>2. \A f \in Range(cache') :
          f.sensor \in Sensors /\ (f.sensor \in disturbed \/ f.allowed = IsRootDescendant(f.sensor))
    <3> TAKE f \in Range(cache')
    <3>1. CASE f = e
      BY <1>3, <3>1
    <3>2. CASE f # e
      BY <1>1, <1>7, <3>2 DEF CacheFollowsTree
    <3> QED BY <3>1, <3>2
  <2> QED BY <1>2, <2>1, <2>2 DEF CacheFollowsTree
<1> QED BY <1>4, <1>5, <1>6, <1>8, <1>9 DEF IInv

(* A read that throws.                                                     *)
LEMMA ReadFailsKeeps ==
  ASSUME IInv, NEW s \in Sensors, ReadFails(s)
  PROVE  IInv'
<1>1. TypeOK /\ CacheByUse /\ NoEntryInFlight /\ CacheFollowsTree
  BY DEF IInv
<1>2. Land(s) /\ UNCHANGED <<now, chain, cache, uses, disturbed>>
  BY DEF ReadFails
<1>3. /\ pc' \in [Sensors -> {"idle", "identity", "info"}]
      /\ node' \in [Sensors -> NodesOrNone]
      /\ visited' \in [Sensors -> SUBSET Nodes]
      /\ bindings' \in [Sensors -> SUBSET NodesOrNone]
      /\ links' \in [Sensors -> SUBSET (Nodes \X NodesOrNone)]
      /\ \A t \in Sensors : pc'[t] = IF t = s THEN "idle" ELSE pc[t]
      /\ WayInBounds' /\ WayFollowsTree' /\ WayRecorded'
  BY <1>2, LandFacts
<1>4. TypeOK'
  BY <1>1, <1>2, <1>3 DEF TypeOK, chain
<1>5. \A f \in Range(cache) : f.sensor \in Sensors
  BY <1>1, CachedAreEntries
<1>6. CacheByUse' /\ NoEntryInFlight'
  BY <1>1, <1>2, <1>3, <1>5 DEF CacheByUse, NoEntryInFlight
<1>7. CacheFollowsTree'
  BY <1>1, <1>2, AnswersKept DEF chain
<1> QED BY <1>3, <1>4, <1>6, <1>7 DEF IInv

(* A look-up that goes on to a node keeps what is known of it there.       *)
LEMMA GoToKeeps ==
  ASSUME IInv, NEW s \in Sensors, NEW n \in Nodes, GoTo(s, n), UNCHANGED <<now, chain>>,
         pc[s] # "idle", LookupOK(s)'
  PROVE  IInv'
<1> USE DEF chain, history
<1>1. TypeOK /\ CacheByUse /\ NoEntryInFlight /\ CacheFollowsTree
  BY DEF IInv
<1>2. UNCHANGED <<identity, parent, changes, cache, uses, disturbed, bindings, links>>
  BY DEF GoTo
<1>3. TypeOK'
  <2>1. /\ pc' \in [Sensors -> {"idle", "identity", "info"}]
        /\ node' \in [Sensors -> NodesOrNone]
        /\ visited' \in [Sensors -> SUBSET Nodes]
    BY <1>1 DEF GoTo, TypeOK, NodesOrNone
  <2> QED BY <1>1, <1>2, <2>1 DEF TypeOK
<1>4. CacheByUse'
  BY <1>1, <1>2 DEF CacheByUse
<1>5. NoEntryInFlight'
  <2>1. \A f \in Range(cache) : f.sensor \in Sensors /\ f.sensor # s
    BY <1>1, CachedAreEntries DEF NoEntryInFlight
  <2>2. \A t \in Sensors : t # s => pc'[t] = pc[t]
    BY <1>1 DEF GoTo, TypeOK
  <2> QED BY <1>1, <1>2, <2>1, <2>2 DEF NoEntryInFlight
<1>6. CacheFollowsTree'
  BY <1>1, <1>2, AnswersKept
<1>7. \A t \in Sensors : LookupOK(t)'
  <2> TAKE t \in Sensors
  <2>1. LookupOK(t)
    BY LookupsOK DEF IInv
  <2>2. CASE t # s
    <3>1. LookupSame(t)
      BY <1>1, <1>2, <2>2 DEF LookupSame, GoTo, TypeOK
    <3> QED BY <1>2, <2>1, <3>1, LookupKept
  <2> QED BY <2>2
<1>8. WayInBounds' /\ WayFollowsTree' /\ WayRecorded'
  BY <1>7 DEF WayInBounds, WayFollowsTree, WayRecorded, LookupOK
<1> QED BY <1>3, <1>4, <1>5, <1>6, <1>8 DEF IInv

(* The read of the identity of the sensor.                                 *)
LEMMA ReadIdentityKeeps ==
  ASSUME IInv, NEW s \in Sensors, ReadIdentity(s)
  PROVE  IInv'
<1> DEFINE n == identity[s]
<1>1. TypeOK /\ LookupOK(s) /\ pc[s] = "identity" /\ UNCHANGED <<now, chain>>
  BY LookupsOK DEF IInv, ReadIdentity
<1>2. CASE n = None
  <2>1. Conclude(s, FALSE) /\ IsRootDescendant(s) = FALSE
    BY <1>2 DEF ReadIdentity, IsRootDescendant
  <2> QED BY <1>1, <2>1, ConcludeKeeps
<1>3. CASE n # None
  <2>1. n \in Nodes /\ n \in NodesOrNone /\ GoTo(s, n)
    BY <1>1, <1>3 DEF ReadIdentity, TypeOK, NodesOrNone
  <2>2. /\ pc'[s] = "info" /\ node'[s] = n /\ visited'[s] = {n}
        /\ UNCHANGED <<identity, parent, disturbed, bindings, links>>
    BY <1>1, <2>1 DEF GoTo, TypeOK, LookupOK, chain, history
  <2>3. IsFiniteSet({n}) /\ Cardinality({n}) = 1
    BY FS_Singleton
  <2>4. Steps(s)' = 0 /\ 0 \in 0..MaxSteps
    BY <2>2, <2>3, CpsAssumption DEF Steps
  <2>5. n \in Climb(bindings[s], links[s])[0]
    <3>1. bindings[s] \in SUBSET NodesOrNone
      BY <1>1 DEF TypeOK
    <3>2. Climb(bindings[s], links[s])[0] = bindings[s]
      BY <3>1, ClimbFacts
    <3> QED BY <1>1, <3>2 DEF LookupOK
  <2>6. OnTheWay(s)'
    <3>1. Ancestors(n)[0] = n
      BY <1>1, <2>1, AncestorsFacts DEF TypeOK
    <3>2. \A m : Ancestors(m)' = Ancestors(m)
      BY <2>2, TreeSame
    <3>3. {Ancestors(n)[k] : k \in 0..0} = {n}
      <4>1. \A k \in 0..0 : k = 0
        OBVIOUS
      <4>2. 0 \in 0..0
        OBVIOUS
      <4> HIDE DEF n
      <4> QED BY <3>1, <4>1, <4>2
    <3>4. \A k \in 1..0 : FALSE
      OBVIOUS
    <3> QED BY <1>3, <2>2, <2>4, <3>1, <3>2, <3>3, <3>4 DEF OnTheWay
  <2>7. Links' = Links
    BY <2>2, TreeSame
  <2>8. LookupOK(s)'
    BY <1>1, <2>1, <2>2, <2>3, <2>4, <2>5, <2>6, <2>7 DEF LookupOK
  <2> QED BY <1>1, <2>1, <2>8, GoToKeeps
<1> QED BY <1>2, <1>3

(* The parent that is read is one link further than what is read of.       *)
LEMMA NextReached ==
  ASSUME TypeOK, WayInBounds, NEW s \in Sensors, LookupOK(s), pc[s] = "info", ~Exhausted(s)
  PROVE  parent[node[s]] \in Climb(bindings[s], links[s])[Steps(s) + 1]
<1> DEFINE up == Climb(bindings[s], links[s])
           p  == parent[node[s]]
<1>1. PICK n \in Nat : n = Steps(s)
  BY StepsFacts
<1>2. n + 1 \in 1..MaxSteps /\ n + 1 - 1 = n /\ p \in NodesOrNone
  BY <1>1, StepsFacts
<1>3. bindings[s] \in SUBSET NodesOrNone
  BY DEF TypeOK
<1>4. \A k \in 1..MaxSteps : up[k] = Linked(up[k - 1], links[s])
  BY <1>3, ClimbFacts
<1>5. node[s] \in Nodes /\ node[s] \in up[n] /\ Links \subseteq links[s]
  BY <1>1 DEF LookupOK
<1>6. <<node[s], p>> \in links[s]
  BY <1>5 DEF Links
<1> HIDE DEF up, p
<1>7. up[n + 1] = Linked(up[n], links[s])
  BY <1>2, <1>4
<1>8. p \in up[n + 1]
  BY <1>2, <1>5, <1>6, <1>7 DEF Linked
<1> QED BY <1>1, <1>8 DEF up, p

(* The read of a node on the way.                                          *)
LEMMA ReadInfoKeeps ==
  ASSUME IInv, NEW s \in Sensors, ReadInfo(s)
  PROVE  IInv'
<1> DEFINE p == parent[node[s]]
           n == Steps(s)
<1>1. /\ TypeOK /\ WayInBounds /\ LookupOK(s) /\ pc[s] = "info" /\ UNCHANGED <<now, chain>>
      /\ Walk(s, p)
  BY LookupsOK DEF IInv, ReadInfo
<1>2. s \in disturbed \/ OnTheWay(s)
  BY <1>1 DEF LookupOK
<1>3. CASE Exhausted(s) \/ p = None
  <2>1. Conclude(s, FALSE)
    BY <1>1, <1>3 DEF Walk
  <2>2. s \in disturbed \/ IsRootDescendant(s) = FALSE
    BY <1>1, <1>2, <1>3, DeniedOutsideTree, CpsAssumption DEF IsRootDescendant
  <2> QED BY <1>1, <2>1, <2>2, ConcludeKeeps
<1>4. CASE ~Exhausted(s) /\ p = Root
  <2>1. Conclude(s, TRUE)
    BY <1>1, <1>4, CpsAssumption DEF Walk
  <2>2. s \in disturbed \/ IsRootDescendant(s) = TRUE
    <3>1. OnTheWay(s) => n + 1 \in 1..MaxSteps /\ Ancestors(identity[s])[n + 1] = Root
      BY <1>1, <1>4, StepsFacts, NextAncestor
    <3> HIDE DEF n
    <3> QED BY <1>2, <3>1 DEF IsRootDescendant, OnTheWay
  <2> QED BY <1>1, <2>1, <2>2, ConcludeKeeps
<1>5. CASE ~Exhausted(s) /\ p # None /\ p # Root /\ p \in visited[s]
  <2>1. Conclude(s, FALSE)
    BY <1>1, <1>5 DEF Walk
  <2>2. s \in disturbed \/ IsRootDescendant(s) = FALSE
    BY <1>1, <1>2, <1>5, DeniedOutsideTree DEF IsRootDescendant
  <2> QED BY <1>1, <2>1, <2>2, ConcludeKeeps
<1>6. CASE ~Exhausted(s) /\ p # None /\ p # Root /\ p \notin visited[s]
  <2>1. GoTo(s, p)
    BY <1>1, <1>6 DEF Walk
  <2>2. p \in Nodes /\ p \in NodesOrNone
    BY <1>1, <1>6, StepsFacts DEF NodesOrNone
  <2>3. /\ pc'[s] = "info" /\ node'[s] = p /\ visited'[s] = visited[s] \cup {p}
        /\ UNCHANGED <<identity, parent, disturbed, bindings, links>>
    BY <1>1, <2>1 DEF GoTo, TypeOK, chain, history
  <2>4. n \in 0..MaxSteps /\ n + 1 \in 1..MaxSteps /\ n + 1 \in 0..MaxSteps /\ n + 1 - 1 = n
    BY <1>1, <1>6, StepsFacts, CpsAssumption
  <2>5. IsFiniteSet(visited'[s]) /\ Steps(s)' = n + 1
    <3>1. IsFiniteSet(visited[s]) /\ Cardinality(visited[s]) = n + 1
      BY <1>1, StepsFacts DEF LookupOK
    <3>2. IsFiniteSet(visited'[s]) /\ Cardinality(visited'[s]) = n + 1 + 1
      BY <1>6, <2>3, <3>1, FS_AddElement
    <3> HIDE DEF n
    <3> QED BY <2>4, <3>2 DEF Steps
  <2>6. p \in Climb(bindings[s], links[s])[n + 1]
    BY <1>1, <1>6, NextReached
  <2>7. ASSUME s \notin disturbed
        PROVE  OnTheWay(s)'
    <3> DEFINE A == Ancestors(identity[s])
    <3>1. OnTheWay(s)
      BY <1>2, <2>7
    <3>2. A[n + 1] = p
      BY <1>1, <1>6, <3>1, NextAncestor
    <3>3. \A m : Ancestors(m)' = Ancestors(m)
      BY <2>3, TreeSame
    <3>4. identity[s] # None /\ visited[s] = {A[k] : k \in 0..n} /\ \A k \in 1..n : A[k] # Root
      BY <3>1 DEF OnTheWay
    <3> HIDE DEF A, n, p
    <3>5. /\ \A k \in 0..n + 1 : k \in 0..n \/ k = n + 1
          /\ \A k \in 1..n + 1 : k \in 1..n \/ k = n + 1
          /\ \A k \in 0..n : k \in 0..n + 1
          /\ n + 1 \in 0..n + 1
      BY <2>4
    <3>6. visited'[s] = {A[k] : k \in 0..n + 1}
      BY <2>3, <3>2, <3>4, <3>5
    <3>7. \A k \in 1..n + 1 : A[k] # Root
      BY <1>6, <3>2, <3>4, <3>5
    <3>8. Ancestors(identity[s])' = A
      BY <2>3, <3>3 DEF A
    <3> QED BY <2>3, <2>5, <3>2, <3>4, <3>6, <3>7, <3>8 DEF OnTheWay
  <2>8. Links' = Links
    BY <2>3, TreeSame
  <2>9. LookupOK(s)'
    BY <1>1, <2>2, <2>3, <2>4, <2>5, <2>6, <2>7, <2>8 DEF LookupOK
  <2> QED BY <1>1, <2>1, <2>2, <2>9, GoToKeeps
<1> QED BY <1>3, <1>4, <1>5, <1>6

(* Every step keeps the invariant.                                         *)
LEMMA NextInvariant == IInv /\ [Next]_vars => IInv'
<1> SUFFICES ASSUME IInv, [Next]_vars
             PROVE  IInv'
  OBVIOUS
<1>1. now \in Nat
  BY DEF IInv, TypeOK
<1>2. CASE Tick
  <2>1. now' \in Nat
    BY <1>1, <1>2 DEF Tick
  <2> QED BY <1>2, <2>1, TickKeeps DEF Tick
<1>3. CASE Change
  BY <1>3, ChangeKeeps
<1>4. ASSUME NEW s \in Sensors, Hit(s)
      PROVE  IInv'
  BY <1>4, HitKeeps
<1>5. ASSUME NEW s \in Sensors, Miss(s)
      PROVE  IInv'
  BY <1>5, MissKeeps
<1>6. ASSUME NEW s \in Sensors, ReadIdentity(s)
      PROVE  IInv'
  BY <1>6, ReadIdentityKeeps
<1>7. ASSUME NEW s \in Sensors, ReadInfo(s)
      PROVE  IInv'
  BY <1>7, ReadInfoKeeps
<1>8. ASSUME NEW s \in Sensors, ReadFails(s)
      PROVE  IInv'
  BY <1>8, ReadFailsKeeps
<1>9. CASE UNCHANGED vars
  <2>1. now' \in Nat /\ UNCHANGED <<chain, cache, lookup, history>>
    BY <1>1, <1>9 DEF vars, chain, lookup, history
  <2> QED BY <2>1, TickKeeps
<1> QED BY <1>2, <1>3, <1>4, <1>5, <1>6, <1>7, <1>8, <1>9 DEF Next

-----------------------------------------------------------------------------
(* The theorems.                                                           *)

(* The invariant of the authentication: the order of the cache, and what a *)
(* look-up knows of the tree at each of its reads (cps-auth.ts:134-198,    *)
(* lru-cache.ts).                                                          *)
THEOREM Invariant == Spec => []IInv
<1>1. Init => IInv
  BY InitInvariant
<1>2. IInv /\ [Next]_vars => IInv'
  BY NextInvariant
<1> QED BY <1>1, <1>2, PTL DEF Spec

(* The variables keep their types; the cache never holds more than its     *)
(* maximum, nor two entries of a sensor (lru-cache.ts:60-72).              *)
THEOREM TypeCorrect == Spec => []TypeOK
<1>1. IInv => TypeOK
  BY DEF IInv
<1> QED BY <1>1, Invariant, PTL

(* A cached answer is what the tree says, unless the tree has changed      *)
(* since its look-up began: a denial after the end of the tree, a cycle or *)
(* an exhausted walk, an authorization at the root, and never a failed     *)
(* read (cps-auth.ts:155-198).                                             *)
THEOREM AnswersFollowTree == Spec => []CacheFollowsTree
<1>1. IInv => CacheFollowsTree
  BY DEF IInv
<1> QED BY <1>1, Invariant, PTL

(* A denial leaves no authorization of the sensor in the cache.            *)
LEMMA DenialDenies ==
  ASSUME IInv, NEW s \in Sensors, Conclude(s, FALSE)
  PROVE  ~Authorizes(s)
<1>1. TypeOK /\ Set(s, FALSE)
  BY DEF IInv, Conclude
<1>2. PICK n \in Entries :
        n.sensor = s /\ n.allowed = FALSE /\ cache' = Kept(Append(Without(cache, s), n))
  BY <1>1, SetPuts
<1>3. \A f \in Range(cache') : f = n \/ (f \in Range(cache) /\ f.sensor # s)
  BY <1>1, <1>2, KeptFacts
<1> QED BY <1>2, <1>3 DEF Authorizes

(* An authorization is along links that were read.                         *)
LEMMA StepAuthorizes ==
  ASSUME IInv, Next, NEW s \in Sensors, Authorizes(s)
  PROVE  Root \in Reach(s)
<1>1. TypeOK /\ WayInBounds /\ NoEntryInFlight /\ \A t \in Sensors : LookupOK(t)
  BY LookupsOK DEF IInv
<1>2. pc[s] # "idle" /\ pc'[s] = "idle"
  BY DEF Authorizes
<1>3. ~Tick /\ ~Change
  BY <1>2 DEF Tick, Change, lookup
<1>4. \A t \in Sensors : ~Hit(t)
  BY <1>2 DEF Hit, lookup
<1>5. ASSUME NEW t \in Sensors, Miss(t)
      PROVE  FALSE
  BY <1>1, <1>2, <1>5 DEF Miss, TypeOK
<1>6. ASSUME NEW t \in Sensors, NEW n \in NodesOrNone, GoTo(t, n)
      PROVE  FALSE
  BY <1>1, <1>2, <1>6 DEF GoTo, TypeOK
<1>7. \A t \in Sensors : Land(t) => t = s
  BY <1>1, <1>2 DEF Land, TypeOK
<1>8. ASSUME NEW t \in Sensors, Conclude(t, FALSE)
      PROVE  FALSE
  <2>1. t = s
    BY <1>7, <1>8 DEF Conclude
  <2> QED BY <1>8, <2>1, DenialDenies
<1>9. ASSUME NEW t \in Sensors, ReadIdentity(t)
      PROVE  FALSE
  <2>1. identity[t] \in NodesOrNone
    BY <1>1 DEF TypeOK
  <2> QED BY <1>6, <1>8, <1>9, <2>1 DEF ReadIdentity
<1>10. ASSUME NEW t \in Sensors, ReadFails(t)
       PROVE  FALSE
  <2>1. t = s /\ cache' = cache
    BY <1>7, <1>10 DEF ReadFails
  <2> QED BY <1>1, <1>2, <2>1 DEF NoEntryInFlight, Authorizes
<1>11. ASSUME NEW t \in Sensors, ReadInfo(t)
       PROVE  Root \in Reach(s)
  <2> DEFINE p == parent[node[t]]
  <2>1. pc[t] = "info" /\ Walk(t, p)
    BY <1>11 DEF ReadInfo
  <2>2. p \in NodesOrNone
    BY <1>1, <2>1, StepsFacts
  <2>3. ~Exhausted(t) /\ p = Root /\ Conclude(t, TRUE)
    BY <1>6, <1>8, <2>1, <2>2 DEF Walk
  <2>4. t = s
    BY <1>7, <2>3 DEF Conclude
  <2>5. Root \in Climb(bindings[s], links[s])[Steps(s) + 1] /\ Steps(s) + 1 \in 1..MaxSteps
    BY <1>1, <2>1, <2>3, <2>4, NextReached, StepsFacts
  <2> QED BY <2>5 DEF Reach
<1> QED BY <1>3, <1>4, <1>5, <1>9, <1>10, <1>11 DEF Next

(* An entry that leaves the cache as another is put in it is the least     *)
(* recently used of a full cache.                                          *)
LEMMA PutEvictsLeastRecent ==
  ASSUME TypeOK, CacheByUse, NEW s \in Sensors, NEW n \in Entries, n.sensor = s,
         cache' = Kept(Append(Without(cache, s), n)),
         NEW e \in Range(cache), \A f \in Range(cache') : f.sensor # e.sensor
  PROVE  /\ Len(cache) = CacheMaxSize
         /\ \A f \in Range(cache) : Position(e.sensor) <= Position(f.sensor)
<1>1. /\ n \in Range(cache')
      /\ \A f \in Range(cache) :
           f.sensor = s \/ f \in Range(cache') \/ (Len(cache) = CacheMaxSize /\ f = cache[1])
  BY KeptFacts
<1>2. Len(cache) = CacheMaxSize /\ e = cache[1]
  BY <1>1
<1>3. /\ Len(cache) \in Nat /\ DOMAIN cache = 1..Len(cache) /\ 1 \in DOMAIN cache
      /\ Len(uses) \in Nat /\ DOMAIN uses = 1..Len(uses)
  <2>1. /\ Len(cache) \in Nat /\ DOMAIN cache = 1..Len(cache)
        /\ Len(uses) \in Nat /\ DOMAIN uses = 1..Len(uses)
    BY LenProperties DEF TypeOK
  <2>2. \E i \in DOMAIN cache : e = cache[i]
    BY DEF Range
  <2> QED BY <2>1, <2>2
<1>4. \A i \in DOMAIN uses : Position(uses[i]) = i
  BY DEF CacheByUse, Position
<1>5. ASSUME NEW i \in DOMAIN cache
      PROVE  Position(e.sensor) <= Position(cache[i].sensor)
  <2>1. CASE i = 1
    <3>1. e.sensor \in Range(uses)
      BY DEF CacheByUse
    <3>2. PICK j \in DOMAIN uses : uses[j] = e.sensor
      BY <3>1 DEF Range
    <3>3. Position(e.sensor) = j /\ j \in Nat
      BY <1>3, <1>4, <3>2
    <3> QED BY <1>2, <2>1, <3>3
  <2>2. CASE i # 1
    <3>1. 1 < i
      BY <1>3, <2>2
    <3>2. Before(uses, e.sensor, cache[i].sensor)
      BY <1>2, <1>3, <3>1 DEF CacheByUse
    <3>3. PICK j, k \in DOMAIN uses : j < k /\ uses[j] = e.sensor /\ uses[k] = cache[i].sensor
      BY <3>2 DEF Before
    <3>4. Position(e.sensor) = j /\ Position(cache[i].sensor) = k /\ j \in Nat /\ k \in Nat
      BY <1>3, <1>4, <3>3
    <3> QED BY <3>3, <3>4
  <2> QED BY <2>1, <2>2
<1> QED BY <1>2, <1>5 DEF Range

(* What a step takes out of the cache.                                     *)
LEMMA StepEvicts ==
  ASSUME IInv, Next, NEW e \in Range(cache), \A f \in Range(cache') : f.sensor # e.sensor
  PROVE  \/ ~Live(e)
         \/ /\ Len(cache) = CacheMaxSize
            /\ \A f \in Range(cache) : Position(e.sensor) <= Position(f.sensor)
<1>1. TypeOK /\ CacheByUse
  BY DEF IInv
<1>2. cache' # cache
  OBVIOUS
<1>3. ~Tick /\ ~Change
  BY <1>2 DEF Tick, Change
<1>4. ASSUME NEW s \in Sensors, Hit(s)
      PROVE  /\ Len(cache) = CacheMaxSize
             /\ \A f \in Range(cache) : Position(e.sensor) <= Position(f.sensor)
  <2>1. PICK n \in Range(cache) : n.sensor = s /\ Touch(n)
    BY <1>4 DEF Hit
  <2>2. n \in Entries /\ cache' = Kept(Append(Without(cache, s), n))
    BY <1>1, <2>1, TouchPuts
  <2> QED BY <1>1, <2>1, <2>2, PutEvictsLeastRecent
<1>5. ASSUME NEW s \in Sensors, Miss(s)
      PROVE  ~Live(e)
  <2>1. Range(cache') = {f \in Range(cache) : f.sensor # s}
    BY <1>1, <1>5, WithoutFacts DEF Miss
  <2>2. e.sensor = s
    BY <2>1
  <2> QED BY <1>5, <2>2 DEF Miss
<1>6. ASSUME NEW s \in Sensors, NEW allowed \in BOOLEAN, Conclude(s, allowed)
      PROVE  /\ Len(cache) = CacheMaxSize
             /\ \A f \in Range(cache) : Position(e.sensor) <= Position(f.sensor)
  <2>1. Set(s, allowed)
    BY <1>6 DEF Conclude
  <2>2. /\ Answer(s, allowed) \in Entries /\ Answer(s, allowed).sensor = s
        /\ cache' = Kept(Append(Without(cache, s), Answer(s, allowed)))
    BY <1>1, <2>1, SetPuts
  <2> QED BY <1>1, <2>2, PutEvictsLeastRecent
<1>7. \A s \in Sensors, n \in NodesOrNone : ~GoTo(s, n)
  BY <1>2 DEF GoTo
<1>8. \A s \in Sensors : ReadIdentity(s) => Conclude(s, FALSE)
  BY <1>1, <1>7 DEF ReadIdentity, TypeOK
<1>9. ASSUME NEW s \in Sensors, ReadInfo(s)
      PROVE  \E allowed \in BOOLEAN : Conclude(s, allowed)
  <2>1. WayInBounds /\ pc[s] = "info" /\ Walk(s, parent[node[s]])
    BY <1>9 DEF IInv, ReadInfo
  <2>2. parent[node[s]] \in NodesOrNone
    BY <1>1, <2>1, StepsFacts
  <2> QED BY <1>7, <2>1, <2>2 DEF Walk
<1>10. \A s \in Sensors : ~ReadFails(s)
  BY <1>2 DEF ReadFails
<1> QED BY <1>3, <1>4, <1>5, <1>6, <1>8, <1>9, <1>10 DEF Next

(* A sensor is authorized along links each of which the tree had at some   *)
(* time since the look-up began, from a node that was then the sensor's    *)
(* (cps-auth.ts:176-198).                                                  *)
THEOREM AuthorizedAlongLinks == Spec => AuthorizedByLinks
<1>1. IInv /\ [Next]_vars => [\A s \in Sensors : Authorizes(s) => Root \in Reach(s)]_vars
  BY StepAuthorizes
<1> QED BY <1>1, Invariant, PTL DEF Spec, AuthorizedByLinks

(* The cache forgets what has expired, and otherwise only the least        *)
(* recently used entry of a full cache (lru-cache.ts:45-72).               *)
THEOREM ForgetsLeastRecent == Spec => EvictsLeastRecent
<1>1. IInv /\ [Next]_vars =>
        [\A e \in Range(cache) :
           (\A f \in Range(cache') : f.sensor # e.sensor)
             => \/ ~Live(e)
                \/ /\ Len(cache) = CacheMaxSize
                   /\ \A f \in Range(cache) : Position(e.sensor) <= Position(f.sensor)]_vars
  BY StepEvicts
<1> QED BY <1>1, Invariant, PTL DEF Spec, EvictsLeastRecent

=============================================================================
