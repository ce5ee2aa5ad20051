---------------------------- MODULE HeartbeatProofs ----------------------------
(***************************************************************************)
(* What the heartbeat tracker keeps of its events, for every set of        *)
(* sensors and of scrapes in progress, all windows and any number of       *)
(* faults.                                                                 *)
(***************************************************************************)
EXTENDS HeartbeatTracker, WellFoundedInduction, TLAPS

-----------------------------------------------------------------------------
(* Lemmas about sets of times.                                             *)

(* The least and the greatest member of a set are what Min and Max choose. *)
LEMMA MinIs ==
  ASSUME NEW S, S \subseteq Nat, NEW m \in S, \A x \in S : m <= x
  PROVE  Min(S) = m
<1>1. \A y \in S : (\A x \in S : y <= x) => y = m
  OBVIOUS
<1> QED BY <1>1 DEF Min

(* Max() by its definition.                                                *)
LEMMA MaxIs ==
  ASSUME NEW S, S \subseteq Nat, NEW m \in S, \A x \in S : m >= x
  PROVE  Max(S) = m
<1>1. \A y \in S : (\A x \in S : y >= x) => y = m
  OBVIOUS
<1> QED BY <1>1 DEF Max

(* The times are natural numbers.                                          *)
LEMMA TimesAreNat == Times \subseteq Nat
BY HeartbeatAssumption DEF Times

(* A nonempty set of naturals has a minimum, a bounded one a maximum.      *)
LEMMA MinFacts ==
  ASSUME NEW S, S \subseteq Nat, S # {}
  PROVE  Min(S) \in S /\ Min(S) \in Nat /\ \A x \in S : Min(S) <= x
<1>1. \E m \in S : \A x \in S : ~ (<<x, m>> \in OpToRel(<, Nat))
  BY WFMin, NatLessThanWellFounded
<1>2. \A m, x \in S : ~ (<<x, m>> \in OpToRel(<, Nat)) => m <= x
  BY DEF OpToRel
<1>3. PICK m \in S : \A x \in S : m <= x
  BY <1>1, <1>2
<1> QED BY <1>3, MinIs

(* A nonempty set of times has its maximum.                                *)
LEMMA MaxFacts ==
  ASSUME NEW S, S \subseteq Times, S # {}
  PROVE  Max(S) \in S /\ Max(S) \in Nat /\ \A x \in S : Max(S) >= x
<1> DEFINE T == {MaxTime - x : x \in S}
<1>1. S \subseteq Nat /\ MaxTime \in Nat /\ \A x \in S : x \in Nat /\ x <= MaxTime
  BY HeartbeatAssumption DEF Times
<1>2. T \subseteq Nat /\ T # {}
  <2>1. \A x \in S : MaxTime - x \in Nat
    BY <1>1
  <2> QED BY <2>1
<1>3. PICK m \in S : Min(T) = MaxTime - m
  <2> HIDE DEF T
  <2>1. Min(T) \in T
    BY <1>2, MinFacts
  <2> QED BY <2>1 DEF T
<1>4. \A x \in S : m >= x
  <2> TAKE x \in S
  <2>1. Min(T) <= MaxTime - x
    <3>1. MaxTime - x \in T
      OBVIOUS
    <3> HIDE DEF T
    <3> QED BY <1>2, <3>1, MinFacts
  <2> QED BY <1>1, <1>3, <2>1
<1> QED BY <1>1, <1>4, MaxIs

(* A time later than the maximum is later than all.                        *)
LEMMA Later ==
  ASSUME NEW S, S \subseteq Times, NEW t \in Times, S # {} => t > Max(S)
  PROVE  \A x \in S : t > x
<1> SUFFICES ASSUME NEW x \in S
             PROVE  t > x
  OBVIOUS
<1>1. t > Max(S) /\ Max(S) \in S /\ Max(S) >= x
  BY MaxFacts
<1>2. t \in Nat /\ x \in Nat /\ Max(S) \in Nat
  BY <1>1, TimesAreNat
<1> QED BY <1>1, <1>2

(* A time added behind the others is the latest, and the earliest only of  *)
(* an empty set.                                                           *)
LEMMA Added ==
  ASSUME NEW S, S \subseteq Times, NEW t \in Times, S # {} => t > Max(S)
  PROVE  /\ Max(S \cup {t}) = t
         /\ Min(S \cup {t}) = IF S = {} THEN t ELSE Min(S)
<1>1. S \subseteq Nat /\ t \in Nat /\ S \cup {t} \subseteq Nat
  BY TimesAreNat
<1>2. \A x \in S : t > x
  BY <1>1, Later
<1>3. Max(S \cup {t}) = t
  <2>1. \A x \in S \cup {t} : t >= x
    BY <1>1, <1>2
  <2> QED BY <1>1, <2>1, MaxIs
<1>4. CASE S = {}
  <2>1. Min(S \cup {t}) = t
    BY <1>1, <1>4, MinIs
  <2> QED BY <1>3, <1>4, <2>1
<1>5. CASE S # {}
  <2>1. Min(S) \in S /\ Min(S) \in Nat /\ \A x \in S : Min(S) <= x
    BY <1>1, <1>5, MinFacts
  <2>2. Min(S \cup {t}) = Min(S)
    <3>1. \A x \in S \cup {t} : Min(S) <= x
      BY <1>1, <1>2, <2>1
    <3> QED BY <1>1, <2>1, <3>1, MinIs
  <2> QED BY <1>3, <1>5, <2>2
<1> QED BY <1>4, <1>5

(* Such a time prolongs the last streak if it is within the online window  *)
(* of the latest one, and begins a streak of its own otherwise.            *)
LEMMA StreakGrows ==
  ASSUME NEW S, S \subseteq Times, NEW t \in Times, S # {} => t > Max(S)
  PROVE  StreakStart(S \cup {t}) =
           IF S # {} /\ t - Max(S) <= OnlineWindow THEN StreakStart(S) ELSE t
<1> DEFINE Joined(A, x) == \A u \in A : u > x => \E v \in A : x <= v /\ v < u /\ u - v <= OnlineWindow
           Starts(A)    == {x \in A : Joined(A, x)}
<1>1. S \subseteq Nat /\ t \in Nat /\ OnlineWindow \in Nat
  BY HeartbeatAssumption, TimesAreNat
<1>2. \A A : StreakStart(A) = Min(Starts(A))
  BY DEF StreakStart
<1>3. \A x \in S : t > x
  BY Later
<1>4. t \in Starts(S \cup {t})
  <2>1. \A u \in S \cup {t} : ~ (u > t)
    BY <1>1, <1>3
  <2> QED BY <2>1
<1>5. ASSUME S # {}, t - Max(S) <= OnlineWindow
      PROVE  Min(Starts(S \cup {t})) = Min(Starts(S))
  <2>1. Max(S) \in S /\ \A x \in S : Max(S) >= x /\ ~ (x > Max(S))
    <3>1. Max(S) \in S /\ Max(S) \in Nat /\ \A x \in S : Max(S) >= x
      BY <1>5, MaxFacts
    <3> QED BY <1>1, <3>1
  <2>2. Max(S) \in Starts(S)
    <3> QED BY <2>1
  <2>3. ASSUME NEW x \in S
        PROVE  Joined(S, x) <=> Joined(S \cup {t}, x)
    <3>1. ASSUME Joined(S, x)
          PROVE  Joined(S \cup {t}, x)
      <4>1. x <= Max(S) /\ Max(S) < t /\ t - Max(S) <= OnlineWindow
        BY <1>3, <1>5, <2>1
      <4> QED BY <2>1, <3>1, <4>1
    <3>2. ASSUME Joined(S \cup {t}, x)
          PROVE  Joined(S, x)
      <4> SUFFICES ASSUME NEW u \in S, u > x
                   PROVE  \E v \in S : x <= v /\ v < u /\ u - v <= OnlineWindow
        OBVIOUS
      <4>1. PICK v \in S \cup {t} : x <= v /\ v < u /\ u - v <= OnlineWindow
        BY <3>2
      <4>2. v # t
        BY <1>1, <1>3, <4>1
      <4> QED BY <4>1, <4>2
    <3> QED BY <3>1, <3>2
  <2>4. Starts(S \cup {t}) = Starts(S) \cup {t}
    BY <1>4, <2>3
  <2>5. /\ Starts(S) \subseteq Nat /\ Starts(S) # {}
        /\ Min(Starts(S)) \in Starts(S) /\ \A x \in Starts(S) : Min(Starts(S)) <= x
    <3>1. Starts(S) \subseteq Nat /\ Starts(S) # {}
      BY <1>1, <2>2
    <3> HIDE DEF Starts
    <3> QED BY <3>1, MinFacts
  <2>6. \A x \in Starts(S) \cup {t} : Min(Starts(S)) <= x
    <3>1. Min(Starts(S)) \in S
      BY <2>5
    <3> QED BY <1>1, <1>3, <2>5, <3>1
  <2>7. Min(Starts(S) \cup {t}) = Min(Starts(S))
    <3> HIDE DEF Starts
    <3> QED BY <1>1, <2>5, <2>6, MinIs
  <2> QED BY <2>4, <2>7
<1>6. ASSUME ~ (S # {} /\ t - Max(S) <= OnlineWindow)
      PROVE  Min(Starts(S \cup {t})) = t
  <2>1. ASSUME NEW x \in S
        PROVE  x \notin Starts(S \cup {t})
    <3>1. Max(S) \in S /\ Max(S) \in Nat /\ \A y \in S : Max(S) >= y
      BY MaxFacts
    <3>2. t - Max(S) > OnlineWindow
      BY <1>1, <1>6, <3>1
    <3>3. \A v \in S \cup {t} : v < t => t - v > OnlineWindow
      <4> TAKE v \in S \cup {t}
      <4>1. v = t \/ (v \in Nat /\ Max(S) >= v)
        BY <1>1, <3>1
      <4> QED BY <1>1, <3>1, <3>2, <4>1
    <3>4. t > x /\ t \in S \cup {t}
      BY <1>3
    <3>5. ~ \E v \in S \cup {t} : x <= v /\ v < t /\ t - v <= OnlineWindow
      BY <1>1, <3>3
    <3> QED BY <3>4, <3>5
  <2>2. Starts(S \cup {t}) = {t}
    BY <1>4, <2>1
  <2> QED BY <1>1, <2>2, MinIs
<1> HIDE DEF Starts, Joined
<1> QED BY <1>2, <1>5, <1>6

-----------------------------------------------------------------------------
(* What a step can do to Redis: nothing, run the script for one event, or  *)
(* remove one sensor that some scrape has found stale, from the set or     *)
(* with its hash.                                                          *)
LEMMA RedisStep ==
  ASSUME IInv, [Next]_vars
  PROVE  \/ UNCHANGED <<redis, history>>
         \/ \E s \in Sensors, t \in Times : RunScript(s, t)
         \/ \E k \in Scrapes : \E s \in stale[k] :
              sensors' = sensors \ {s} /\ UNCHANGED <<stored, firstSeen, lastSeen, onlineSince, history>>
         \/ \E k \in Scrapes : \E s \in stale[k] :
              DropHash(s) /\ UNCHANGED <<sensors, newest, raced>>
<1>1. handling # << >> => handling[1] \in Sensors /\ handling[2] \in Times
  BY DEF IInv, TypeOK
<1>2. \A k \in Scrapes : removed[k] \subseteq stale[k]
  BY DEF IInv, TypeOK
<1>3. CASE Tick \/ (\E s \in Sensors, t \in Times : Take(s, t)) \/ Stop \/ CloseRedis \/ Exit \/ Crash \/ Restart
  BY <1>3 DEF Tick, Take, Stop, CloseRedis, Exit, Crash, Restart
<1>4. CASE RecordAuthorizedSensor
  BY <1>1, <1>4 DEF RecordAuthorizedSensor
<1>5. CASE \E s \in Sensors, t \in Times : RecordElsewhere(s, t)
  BY <1>5 DEF RecordElsewhere
<1>6. CASE \E k \in Scrapes : StartScrape(k) \/ ReadMembers(k) \/ EndScrape(k) \/ ReadFails(k)
  BY <1>6 DEF StartScrape, ReadMembers, EndScrape, ReadFails
<1>7. CASE \E k \in Scrapes, s \in Sensors : ReadHeartbeat(k, s)
  BY <1>7 DEF ReadHeartbeat
<1>8. CASE \E k \in Scrapes, s \in Sensors : RemoveMember(k, s)
  BY <1>8 DEF RemoveMember, history
<1>9. CASE \E k \in Scrapes, s \in Sensors : DeleteHeartbeat(k, s)
  BY <1>2, <1>9 DEF DeleteHeartbeat
<1>10. ASSUME NEW k \in Scrapes, NEW s \in Sensors, PruneFails(k, s)
       PROVE  \/ UNCHANGED <<redis, history>>
              \/ s \in stale[k] /\ sensors' = sensors \ {s}
                 /\ UNCHANGED <<stored, firstSeen, lastSeen, onlineSince, history>>
              \/ s \in stale[k] /\ DropHash(s) /\ UNCHANGED <<sensors, newest, raced>>
  BY <1>10 DEF PruneFails, redis, history
<1>11. CASE RecordFails
  BY <1>1, <1>11 DEF RecordFails
<1>12. CASE UNCHANGED vars
  BY <1>12 DEF vars, redis, history
<1> QED BY <1>3, <1>4, <1>5, <1>6, <1>7, <1>8, <1>9, <1>10, <1>11, <1>12 DEF Next

(* What it can do to the scrapes: a sensor becomes stale by being read.    *)
LEMMA ScrapeStep ==
  ASSUME IInv, [Next]_vars
  PROVE  /\ now' \in Nat /\ now <= now'
         /\ \A k \in Scrapes :
              \/ stale'[k] \subseteq stale[k]
              \/ \E s \in Sensors : /\ ReadHeartbeat(k, s)
                                    /\ s \in stored /\ startedAt[k] - lastSeen[s] > RetentionWindow
                                    /\ stale'[k] = stale[k] \cup {s}
<1>1. now \in Nat /\ stale \in [Scrapes -> SUBSET Sensors]
  BY DEF IInv, TypeOK
<1>2. CASE now' = now /\ UNCHANGED stale
  BY <1>1, <1>2
<1>3. CASE Tick
  BY <1>1, <1>3 DEF Tick, scrape
<1>4. CASE (\E s \in Sensors, t \in Times : Take(s, t) \/ RecordElsewhere(s, t)) \/ RecordAuthorizedSensor
  BY <1>2, <1>4 DEF Take, RecordElsewhere, RecordAuthorizedSensor, scrape
<1>5. CASE Stop \/ CloseRedis \/ Restart
  BY <1>2, <1>5 DEF Stop, CloseRedis, Restart, scrape
<1>6. CASE Exit \/ Crash
  BY <1>1, <1>6 DEF Exit, Crash, ProcessLost
<1>7. CASE RecordFails
  BY <1>1, <1>2, <1>7 DEF RecordFails, ProcessLost, scrape
<1>8. CASE \E k \in Scrapes : StartScrape(k) \/ ReadMembers(k) \/ EndScrape(k)
  BY <1>2, <1>8 DEF StartScrape, ReadMembers, EndScrape
<1>9. CASE \E k \in Scrapes : ReadFails(k)
  BY <1>1, <1>9 DEF ReadFails
<1>10. CASE \E k \in Scrapes, s \in Sensors : RemoveMember(k, s)
  BY <1>2, <1>10 DEF RemoveMember
<1>11. CASE \E k \in Scrapes, s \in Sensors : DeleteHeartbeat(k, s) \/ PruneFails(k, s)
  <2>1. PICK k \in Scrapes, s \in Sensors : stale' = [stale EXCEPT ![k] = @ \ {s}] /\ now' = now
    BY <1>11 DEF DeleteHeartbeat, PruneFails, Done
  <2> QED BY <1>1, <2>1
<1>12. ASSUME NEW j \in Scrapes, NEW s \in Sensors, ReadHeartbeat(j, s)
       PROVE  /\ now' = now
              /\ \A k \in Scrapes : k # j => stale'[k] = stale[k]
              /\ \/ stale'[j] = stale[j]
                 \/ s \in stored /\ startedAt[j] - lastSeen[s] > RetentionWindow /\ stale'[j] = stale[j] \cup {s}
  BY <1>1, <1>12 DEF ReadHeartbeat
<1>13. CASE \E k \in Scrapes, s \in Sensors : ReadHeartbeat(k, s)
  <2>1. PICK j \in Scrapes, s \in Sensors : ReadHeartbeat(j, s)
    BY <1>13
  <2> QED BY <1>1, <1>12, <2>1
<1>14. CASE UNCHANGED vars
  BY <1>2, <1>14 DEF vars
<1> QED BY <1>3, <1>4, <1>5, <1>6, <1>7, <1>8, <1>9, <1>10, <1>11, <1>13, <1>14 DEF Next

-----------------------------------------------------------------------------
(* The initial states satisfy the invariant.                               *)
LEMMA Initially ==
  ASSUME Init
  PROVE  IInv
<1>1. TypeOK
  BY DEF Init, Idle, TypeOK, Phases, Times
<1>2. ScrapeOrder /\ HandledOnline
  BY DEF Init, Idle, ScrapeOrder, HandledOnline
<1>3. HashIsSummary /\ SeenIsRecorded
  BY DEF Init, HashIsSummary, SeenIsRecorded
<1>4. PrunedIsOld /\ FreshIsTrackedUnlessRaced
  BY DEF Init, Idle, PrunedIsOld, FreshIsTrackedUnlessRaced, Fresh
<1> QED BY <1>1, <1>2, <1>3, <1>4 DEF IInv

(* The hash goes on saying what its events say: it is advanced by an event *)
(* later than all of them, and dropped with them.                          *)
LEMMA SummaryKept ==
  ASSUME IInv, [Next]_vars
  PROVE  HashIsSummary'
<1>1. /\ HashIsSummary /\ stored \subseteq Sensors
      /\ firstSeen \in [Sensors -> Nat] /\ lastSeen \in [Sensors -> Nat]
      /\ onlineSince \in [Sensors -> Nat] /\ accepted \in [Sensors -> SUBSET Times]
      /\ \A k \in Scrapes : stale[k] \subseteq Sensors
  BY DEF IInv, TypeOK
<1>2. CASE UNCHANGED <<stored, firstSeen, lastSeen, onlineSince, accepted>>
  BY <1>1, <1>2 DEF HashIsSummary
<1>3. ASSUME NEW s \in Sensors, NEW t \in Times, Advance(s, t)
      PROVE  HashIsSummary'
  <2>1. \A r \in Sensors \ {s} :
          /\ r \in stored' <=> r \in stored
          /\ firstSeen'[r] = firstSeen[r] /\ lastSeen'[r] = lastSeen[r]
          /\ onlineSince'[r] = onlineSince[r] /\ accepted'[r] = accepted[r]
    BY <1>1, <1>3 DEF Advance
  <2>2. /\ s \in stored' /\ accepted'[s] = accepted[s] \cup {t}
        /\ firstSeen'[s] = IF s \in stored THEN firstSeen[s] ELSE t
        /\ lastSeen'[s] = t
        /\ onlineSince'[s] = Streak(s, t)
    BY <1>1, <1>3 DEF Advance
  <2>3. /\ accepted[s] \subseteq Times
        /\ s \in stored <=> accepted[s] # {}
        /\ s \in stored => /\ firstSeen[s] = Min(accepted[s]) /\ lastSeen[s] = Max(accepted[s])
                           /\ onlineSince[s] = StreakStart(accepted[s])
    BY <1>1 DEF HashIsSummary
  <2>4. accepted[s] # {} => t > Max(accepted[s])
    BY <1>3, <2>3 DEF Advance
  <2>5. firstSeen'[s] = Min(accepted'[s]) /\ lastSeen'[s] = Max(accepted'[s])
    BY <2>2, <2>3, <2>4, Added
  <2>6. onlineSince'[s] = StreakStart(accepted'[s])
    BY <2>2, <2>3, <2>4, StreakGrows DEF Streak
  <2>7. stored' \subseteq Sensors /\ accepted'[s] # {}
    BY <1>1, <1>3, <2>2 DEF Advance
  <2>8. \A r \in stored' : /\ accepted'[r] # {}
                           /\ firstSeen'[r] = Min(accepted'[r])
                           /\ lastSeen'[r] = Max(accepted'[r])
                           /\ onlineSince'[r] = StreakStart(accepted'[r])
    <3> TAKE r \in stored'
    <3>1. CASE r = s
      BY <2>5, <2>6, <2>7, <3>1
    <3>2. CASE r # s
      BY <1>1, <2>1, <2>7, <3>2 DEF HashIsSummary
    <3> QED BY <3>1, <3>2
  <2>9. \A r \in Sensors \ stored' : accepted'[r] = {}
    BY <1>1, <2>1, <2>2 DEF HashIsSummary
  <2> QED BY <2>8, <2>9 DEF HashIsSummary, StreakStart
<1>4. ASSUME NEW s \in Sensors, DropHash(s)
      PROVE  HashIsSummary'
  BY <1>1, <1>4 DEF HashIsSummary, DropHash
<1> QED BY <1>1, <1>2, <1>3, <1>4, RedisStep DEF RunScript, Ignore, redis, history


(* A hash never runs ahead of the newest time recorded, for an event sets  *)
(* both.                                                                   *)
LEMMA SeenKept ==
  ASSUME IInv, [Next]_vars
  PROVE  /\ SeenIsRecorded'
         /\ newest' \in [Sensors -> Nat]
         /\ raced \subseteq raced' /\ raced' \subseteq Sensors
<1>1. /\ SeenIsRecorded /\ stored \subseteq Sensors /\ raced \subseteq Sensors
      /\ lastSeen \in [Sensors -> Nat] /\ newest \in [Sensors -> Nat]
      /\ \A k \in Scrapes : stale[k] \subseteq Sensors
  BY DEF IInv, TypeOK
<1>2. CASE UNCHANGED <<stored, lastSeen, newest, raced>>
  BY <1>1, <1>2 DEF SeenIsRecorded
<1>3. ASSUME NEW s \in Sensors, NEW t \in Times, RunScript(s, t)
      PROVE  /\ SeenIsRecorded' /\ newest' \in [Sensors -> Nat]
             /\ raced \subseteq raced' /\ raced' \subseteq Sensors
  <2>1. t \in Nat
    BY TimesAreNat
  <2>2. newest' = [newest EXCEPT ![s] = IF t > @ THEN t ELSE @] /\ newest'[s] >= t
        /\ \A r \in Sensors : newest'[r] \in Nat /\ newest[r] <= newest'[r]
    BY <1>1, <1>3, <2>1 DEF RunScript
  <2>3. newest' \in [Sensors -> Nat] /\ raced \subseteq raced' /\ raced' \subseteq Sensors
    BY <1>1, <1>3, <2>1 DEF RunScript
  <2>4. CASE Advance(s, t)
    <3>1. \A r \in stored' : lastSeen'[r] <= newest'[r]
      <4> TAKE r \in stored'
      <4>1. CASE r = s
        BY <1>1, <2>2, <2>4, <4>1 DEF Advance
      <4>2. CASE r # s
        <5>1. r \in stored /\ r \in Sensors /\ lastSeen'[r] = lastSeen[r]
          BY <1>1, <2>4, <4>2 DEF Advance
        <5>2. lastSeen[r] <= newest[r] /\ newest[r] <= newest'[r]
          BY <1>1, <2>2, <5>1 DEF SeenIsRecorded
        <5>3. lastSeen[r] \in Nat /\ newest[r] \in Nat /\ newest'[r] \in Nat
          BY <1>1, <2>2, <5>1
        <5> QED BY <5>1, <5>2, <5>3
      <4> QED BY <4>1, <4>2
    <3> QED BY <2>3, <3>1 DEF SeenIsRecorded
  <2>5. CASE Ignore(s, t)
    <3>1. stored' = stored /\ lastSeen' = lastSeen
      BY <2>5 DEF Ignore
    <3>2. \A r \in stored : lastSeen[r] <= newest'[r]
      <4> TAKE r \in stored
      <4>1. lastSeen[r] <= newest[r] /\ newest[r] <= newest'[r] /\ r \in Sensors
        BY <1>1, <2>2 DEF SeenIsRecorded
      <4>2. lastSeen[r] \in Nat /\ newest[r] \in Nat /\ newest'[r] \in Nat
        BY <1>1, <2>2, <4>1
      <4> QED BY <4>1, <4>2
    <3> QED BY <2>3, <3>1, <3>2 DEF SeenIsRecorded
  <2> QED BY <1>3, <2>4, <2>5 DEF RunScript
<1>4. ASSUME NEW s \in Sensors, DropHash(s), UNCHANGED <<newest, raced>>
      PROVE  SeenIsRecorded'
  BY <1>1, <1>4 DEF SeenIsRecorded, DropHash
<1> QED BY <1>1, <1>2, <1>3, <1>4, RedisStep DEF redis, history

(* A sensor that is heard within the retention window stays tracked, and   *)
(* none that is not raced is pruned.                                       *)
LEMMA FreshKept ==
  ASSUME IInv, [Next]_vars
  PROVE  FreshIsTrackedUnlessRaced' /\ PrunedIsOld'
<1>1. /\ now \in Nat /\ now' \in Nat /\ now <= now' /\ RetentionWindow \in Nat
      /\ stored \subseteq Sensors
      /\ lastSeen \in [Sensors -> Nat] /\ newest \in [Sensors -> Nat] /\ newest' \in [Sensors -> Nat]
      /\ startedAt \in [Scrapes -> Nat]
      /\ \A k \in Scrapes : startedAt[k] <= now
      /\ \A k \in Scrapes : stale[k] \subseteq Sensors
  BY SeenKept, ScrapeStep, HeartbeatAssumption DEF IInv, TypeOK, ScrapeOrder
<1>2. /\ \A s \in Sensors \ raced : Fresh(s) => Tracked(s)
      /\ \A k \in Scrapes : \A s \in stale[k] \ raced : ~Fresh(s)
      /\ \A s \in stored : lastSeen[s] <= newest[s]
  BY DEF IInv, FreshIsTrackedUnlessRaced, PrunedIsOld, SeenIsRecorded
<1>3. \A s \in Sensors : newest'[s] = newest[s] /\ Fresh(s)' => Fresh(s)
  BY <1>1 DEF Fresh
<1>4. ASSUME NEW s \in Sensors, NEW t \in Times, RunScript(s, t), s \notin raced', Fresh(s)'
      PROVE  Tracked(s)'
  <2>1. t \in Nat /\ t # 0 /\ s \notin raced
    BY <1>4, TimesAreNat, HeartbeatAssumption, SeenKept DEF Times
  <2>2. s \in sensors' /\ newest'[s] = IF t > newest[s] THEN t ELSE newest[s]
    BY <1>1, <1>4 DEF RunScript
  <2>3. CASE Advance(s, t)
    <3>1. s \in stored' /\ lastSeen'[s] = t /\ (s \in stored => t > lastSeen[s])
      BY <1>1, <2>3 DEF Advance
    <3>2. newest'[s] = t
      <4>1. CASE t > newest[s]
        BY <2>2, <4>1
      <4>2. CASE ~ (t > newest[s])
        <5>1. Fresh(s)
          BY <1>3, <1>4, <2>2, <4>2
        <5>2. s \in stored /\ lastSeen[s] = newest[s]
          BY <1>2, <2>1, <5>1 DEF Tracked
        <5> QED BY <3>1, <4>2, <5>2
      <4> QED BY <4>1, <4>2
    <3> QED BY <2>2, <3>1, <3>2 DEF Tracked
  <2>4. CASE Ignore(s, t)
    <3>1. s \in stored /\ s \in stored' /\ lastSeen'[s] = lastSeen[s] /\ t <= lastSeen[s]
      BY <2>4 DEF Ignore
    <3>2. ~ (t > newest[s])
      BY <1>1, <1>2, <2>1, <3>1
    <3>3. Fresh(s) /\ newest'[s] = newest[s]
      BY <1>3, <1>4, <2>2, <3>2
    <3> QED BY <1>2, <2>1, <2>2, <3>1, <3>3 DEF Tracked
  <2> QED BY <1>4, <2>3, <2>4 DEF RunScript
<1>5. ASSUME NEW r \in Sensors, r \notin raced', Fresh(r)'
      PROVE  Tracked(r)'
  <2>1. r \notin raced
    BY <1>5, SeenKept
  <2>2. CASE UNCHANGED <<redis, history>>
    <3>1. Tracked(r) /\ UNCHANGED <<sensors, stored, lastSeen, newest>>
      BY <1>2, <1>3, <1>5, <2>1, <2>2 DEF redis, history
    <3> QED BY <3>1 DEF Tracked
  <2>3. ASSUME NEW s \in Sensors, NEW t \in Times, RunScript(s, t), r # s
        PROVE  Tracked(r)'
    <3>1. newest'[r] = newest[r] /\ (r \in sensors => r \in sensors') /\ (r \in stored => r \in stored')
          /\ lastSeen'[r] = lastSeen[r]
      BY <1>1, <2>3 DEF RunScript, Advance, Ignore
    <3> QED BY <1>2, <1>3, <1>5, <2>1, <3>1 DEF Tracked
  <2>4. ASSUME NEW k \in Scrapes, NEW s \in stale[k], newest' = newest
        PROVE  r # s
    BY <1>2, <1>3, <1>5, <2>1, <2>4
  <2>5. ASSUME NEW k \in Scrapes, NEW s \in stale[k],
               sensors' = sensors \ {s}, UNCHANGED <<stored, firstSeen, lastSeen, onlineSince, history>>
        PROVE  Tracked(r)'
    <3>1. newest' = newest /\ UNCHANGED <<stored, lastSeen>>
      BY <2>5 DEF history
    <3> QED BY <1>2, <1>3, <1>5, <2>1, <2>4, <2>5, <3>1 DEF Tracked
  <2>6. ASSUME NEW k \in Scrapes, NEW s \in stale[k], DropHash(s), UNCHANGED <<sensors, newest, raced>>
        PROVE  Tracked(r)'
    <3>1. r # s
      BY <2>4, <2>6
    <3>2. (r \in stored => r \in stored') /\ lastSeen'[r] = lastSeen[r]
      BY <1>1, <2>6, <3>1 DEF DropHash
    <3> QED BY <1>2, <1>3, <1>5, <2>1, <2>6, <3>2 DEF Tracked
  <2> QED BY <1>4, <1>5, <2>2, <2>3, <2>5, <2>6, RedisStep
<1>6. ASSUME NEW k \in Scrapes, NEW s \in stale'[k], s \notin raced'
      PROVE  ~Fresh(s)'
  <2>1. s \notin raced
    BY <1>6, SeenKept
  <2>2. CASE s \in stale[k]
    <3>1. s \in Sensors
      BY <1>1, <2>2
    <3>2. newest'[s] = newest[s]
      <4>1. ASSUME NEW r \in Sensors, NEW t \in Times, RunScript(r, t)
            PROVE  r # s
        BY <1>6, <2>2, <4>1 DEF RunScript
      <4>2. \A r \in Sensors, t \in Times : RunScript(r, t) => newest'[s] = newest[s]
        BY <1>1, <3>1, <4>1 DEF RunScript
      <4> QED BY <4>2, RedisStep DEF history
    <3> QED BY <1>2, <1>3, <2>1, <2>2, <3>1, <3>2
  <2>3. CASE s \notin stale[k]
    <3>1. ReadHeartbeat(k, s) /\ s \in stored /\ startedAt[k] - lastSeen[s] > RetentionWindow
      BY <1>6, <2>3, ScrapeStep
    <3>2. s \in Sensors /\ newest' = newest
      BY <1>1, <3>1 DEF ReadHeartbeat, history
    <3>3. Fresh(s) => lastSeen[s] = newest[s]
      BY <1>2, <2>1, <3>2 DEF Tracked
    <3>4. ~Fresh(s)
      BY <1>1, <3>1, <3>2, <3>3 DEF Fresh
    <3> QED BY <1>3, <3>2, <3>4
  <2> QED BY <2>2, <2>3
<1> QED BY <1>5, <1>6 DEF FreshIsTrackedUnlessRaced, PrunedIsOld


(* A scrape knows of stale sensors only once it has begun to read them.    *)
LEMMA ScrapeOrderKept ==
  ASSUME IInv, [Next]_vars
  PROVE  ScrapeOrder'
<1>1. /\ now \in Nat /\ now' \in Nat /\ now <= now'
      /\ scraping \in [Scrapes -> {"idle", "members", "read"}]
      /\ startedAt \in [Scrapes -> Nat]
      /\ unread \in [Scrapes -> SUBSET Sensors] /\ stale \in [Scrapes -> SUBSET Sensors]
      /\ removed \in [Scrapes -> SUBSET Sensors]
      /\ \A k \in Scrapes : removed[k] \subseteq stale[k]
  BY ScrapeStep DEF IInv, TypeOK
<1>2. \A k \in Scrapes : /\ startedAt[k] \in Nat /\ startedAt[k] <= now /\ startedAt[k] <= now'
                         /\ scraping[k] # "read" => unread[k] = {} /\ stale[k] = {}
                         /\ unread[k] # {} => removed[k] = {}
  <2> TAKE k \in Scrapes
  <2>1. /\ startedAt[k] <= now
        /\ scraping[k] # "read" => unread[k] = {} /\ stale[k] = {}
        /\ unread[k] # {} => removed[k] = {}
    BY DEF IInv, ScrapeOrder
  <2>2. startedAt[k] \in Nat
    BY <1>1
  <2> QED BY <1>1, <2>1, <2>2
<1>3. CASE UNCHANGED scrape
  BY <1>1, <1>2, <1>3 DEF ScrapeOrder, scrape
<1>4. CASE ProcessLost
  BY <1>1, <1>4 DEF ProcessLost, ScrapeOrder
<1>5. CASE Tick \/ (\E s \in Sensors, t \in Times : Take(s, t) \/ RecordElsewhere(s, t)) \/ RecordAuthorizedSensor
  BY <1>3, <1>5 DEF Tick, Take, RecordElsewhere, RecordAuthorizedSensor
<1>6. CASE RecordFails \/ Stop \/ CloseRedis \/ Exit \/ Crash \/ Restart
  BY <1>3, <1>4, <1>6 DEF RecordFails, Stop, CloseRedis, Exit, Crash, Restart
<1>7. CASE \E k \in Scrapes : StartScrape(k) \/ ReadMembers(k) \/ EndScrape(k)
  <2>1. PICK k \in Scrapes : StartScrape(k) \/ ReadMembers(k) \/ EndScrape(k)
    BY <1>7
  <2>2. CASE StartScrape(k)
    BY <1>1, <1>2, <2>2 DEF StartScrape, ScrapeOrder
  <2>3. CASE ReadMembers(k)
    BY <1>1, <1>2, <2>3 DEF ReadMembers, ScrapeOrder
  <2>4. CASE EndScrape(k)
    BY <1>1, <1>2, <2>4 DEF EndScrape, Pruning, ScrapeOrder
  <2> QED BY <2>1, <2>2, <2>3, <2>4
<1>8. CASE \E k \in Scrapes : ReadFails(k)
  <2>1. PICK k \in Scrapes : ReadFails(k)
    BY <1>8
  <2> QED BY <1>1, <1>2, <2>1 DEF ReadFails, ScrapeOrder
<1>9. CASE \E k \in Scrapes, s \in Sensors : ReadHeartbeat(k, s)
  <2>1. PICK k \in Scrapes, s \in Sensors : ReadHeartbeat(k, s)
    BY <1>9
  <2>2. \A j \in Scrapes \ {k} : unread'[j] = unread[j] /\ stale'[j] = stale[j]
    BY <1>1, <2>1 DEF ReadHeartbeat
  <2>3. scraping[k] = "read" /\ removed[k] = {} /\ UNCHANGED <<scraping, startedAt, removed>>
    BY <1>2, <2>1 DEF ReadHeartbeat
  <2> QED BY <1>2, <2>2, <2>3 DEF ScrapeOrder
<1>10. CASE \E k \in Scrapes, s \in Sensors : RemoveMember(k, s)
  <2>1. PICK k \in Scrapes, s \in Sensors : RemoveMember(k, s)
    BY <1>10
  <2> QED BY <1>1, <1>2, <2>1 DEF RemoveMember, Pruning, ScrapeOrder
<1>11. CASE \E k \in Scrapes, s \in Sensors : DeleteHeartbeat(k, s) \/ PruneFails(k, s)
  <2>1. PICK k \in Scrapes, s \in Sensors : Pruning(k) /\ Done(k, s) /\ now' = now
    BY <1>11 DEF DeleteHeartbeat, PruneFails
  <2> QED BY <1>1, <1>2, <2>1 DEF Pruning, Done, ScrapeOrder
<1>12. CASE UNCHANGED vars
  BY <1>3, <1>12 DEF vars, scrape
<1> QED BY <1>5, <1>6, <1>7, <1>8, <1>9, <1>10, <1>11, <1>12 DEF Next

(* The client is not closed under the message being handled.               *)
LEMMA HandledKept ==
  ASSUME IInv, [Next]_vars
  PROVE  HandledOnline'
<1>1. HandledOnline
  BY DEF IInv
<1>2. CASE UNCHANGED <<handling, phase>>
  BY <1>1, <1>2 DEF HandledOnline, Connected
<1>3. CASE handling' = << >>
  BY <1>3 DEF HandledOnline
<1>4. CASE Tick \/ \E s \in Sensors, t \in Times : RecordElsewhere(s, t)
  BY <1>2, <1>4 DEF Tick, RecordElsewhere
<1>5. CASE \E s \in Sensors, t \in Times : Take(s, t)
  BY <1>5 DEF Take, HandledOnline, Connected
<1>6. CASE RecordAuthorizedSensor \/ RecordFails \/ CloseRedis \/ Exit \/ Crash
  BY <1>3, <1>6 DEF RecordAuthorizedSensor, RecordFails, CloseRedis, Exit, Crash, ProcessLost
<1>7. CASE Stop \/ Restart
  BY <1>1, <1>7 DEF Stop, Restart, HandledOnline, Connected
<1>8. CASE \E k \in Scrapes : StartScrape(k) \/ ReadMembers(k) \/ EndScrape(k) \/ ReadFails(k)
  BY <1>2, <1>8 DEF StartScrape, ReadMembers, EndScrape, ReadFails
<1>9. CASE \E k \in Scrapes, s \in Sensors :
             ReadHeartbeat(k, s) \/ RemoveMember(k, s) \/ DeleteHeartbeat(k, s) \/ PruneFails(k, s)
  BY <1>2, <1>9 DEF ReadHeartbeat, RemoveMember, DeleteHeartbeat, PruneFails
<1>10. CASE UNCHANGED vars
  BY <1>2, <1>10 DEF vars
<1> QED BY <1>4, <1>5, <1>6, <1>7, <1>8, <1>9, <1>10 DEF Next

(* Every variable keeps its type.                                          *)
LEMMA TypeKept ==
  ASSUME IInv, [Next]_vars
  PROVE  TypeOK'
<1> DEFINE Hash  == /\ sensors \subseteq Sensors /\ stored \subseteq Sensors
                    /\ firstSeen \in [Sensors -> Nat] /\ lastSeen \in [Sensors -> Nat]
                    /\ onlineSince \in [Sensors -> Nat] /\ accepted \in [Sensors -> SUBSET Times]
           Scrape == /\ scraping \in [Scrapes -> {"idle", "members", "read"}]
                     /\ startedAt \in [Scrapes -> Nat]
                     /\ unread \in [Scrapes -> SUBSET Sensors]
                     /\ stale \in [Scrapes -> SUBSET Sensors]
                     /\ removed \in [Scrapes -> SUBSET Sensors]
                     /\ \A k \in Scrapes : removed[k] \subseteq stale[k]
           Rest   == /\ handling \in (Sensors \X Times) \cup {<< >>}
                     /\ phase \in Phases /\ faults \in Nat
<1>1. Hash /\ Scrape /\ Rest /\ now \in Nat /\ newest \in [Sensors -> Nat] /\ raced \subseteq Sensors
  BY DEF IInv, TypeOK
<1>2. Hash'
  <2>1. CASE UNCHANGED <<redis, history>>
    BY <1>1, <2>1 DEF redis, history
  <2>2. ASSUME NEW s \in Sensors, NEW t \in Times, RunScript(s, t)
        PROVE  Hash'
    <3>1. t \in Nat /\ Streak(s, t) \in Nat
      BY <1>1, TimesAreNat DEF Streak
    <3>2. CASE Advance(s, t)
      BY <1>1, <2>2, <3>1, <3>2 DEF RunScript, Advance
    <3>3. CASE Ignore(s, t)
      BY <1>1, <2>2, <3>3 DEF RunScript, Ignore
    <3> QED BY <2>2, <3>2, <3>3 DEF RunScript
  <2>3. ASSUME NEW s \in Sensors, sensors' = sensors \ {s},
               UNCHANGED <<stored, firstSeen, lastSeen, onlineSince, history>>
        PROVE  Hash'
    BY <1>1, <2>3 DEF history
  <2>4. ASSUME NEW s \in Sensors, DropHash(s), UNCHANGED sensors
        PROVE  Hash'
    BY <1>1, <2>4 DEF DropHash
  <2> QED BY <1>1, <2>1, <2>2, <2>3, <2>4, RedisStep
<1>3. Scrape'
  <2>1. CASE UNCHANGED scrape
    BY <1>1, <2>1 DEF scrape
  <2>2. CASE ProcessLost
    BY <2>2 DEF ProcessLost
  <2>3. CASE Tick \/ (\E s \in Sensors, t \in Times : Take(s, t) \/ RecordElsewhere(s, t)) \/ RecordAuthorizedSensor
    BY <2>1, <2>3 DEF Tick, Take, RecordElsewhere, RecordAuthorizedSensor
  <2>4. CASE RecordFails \/ Stop \/ CloseRedis \/ Exit \/ Crash \/ Restart
    BY <2>1, <2>2, <2>4 DEF RecordFails, Stop, CloseRedis, Exit, Crash, Restart
  <2>5. CASE \E k \in Scrapes : StartScrape(k) \/ ReadMembers(k) \/ EndScrape(k)
    <3>1. PICK k \in Scrapes : StartScrape(k) \/ ReadMembers(k) \/ EndScrape(k)
      BY <2>5
    <3>2. CASE StartScrape(k)
      BY <1>1, <3>2 DEF StartScrape
    <3>3. CASE ReadMembers(k)
      BY <1>1, <3>3 DEF ReadMembers
    <3>4. CASE EndScrape(k)
      BY <1>1, <3>4 DEF EndScrape
    <3> QED BY <3>1, <3>2, <3>3, <3>4
  <2>6. CASE \E k \in Scrapes : ReadFails(k)
    <3>1. PICK k \in Scrapes : ReadFails(k)
      BY <2>6
    <3>2. removed[k] = {} /\ removed' = removed
      BY <1>1, <3>1 DEF ReadFails, IInv, ScrapeOrder
    <3> QED BY <1>1, <3>1, <3>2 DEF ReadFails
  <2>7. CASE \E k \in Scrapes, s \in Sensors : ReadHeartbeat(k, s)
    BY <1>1, <2>7 DEF ReadHeartbeat
  <2>8. CASE \E k \in Scrapes, s \in Sensors : RemoveMember(k, s)
    BY <1>1, <2>8 DEF RemoveMember
  <2>9. CASE \E k \in Scrapes, s \in Sensors : DeleteHeartbeat(k, s) \/ PruneFails(k, s)
    <3>1. PICK k \in Scrapes, s \in Sensors : Done(k, s)
      BY <2>9 DEF DeleteHeartbeat, PruneFails
    <3> QED BY <1>1, <3>1 DEF Done
  <2>10. CASE UNCHANGED vars
    BY <2>1, <2>10 DEF vars, scrape
  <2> QED BY <2>3, <2>4, <2>5, <2>6, <2>7, <2>8, <2>9, <2>10 DEF Next
<1>4. Rest'
  <2>1. CASE UNCHANGED <<handling, phase>> /\ faults' \in Nat
    BY <1>1, <2>1
  <2>2. CASE Tick \/ Stop \/ CloseRedis \/ Exit \/ Crash \/ Restart \/ RecordAuthorizedSensor
    BY <1>1, <2>2 DEF Tick, Stop, CloseRedis, Exit, Crash, Restart, RecordAuthorizedSensor, ProcessLost, Phases
  <2>3. CASE \E s \in Sensors, t \in Times : Take(s, t) \/ RecordElsewhere(s, t)
    BY <1>1, <2>3 DEF Take, RecordElsewhere
  <2>4. CASE RecordFails
    BY <1>1, <2>4 DEF RecordFails, Fails, ProcessLost, Phases
  <2>5. CASE \E k \in Scrapes : StartScrape(k) \/ ReadMembers(k) \/ EndScrape(k) \/ ReadFails(k)
    BY <1>1, <2>1, <2>5 DEF StartScrape, ReadMembers, EndScrape, ReadFails, Fails
  <2>6. CASE \E k \in Scrapes, s \in Sensors :
               ReadHeartbeat(k, s) \/ RemoveMember(k, s) \/ DeleteHeartbeat(k, s) \/ PruneFails(k, s)
    BY <1>1, <2>1, <2>6 DEF ReadHeartbeat, RemoveMember, DeleteHeartbeat, PruneFails, Fails
  <2>7. CASE UNCHANGED vars
    BY <1>1, <2>1, <2>7 DEF vars
  <2> QED BY <2>2, <2>3, <2>4, <2>5, <2>6, <2>7 DEF Next
<1> QED BY <1>2, <1>3, <1>4, ScrapeStep, SeenKept DEF TypeOK

-----------------------------------------------------------------------------
(* The inductive invariant: what a scrape in progress still knows is never *)
(* used against a sensor that was not recorded meanwhile.                  *)
THEOREM Invariant == Spec => []IInv
<1>1. Init => IInv
  BY Initially
<1>2. IInv /\ [Next]_vars => IInv'
  BY TypeKept, ScrapeOrderKept, SummaryKept, SeenKept, FreshKept, HandledKept DEF IInv
<1> QED BY <1>1, <1>2, PTL DEF Spec

(* Every variable has its type.                                            *)
THEOREM TypeCorrect == Spec => []TypeOK
<1>1. IInv => TypeOK
  BY DEF IInv
<1> QED BY <1>1, Invariant, PTL

(* The hash of a sensor is the summary of the events that advanced it: the *)
(* first, the latest, and the start of the last streak, whatever order     *)
(* they come in, however often, from however many instances.               *)
THEOREM HashSummarizes == Spec => []HashIsSummary
<1>1. IInv => HashIsSummary
  BY DEF IInv
<1> QED BY <1>1, Invariant, PTL

(* A sensor heard within the retention window is tracked, unless it was    *)
(* recorded while a scrape was on its way to prune it.                     *)
THEOREM FreshStaysTracked == Spec => []FreshIsTrackedUnlessRaced
<1>1. IInv => FreshIsTrackedUnlessRaced
  BY DEF IInv
<1> QED BY <1>1, Invariant, PTL

(* A message that was taken is recorded before it is let go, unless a      *)
(* command fails or the process dies.                                      *)
THEOREM NoTakenDropped == Spec => TakenIsRecorded
<1>1. ASSUME IInv, Next, handling # << >>, handling' = << >>, faults' = faults
      PROVE  newest'[handling[1]] >= handling[2]
  <2>1. /\ handling[1] \in Sensors /\ handling[2] \in Times /\ handling[2] \in Nat
        /\ Connected /\ faults \in Nat /\ newest \in [Sensors -> Nat]
    BY <1>1, TimesAreNat DEF IInv, TypeOK, HandledOnline
  <2>2. RecordAuthorizedSensor
    <3>1. ~ RecordFails /\ ~ Crash /\ ~ Exit /\ ~ CloseRedis
      BY <1>1, <2>1 DEF RecordFails, Fails, Crash, Exit, CloseRedis, Connected
    <3>2. ~ Tick /\ ~ Stop /\ ~ Restart
      BY <1>1 DEF Tick, Stop, Restart
    <3>3. \A s \in Sensors, t \in Times : ~ Take(s, t) /\ ~ RecordElsewhere(s, t)
      BY <1>1 DEF Take, RecordElsewhere
    <3>4. \A k \in Scrapes : ~ StartScrape(k) /\ ~ ReadMembers(k) /\ ~ EndScrape(k) /\ ~ ReadFails(k)
      BY <1>1 DEF StartScrape, ReadMembers, EndScrape, ReadFails
    <3>5. \A k \in Scrapes, s \in Sensors : /\ ~ ReadHeartbeat(k, s) /\ ~ RemoveMember(k, s)
                                            /\ ~ DeleteHeartbeat(k, s) /\ ~ PruneFails(k, s)
      BY <1>1 DEF ReadHeartbeat, RemoveMember, DeleteHeartbeat, PruneFails
    <3> QED BY <1>1, <3>1, <3>2, <3>3, <3>4, <3>5 DEF Next
  <2> QED BY <2>1, <2>2 DEF RecordAuthorizedSensor, RunScript
<1>2. IInv /\ [Next]_vars =>
        [(handling # << >> /\ handling' = << >> /\ faults' = faults)
           => newest'[handling[1]] >= handling[2]]_vars
  BY <1>1
<1> QED BY <1>2, Invariant, PTL DEF Spec, TakenIsRecorded

=============================================================================
