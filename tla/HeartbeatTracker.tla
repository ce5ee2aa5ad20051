---------------------------- MODULE HeartbeatTracker ----------------------------
(***************************************************************************)
(* The heartbeat tracker: a consumer of telemetry.authorized.v1 records    *)
(* when each sensor was last seen in Redis, with a script that Redis runs  *)
(* atomically; each request for /metrics reads the sensors back, command   *)
(* by command, and prunes the ones that are stale.                         *)
(*                                                                         *)
(* Offsets are committed automatically and Redis holds all state, so the   *)
(* log is not modelled: an event of any time may be consumed at any time,  *)
(* which covers replays, redeliveries and events out of order.             *)
(***************************************************************************)
EXTENDS Integers, FiniteSetsExt

CONSTANTS
  Sensors,
  Scrapes,         (* requests for /metrics that may be in progress at once *)
  OnlineWindow,    (* HEARTBEAT_TRACKER_ONLINE_WINDOW_MS                   *)
  RetentionWindow, (* HEARTBEAT_TRACKER_RETENTION_WINDOW_MS                *)
  MaxTime,         (* bound: the time, and the times of events             *)
  MaxFaults        (* bound: failed commands and crashes                   *)

ASSUME HeartbeatAssumption ==
  /\ OnlineWindow \in Nat /\ RetentionWindow \in Nat
  /\ MaxTime \in Nat /\ MaxFaults \in Nat

VARIABLES
  now,         (* Date.now()                                               *)
  sensors,     (* the set <prefix>:sensors                                 *)
  stored,      (* the sensors that have a hash <prefix>:sensor:<id>        *)
  firstSeen,   (* the fields of their hashes, 0 without one                *)
  lastSeen,
  onlineSince,
  handling,    (* the event in handleTelemetryMessage, << >> if none       *)
  scraping,    (* scraping[k]: where createMetrics is                      *)
  startedAt,   (* startedAt[k]: its currentTime                            *)
  unread,      (* unread[k]: members whose hash it has not read yet        *)
  stale,       (* stale[k]: its staleSensorIds not yet dealt with          *)
  removed,     (* removed[k]: those among them it has removed from the set *)
  phase,       (* what the process as a whole is doing                     *)
  faults,      (* failed commands and crashes so far                       *)
  accepted,    (* history: accepted[s], times that advanced its hash       *)
  newest,      (* history: newest[s], the latest time recorded, 0 if none  *)
  raced        (* history: sensors recorded while a scrape was pruning them *)

redis   == <<sensors, stored, firstSeen, lastSeen, onlineSince>>
scrape  == <<scraping, startedAt, unread, stale, removed>>
history == <<accepted, newest, raced>>
vars    == <<now, sensors, stored, firstSeen, lastSeen, onlineSince, handling,
             scraping, startedAt, unread, stale, removed, phase, faults,
             accepted, newest, raced>>

Times  == 1..MaxTime
Phases == {"running", "stopping", "closed", "down"}

Idle == /\ scraping = [k \in Scrapes |-> "idle"]
        /\ startedAt = [k \in Scrapes |-> 0]
        /\ unread = [k \in Scrapes |-> {}]
        /\ stale = [k \in Scrapes |-> {}]
        /\ removed = [k \in Scrapes |-> {}]

Init ==
  /\ now = 1
  /\ sensors = {} /\ stored = {}
  /\ firstSeen = [s \in Sensors |-> 0]
  /\ lastSeen = [s \in Sensors |-> 0]
  /\ onlineSince = [s \in Sensors |-> 0]
  /\ handling = << >>
  /\ Idle
  /\ phase = "running"
  /\ faults = 0
  /\ accepted = [s \in Sensors |-> {}]
  /\ newest = [s \in Sensors |-> 0]
  /\ raced = {}

Tick ==
  /\ now < MaxTime
  /\ now' = now + 1
  /\ UNCHANGED <<redis, handling, scrape, phase, faults, history>>

-----------------------------------------------------------------------------
(* Mutant of Streak: a gap of exactly the online window ends the streak.   *)
StreakStrict(s, t) ==
  IF s \in stored /\ t - lastSeen[s] < OnlineWindow THEN onlineSince[s] ELSE t

(* HEARTBEAT_CAS_SCRIPT for an event of sensor s at time t.                *)
Streak(s, t) ==
  IF s \in stored /\ t - lastSeen[s] <= OnlineWindow THEN onlineSince[s] ELSE t

Advance(s, t) ==
  /\ s \in stored => t > lastSeen[s]
  /\ stored' = stored \cup {s}
  /\ firstSeen' = [firstSeen EXCEPT ![s] = IF s \in stored THEN @ ELSE t]
  /\ lastSeen' = [lastSeen EXCEPT ![s] = t]
  /\ onlineSince' = [onlineSince EXCEPT ![s] = Streak(s, t)]
  /\ accepted' = [accepted EXCEPT ![s] = @ \cup {t}]

Ignore(s, t) ==
  /\ s \in stored /\ t <= lastSeen[s]
  /\ UNCHANGED <<stored, firstSeen, lastSeen, onlineSince, accepted>>

RunScript(s, t) ==
  /\ sensors' = sensors \cup {s}
  /\ Advance(s, t) \/ Ignore(s, t)
  /\ newest' = [newest EXCEPT ![s] = IF t > @ THEN t ELSE @]
  /\ raced' = raced \cup {u \in {s} : \E k \in Scrapes : u \in stale[k]}

(* The Redis client of the process is open.                                *)
Connected == phase \in {"running", "stopping"}

(* A message that is an authorized event with a valid occurred_at; others  *)
(* leave no trace.                                                         *)
Take(s, t) ==
  /\ phase = "running" /\ handling = << >>
  /\ handling' = <<s, t>>
  /\ UNCHANGED <<now, redis, scrape, phase, faults, history>>

RecordAuthorizedSensor ==
  /\ handling # << >> /\ Connected
  /\ RunScript(handling[1], handling[2])
  /\ handling' = << >>
  /\ UNCHANGED <<now, scrape, phase, faults>>

(* Another instance of the consumer group shares the Redis.                *)
RecordElsewhere(s, t) ==
  /\ RunScript(s, t)
  /\ UNCHANGED <<now, handling, scrape, phase, faults>>

-----------------------------------------------------------------------------
(* createMetrics(): SMEMBERS, the HGETALLs, then SREM and DEL per stale    *)
(* sensor, one action per command.                                         *)
StartScrape(k) ==
  /\ scraping[k] = "idle" /\ Connected
  /\ scraping' = [scraping EXCEPT ![k] = "members"]
  /\ startedAt' = [startedAt EXCEPT ![k] = now]
  /\ UNCHANGED <<now, redis, handling, unread, stale, removed, phase, faults, history>>

ReadMembers(k) ==
  /\ scraping[k] = "members" /\ Connected
  /\ scraping' = [scraping EXCEPT ![k] = "read"]
  /\ unread' = [unread EXCEPT ![k] = sensors]
  /\ UNCHANGED <<now, redis, handling, startedAt, stale, removed, phase, faults, history>>

(* Mutant of ReadHeartbeat: sensors that are offline are pruned.           *)
ReadHeartbeatOffline(k, s) ==
  /\ s \in unread[k] /\ Connected
  /\ unread' = [unread EXCEPT ![k] = @ \ {s}]
  /\ stale' = [stale EXCEPT ![k] =
       IF s \in stored /\ startedAt[k] - lastSeen[s] > OnlineWindow THEN @ \cup {s} ELSE @]
  /\ UNCHANGED <<now, redis, handling, scraping, startedAt, removed, phase, faults, history>>

ReadHeartbeat(k, s) ==
  /\ s \in unread[k] /\ Connected
  /\ unread' = [unread EXCEPT ![k] = @ \ {s}]
  /\ stale' = [stale EXCEPT ![k] =
       IF s \in stored /\ startedAt[k] - lastSeen[s] > RetentionWindow THEN @ \cup {s} ELSE @]
  /\ UNCHANGED <<now, redis, handling, scraping, startedAt, removed, phase, faults, history>>

Pruning(k) == scraping[k] = "read" /\ unread[k] = {}

RemoveMember(k, s) ==
  /\ Pruning(k) /\ s \in stale[k] \ removed[k] /\ Connected
  /\ sensors' = sensors \ {s}
  /\ removed' = [removed EXCEPT ![k] = @ \cup {s}]
  /\ UNCHANGED <<now, stored, firstSeen, lastSeen, onlineSince, handling, scraping,
                 startedAt, unread, stale, phase, faults, history>>

DropHash(s) ==
  /\ stored' = stored \ {s}
  /\ firstSeen' = [firstSeen EXCEPT ![s] = 0]
  /\ lastSeen' = [lastSeen EXCEPT ![s] = 0]
  /\ onlineSince' = [onlineSince EXCEPT ![s] = 0]
  /\ accepted' = [accepted EXCEPT ![s] = {}]

(* Mutant of Done: what was removed is not forgotten.                      *)
DoneKeepingRemoved(k, s) ==
  /\ stale' = [stale EXCEPT ![k] = @ \ {s}]
  /\ UNCHANGED <<removed, scraping, startedAt, unread>>

Done(k, s) ==
  /\ stale' = [stale EXCEPT ![k] = @ \ {s}]
  /\ removed' = [removed EXCEPT ![k] = @ \ {s}]
  /\ UNCHANGED <<scraping, startedAt, unread>>

DeleteHeartbeat(k, s) ==
  /\ Pruning(k) /\ s \in removed[k] /\ Connected
  /\ DropHash(s)
  /\ Done(k, s)
  /\ UNCHANGED <<now, sensors, handling, phase, faults, newest, raced>>

EndScrape(k) ==
  /\ Pruning(k) /\ stale[k] = {}
  /\ scraping' = [scraping EXCEPT ![k] = "idle"]
  /\ startedAt' = [startedAt EXCEPT ![k] = 0]
  /\ UNCHANGED <<now, redis, handling, unread, stale, removed, phase, faults, history>>

-----------------------------------------------------------------------------
(* Commands fail, also when stop() has closed the client.  A write may     *)
(* have been executed although it failed.                                  *)
Fails == IF Connected THEN faults < MaxFaults /\ faults' = faults + 1 ELSE UNCHANGED faults

ReadFails(k) ==
  /\ scraping[k] = "members" \/ unread[k] # {}
  /\ Fails
  /\ scraping' = [scraping EXCEPT ![k] = "idle"]
  /\ startedAt' = [startedAt EXCEPT ![k] = 0]
  /\ unread' = [unread EXCEPT ![k] = {}]
  /\ stale' = [stale EXCEPT ![k] = {}]
  /\ UNCHANGED <<now, redis, handling, removed, phase, history>>

(* Promise.all() rejects, but the other sensors are pruned all the same.   *)
PruneFails(k, s) ==
  /\ Pruning(k) /\ s \in stale[k]
  /\ Fails
  /\ Done(k, s)
  /\ \/ UNCHANGED <<redis, accepted>>
     \/ /\ Connected /\ s \notin removed[k]
        /\ sensors' = sensors \ {s}
        /\ UNCHANGED <<stored, firstSeen, lastSeen, onlineSince, accepted>>
     \/ /\ Connected /\ s \in removed[k]
        /\ DropHash(s)
        /\ UNCHANGED sensors
  /\ UNCHANGED <<now, handling, phase, newest, raced>>

ProcessLost ==
  /\ phase' = "down"
  /\ handling' = << >>
  /\ scraping' = [k \in Scrapes |-> "idle"]
  /\ startedAt' = [k \in Scrapes |-> 0]
  /\ unread' = [k \in Scrapes |-> {}]
  /\ stale' = [k \in Scrapes |-> {}]
  /\ removed' = [k \in Scrapes |-> {}]

(* Nobody handles the rejection of the run promise, unless stop() does.    *)
RecordFails ==
  /\ handling # << >>
  /\ Fails
  /\ \/ UNCHANGED <<redis, history>>
     \/ Connected /\ RunScript(handling[1], handling[2])
  /\ \/ ProcessLost
     \/ phase # "running" /\ handling' = << >> /\ UNCHANGED <<scrape, phase>>
  /\ UNCHANGED now

(* stop(): closes the consumer, waits for the message being handled, then  *)
(* closes Redis, then the server, which waits for its requests.            *)
Stop ==
  /\ phase = "running"
  /\ phase' = "stopping"
  /\ UNCHANGED <<now, redis, handling, scrape, faults, history>>

(* Mutant of CloseRedis: the message being handled is not awaited.         *)
CloseRedisAtOnce ==
  /\ phase = "stopping"
  /\ phase' = "closed"
  /\ UNCHANGED <<now, redis, handling, scrape, faults, history>>

CloseRedis ==
  /\ phase = "stopping" /\ handling = << >>
  /\ phase' = "closed"
  /\ UNCHANGED <<now, redis, handling, scrape, faults, history>>

Exit ==
  /\ phase = "closed" /\ \A k \in Scrapes : scraping[k] = "idle"
  /\ ProcessLost
  /\ UNCHANGED <<now, redis, faults, history>>

Crash ==
  /\ phase # "down"
  /\ faults < MaxFaults /\ faults' = faults + 1
  /\ ProcessLost
  /\ UNCHANGED <<now, redis, history>>

Restart ==
  /\ phase = "down"
  /\ phase' = "running"
  /\ UNCHANGED <<now, redis, handling, scrape, faults, history>>

-----------------------------------------------------------------------------
Next ==
  \/ Tick
  \/ \E s \in Sensors, t \in Times : Take(s, t)
  \/ RecordAuthorizedSensor
  \/ \E s \in Sensors, t \in Times : RecordElsewhere(s, t)
  \/ \E k \in Scrapes : StartScrape(k)
  \/ \E k \in Scrapes : ReadMembers(k)
  \/ \E k \in Scrapes, s \in Sensors : ReadHeartbeat(k, s)
  \/ \E k \in Scrapes, s \in Sensors : RemoveMember(k, s)
  \/ \E k \in Scrapes, s \in Sensors : DeleteHeartbeat(k, s)
  \/ \E k \in Scrapes : EndScrape(k)
  \/ \E k \in Scrapes : ReadFails(k)
  \/ \E k \in Scrapes, s \in Sensors : PruneFails(k, s)
  \/ RecordFails
  \/ Stop
  \/ CloseRedis
  \/ Exit
  \/ Crash
  \/ Restart

Spec == Init /\ [][Next]_vars

-----------------------------------------------------------------------------
(* Every variable has its type.                                            *)
TypeOK ==
  /\ now \in Nat
  /\ sensors \subseteq Sensors /\ stored \subseteq Sensors
  /\ firstSeen \in [Sensors -> Nat]
  /\ lastSeen \in [Sensors -> Nat]
  /\ onlineSince \in [Sensors -> Nat]
  /\ handling \in (Sensors \X Times) \cup {<< >>}
  /\ scraping \in [Scrapes -> {"idle", "members", "read"}]
  /\ startedAt \in [Scrapes -> Nat]
  /\ unread \in [Scrapes -> SUBSET Sensors]
  /\ stale \in [Scrapes -> SUBSET Sensors]
  /\ removed \in [Scrapes -> SUBSET Sensors]
  /\ \A k \in Scrapes : removed[k] \subseteq stale[k]
  /\ phase \in Phases
  /\ faults \in Nat
  /\ accepted \in [Sensors -> SUBSET Times]
  /\ newest \in [Sensors -> Nat]
  /\ raced \subseteq Sensors

(* The start of the last run of times none of which is more than the       *)
(* online window after the one before.                                     *)
StreakStart(times) ==
  Min({t \in times : \A u \in times :
         u > t => \E v \in times : t <= v /\ v < u /\ u - v <= OnlineWindow})

(* The hash of a sensor says of its events what                            *)
(* services/heartbeat-tracker/README.md, Online and uptime definitions,    *)
(* says of its fields, through replays, events out of order, failures and  *)
(* concurrent instances and prunes.                                        *)
HashIsSummary ==
  /\ \A s \in stored : /\ accepted[s] # {}
                       /\ firstSeen[s] = Min(accepted[s])
                       /\ lastSeen[s] = Max(accepted[s])
                       /\ onlineSince[s] = StreakStart(accepted[s])
  /\ \A s \in Sensors \ stored : accepted[s] = {}

(* A sensor that was heard within the retention window is tracked, as last *)
(* seen at its newest event (same README: lastSeen is the highest          *)
(* occurred_at seen so far).                                               *)
Fresh(s)    == newest[s] # 0 /\ now - newest[s] <= RetentionWindow
Tracked(s)  == s \in sensors /\ s \in stored /\ lastSeen[s] = newest[s]

FreshIsTracked == \A s \in Sensors : Fresh(s) => Tracked(s)

(* The same of a sensor that was not heard while a scrape was pruning it.  *)
FreshIsTrackedUnlessRaced == \A s \in Sensors \ raced : Fresh(s) => Tracked(s)

(* A graceful stop drops no heartbeat: a message taken by the consumer is  *)
(* recorded unless a command fails or the process dies.                    *)
TakenIsRecorded ==
  [][(handling # << >> /\ handling' = << >> /\ faults' = faults)
       => newest'[handling[1]] >= handling[2]]_vars

-----------------------------------------------------------------------------
(* The inductive invariant behind the three.                               *)

(* A scrape prunes only once it has read everything, and it knows of stale *)
(* sensors only from then on.                                              *)
ScrapeOrder ==
  \A k \in Scrapes : /\ startedAt[k] <= now
                     /\ scraping[k] # "read" => unread[k] = {} /\ stale[k] = {}
                     /\ unread[k] # {} => removed[k] = {}

(* A hash is never ahead of the newest time recorded.                      *)
SeenIsRecorded == \A s \in stored : lastSeen[s] <= newest[s]

(* A sensor on its way to be pruned is past the retention window, unless   *)
(* it was recorded since.                                                  *)
PrunedIsOld == \A k \in Scrapes : \A s \in stale[k] \ raced : ~Fresh(s)

(* The client stays open for the message being handled.                    *)
HandledOnline == handling # << >> => Connected

IInv ==
  /\ TypeOK
  /\ ScrapeOrder
  /\ HashIsSummary
  /\ SeenIsRecorded
  /\ PrunedIsOld
  /\ FreshIsTrackedUnlessRaced
  /\ HandledOnline

=============================================================================
