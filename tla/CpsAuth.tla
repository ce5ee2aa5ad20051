--------------------------------- MODULE CpsAuth ---------------------------------
(***************************************************************************)
(* Sensor authentication against the CPS tree on the chain: a bounded LRU  *)
(* cache, one look-up in flight per sensor, and a walk to the root that    *)
(* reads one node at a time while the tree may change.                     *)
(***************************************************************************)
EXTENDS Integers, Sequences, FiniteSets, SequencesExt

CONSTANTS
  Sensors,      (* public keys                                             *)
  Nodes,        (* CPS nodes                                               *)
  Root,         (* rootNodeId                                              *)
  None,         (* null: no node with that identity, no parent             *)
  CacheMaxSize, (* CPS_AUTH_CACHE_MAX_SIZE                                 *)
  NegativeTtl,  (* CPS_AUTH_NEGATIVE_TTL_SECONDS                           *)
  MaxSteps,     (* MAX_TRAVERSAL_STEPS                                     *)
  MaxTime,      (* bound: the time                                         *)
  MaxChanges    (* bound: changes of the tree                              *)

ASSUME CpsAssumption ==
  /\ Root \in Nodes /\ None \notin Nodes
  /\ CacheMaxSize \in Nat \ {0}
  /\ NegativeTtl \in Nat /\ MaxSteps \in Nat \ {0}
  /\ MaxTime \in Nat /\ MaxChanges \in Nat

VARIABLES
  now,         (* Date.now()                                               *)
  identity,    (* chain: cps.identityNode                                  *)
  parent,      (* chain: the parents in cps.nodes; an absent node has None *)
  changes,     (* changes of the chain so far                              *)
  cache,       (* the entries of the LruCache, least recently used first   *)
  pc,          (* pc[s]: the read that the look-up of s in inFlight awaits *)
  node,        (* node[s]: the node whose info it awaits                   *)
  visited,     (* visited[s]: the nodes on its way                         *)
  uses,        (* history: the sensors in the order of their latest use    *)
  disturbed,   (* history: sensors whose latest look-up began before the   *)
               (* latest change                                            *)
  bindings,    (* history: bindings[s], its nodes since its look-up began  *)
  links        (* history: the links of the tree since then                *)

chain   == <<identity, parent, changes>>
lookup  == <<pc, node, visited>>
history == <<uses, disturbed, bindings, links>>
vars    == <<now, identity, parent, changes, cache, pc, node, visited,
             uses, disturbed, bindings, links>>

NodesOrNone == Nodes \cup {None}
Entries     == [sensor : Sensors, allowed : BOOLEAN, expiresAt : Nat \cup {None}]
Links       == {<<n, parent[n]>> : n \in Nodes}

(* Map.delete(): at holds the place of the key, or nothing.                *)
Delete(f, at)       == IF at = {} THEN f ELSE RemoveAt(f, CHOOSE i \in at : TRUE)
Without(entries, s) == Delete(entries, {i \in DOMAIN entries : entries[i].sensor = s})

(* resolveRootNode() has validated that the root has no parent.            *)
Init ==
  /\ now = 1
  /\ identity \in [Sensors -> NodesOrNone]
  /\ parent \in {p \in [Nodes -> NodesOrNone] : p[Root] = None}
  /\ changes = 0
  /\ cache = << >>
  /\ pc = [s \in Sensors |-> "idle"]
  /\ node = [s \in Sensors |-> None]
  /\ visited = [s \in Sensors |-> {}]
  /\ uses = << >>
  /\ disturbed = {}
  /\ bindings = [s \in Sensors |-> {}]
  /\ links = [s \in Sensors |-> {}]

Tick ==
  /\ now < MaxTime
  /\ now' = now + 1
  /\ UNCHANGED <<chain, cache, lookup, history>>

Change ==
  /\ changes < MaxChanges
  /\ changes' = changes + 1
  /\ \/ \E s \in Sensors, n \in NodesOrNone :
          identity' = [identity EXCEPT ![s] = n] /\ UNCHANGED parent
     \/ \E n \in Nodes, p \in NodesOrNone :
          parent' = [parent EXCEPT ![n] = p] /\ UNCHANGED identity
  /\ disturbed' = Sensors
  /\ bindings' = [s \in Sensors |->
       IF pc[s] = "idle" THEN {} ELSE bindings[s] \cup {identity'[s]}]
  /\ links' = [s \in Sensors |-> IF pc[s] = "idle" THEN {} ELSE links[s] \cup Links']
  /\ UNCHANGED <<now, cache, lookup, uses>>

-----------------------------------------------------------------------------
(* LruCache.                                                               *)
Live(e) == e.expiresAt # None => now < e.expiresAt

(* Mutant of Touch: a use does not make the entry recent.                  *)
TouchNothing(e) == cache' = cache

Touch(e) == cache' = Append(Without(cache, e.sensor), e)

(* Mutant of Set: one entry too many is kept.                              *)
SetOneMore(s, allowed) ==
  LET entry == [sensor |-> s, allowed |-> allowed,
                expiresAt |-> IF allowed THEN None ELSE now + NegativeTtl]
      added == Append(Without(cache, s), entry)
  IN cache' = IF Len(added) > CacheMaxSize + 1 THEN Tail(added) ELSE added

Set(s, allowed) ==
  LET entry == [sensor |-> s, allowed |-> allowed,
                expiresAt |-> IF allowed THEN None ELSE now + NegativeTtl]
      added == Append(Without(cache, s), entry)
  IN cache' = IF Len(added) > CacheMaxSize THEN Tail(added) ELSE added

Used(s) == uses' = Append(Delete(uses, {i \in DOMAIN uses : uses[i] = s}), s)

-----------------------------------------------------------------------------
(* authenticate(): a hit, or a look-up; a call that finds the look-up of   *)
(* its sensor in flight awaits it and changes nothing.                     *)
Hit(s) ==
  /\ \E e \in Range(cache) : e.sensor = s /\ Live(e) /\ Touch(e)
  /\ Used(s)
  /\ UNCHANGED <<now, chain, lookup, disturbed, bindings, links>>

Miss(s) ==
  /\ \A e \in Range(cache) : e.sensor = s => ~Live(e)
  /\ pc[s] = "idle"
  /\ cache' = Without(cache, s)
  /\ pc' = [pc EXCEPT ![s] = "identity"]
  /\ disturbed' = disturbed \ {s}
  /\ bindings' = [bindings EXCEPT ![s] = {identity[s]}]
  /\ links' = [links EXCEPT ![s] = Links]
  /\ UNCHANGED <<now, chain, node, visited, uses>>

(* The look-up leaves inFlight and those that await it get their answer.   *)
Land(s) ==
  /\ pc' = [pc EXCEPT ![s] = "idle"]
  /\ node' = [node EXCEPT ![s] = None]
  /\ visited' = [visited EXCEPT ![s] = {}]
  /\ bindings' = [bindings EXCEPT ![s] = {}]
  /\ links' = [links EXCEPT ![s] = {}]

Conclude(s, allowed) ==
  /\ Set(s, allowed)
  /\ Land(s)
  /\ Used(s)
  /\ UNCHANGED disturbed

GoTo(s, n) ==
  /\ pc' = [pc EXCEPT ![s] = "info"]
  /\ node' = [node EXCEPT ![s] = n]
  /\ visited' = [visited EXCEPT ![s] = @ \cup {n}]
  /\ UNCHANGED <<cache, history>>

ReadIdentity(s) ==
  /\ pc[s] = "identity"
  /\ IF identity[s] = None THEN Conclude(s, FALSE) ELSE GoTo(s, identity[s])
  /\ UNCHANGED <<now, chain>>

(* The read of step number Cardinality(visited[s]) - 1 returns p.          *)
Exhausted(s) == Cardinality(visited[s]) > MaxSteps

(* Mutant of Walk: any root of a tree will do.                             *)
WalkToAnyRoot(s, p) ==
  IF Exhausted(s) THEN Conclude(s, FALSE)
  ELSE IF p \in {Root, None} THEN Conclude(s, TRUE)
  ELSE IF p \in visited[s] THEN Conclude(s, FALSE)
  ELSE GoTo(s, p)

Walk(s, p) ==
  IF Exhausted(s) \/ p = None THEN Conclude(s, FALSE)
  ELSE IF p = Root THEN Conclude(s, TRUE)
  ELSE IF p \in visited[s] THEN Conclude(s, FALSE)
  ELSE GoTo(s, p)

ReadInfo(s) ==
  /\ pc[s] = "info"
  /\ Walk(s, parent[node[s]])
  /\ UNCHANGED <<now, chain>>

(* Mutant of ReadFails: the denial is cached.                              *)
ReadFailsCached(s) ==
  /\ pc[s] # "idle"
  /\ Conclude(s, FALSE)
  /\ UNCHANGED <<now, chain>>

(* A read fails: denied, and nothing is cached.                            *)
ReadFails(s) ==
  /\ pc[s] # "idle"
  /\ Land(s)
  /\ UNCHANGED <<now, chain, cache, uses, disturbed>>

Next ==
  \/ Tick
  \/ Change
  \/ \E s \in Sensors : Hit(s)
  \/ \E s \in Sensors : Miss(s)
  \/ \E s \in Sensors : ReadIdentity(s)
  \/ \E s \in Sensors : ReadInfo(s)
  \/ \E s \in Sensors : ReadFails(s)

Spec == Init /\ [][Next]_vars

-----------------------------------------------------------------------------
(* Every variable has its type; the cache is bounded, with one entry per   *)
(* sensor.                                                                 *)
TypeOK ==
  /\ now \in Nat /\ changes \in Nat
  /\ identity \in [Sensors -> NodesOrNone]
  /\ parent \in [Nodes -> NodesOrNone]
  /\ cache \in Seq(Entries)
  /\ Len(cache) <= CacheMaxSize
  /\ \A i, j \in DOMAIN cache : cache[i].sensor = cache[j].sensor => i = j
  /\ pc \in [Sensors -> {"idle", "identity", "info"}]
  /\ node \in [Sensors -> NodesOrNone]
  /\ visited \in [Sensors -> SUBSET Nodes]
  /\ uses \in Seq(Sensors)
  /\ disturbed \subseteq Sensors
  /\ bindings \in [Sensors -> SUBSET NodesOrNone]
  /\ links \in [Sensors -> SUBSET (Nodes \X NodesOrNone)]

(* The ancestors of a node, nearest first; None above a root.              *)
Up(n) == IF n = None THEN None ELSE parent[n]

Ancestors(n) ==
  LET up[k \in 0..MaxSteps] == IF k = 0 THEN n ELSE Up(up[k - 1]) IN up

(* The node of the sensor is a strict descendant of the root, at most      *)
(* MaxSteps links away.                                                    *)
IsRootDescendant(s) ==
  identity[s] # None /\ \E k \in 1..MaxSteps : Ancestors(identity[s])[k] = Root

(* A cached answer is what the tree says, unless the tree has changed      *)
(* since the look-up began: no failed read is cached, and no answer to     *)
(* another sensor (cps-auth.ts, comment of the class).                     *)
CacheFollowsTree ==
  \A e \in Range(cache) : e.sensor \in disturbed \/ e.allowed = IsRootDescendant(e.sensor)

(* A sensor is authorized along links each of which existed at some time   *)
(* since its look-up began, though perhaps not all at once, because the    *)
(* tree may change between the reads of isRootDescendant().                *)
Linked(from, by) == {p \in NodesOrNone : \E n \in from : <<n, p>> \in by}

Climb(from, by) ==
  LET up[k \in 0..MaxSteps] == IF k = 0 THEN from ELSE Linked(up[k - 1], by) IN up

Reach(s) == UNION {Climb(bindings[s], links[s])[k] : k \in 1..MaxSteps}

Authorizes(s) ==
  /\ pc[s] # "idle" /\ pc'[s] = "idle"
  /\ \E e \in Range(cache') : e.sensor = s /\ e.allowed

AuthorizedByLinks == [][\A s \in Sensors : Authorizes(s) => Root \in Reach(s)]_vars

(* The cache forgets an entry only when it has expired, or as the least    *)
(* recently used of a full cache.  In particular an authorized sensor      *)
(* never loses its entry to a failed read (cps-auth.test.ts).              *)
Position(s) == CHOOSE i \in DOMAIN uses : uses[i] = s

EvictsLeastRecent ==
  [][\A e \in Range(cache) :
       (\A f \in Range(cache') : f.sensor # e.sensor)
         => \/ ~Live(e)
            \/ /\ Len(cache) = CacheMaxSize
               /\ \A f \in Range(cache) : Position(e.sensor) <= Position(f.sensor)]_vars

-----------------------------------------------------------------------------
(* The inductive invariant.                                                *)

(* The sensors of the cache stand in the order of their latest use.        *)
Before(f, u, v) == \E i, j \in DOMAIN f : i < j /\ f[i] = u /\ f[j] = v

CacheByUse ==
  /\ \A i, j \in DOMAIN uses : uses[i] = uses[j] => i = j
  /\ \A e \in Range(cache) : e.sensor \in Range(uses)
  /\ \A i, j \in DOMAIN cache : i < j => Before(uses, cache[i].sensor, cache[j].sensor)

(* A sensor in flight has no entry.                                        *)
NoEntryInFlight == \A e \in Range(cache) : pc[e.sensor] = "idle"

(* The nodes on the way of a look-up are the ancestors of the sensor's     *)
(* node up to the one that is read, none of them the root.                 *)
Steps(s) == Cardinality(visited[s]) - 1

OnTheWay(s) ==
  /\ identity[s] # None
  /\ node[s] = Ancestors(identity[s])[Steps(s)]
  /\ visited[s] = {Ancestors(identity[s])[k] : k \in 0..Steps(s)}
  /\ \A k \in 1..Steps(s) : Ancestors(identity[s])[k] # Root

WayInBounds ==
  \A s \in Sensors :
    /\ pc[s] # "info" => visited[s] = {}
    /\ pc[s] = "info" => /\ IsFiniteSet(visited[s]) /\ node[s] \in Nodes
                         /\ Steps(s) \in 0..MaxSteps

WayFollowsTree == \A s \in Sensors \ disturbed : pc[s] = "info" => OnTheWay(s)

(* The history of a look-up has what it read.                              *)
WayRecorded ==
  \A s \in Sensors :
    /\ pc[s] # "idle" => identity[s] \in bindings[s] /\ Links \subseteq links[s]
    /\ pc[s] = "info" => node[s] \in Climb(bindings[s], links[s])[Steps(s)]

IInv ==
  /\ TypeOK
  /\ CacheByUse
  /\ NoEntryInFlight
  /\ WayInBounds
  /\ WayFollowsTree
  /\ WayRecorded
  /\ CacheFollowsTree

=============================================================================
