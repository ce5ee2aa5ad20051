---------------------------- MODULE EndpointProofs ----------------------------
(***************************************************************************)
(* What the endpoint promises for every set of instances, requests and     *)
(* envelopes, every skew, and every TTL that startup accepts.  Only what   *)
(* is said of the uniqueness of authorized events supposes that clock      *)
(* drift and processing time stay within the margin.                       *)
(***************************************************************************)
EXTENDS Endpoint, TLAPS

(* The arithmetic of the claim.  A request that waits for its claim was    *)
(* fresh, and not long ago; so a claim it sets lasts until no copy can be  *)
(* accepted any more, and finding the key free means it was never set.     *)
LEMMA ClaimWindow ==
  ASSUME BaseInv, NEW r \in Requests, pc[r] = "claim"
  PROVE  /\ now + Ttl \in Nat /\ now + Ttl # 0
         /\ now + Ttl >= stamp[sent[r]] - Skew - MaxDrift + Ttl
         /\ MarginSuffices /\ ~Claimed(sent[r]) => expiry[sent[r]] = 0
<1> DEFINE e == sent[r]
           d == drift[at[r]]
<1>1. /\ e \in Envelopes /\ stamp[e] \in Nat /\ expiry[e] \in Nat
      /\ now \in Nat /\ checkedAt[r] \in Nat
      /\ d \in -MaxDrift..MaxDrift
  BY DEF BaseInv, TypeOK
<1>2. /\ Skew \in Nat \ {0} /\ Ttl \in Nat /\ Margin \in Nat
      /\ MaxDrift \in Nat /\ MaxDelay \in Nat
      /\ Ttl >= 2 * Skew + Margin
  BY EndpointAssumption, ConfigAssumption DEF MinimumTtl
<1>3. /\ checkedAt[r] + d - stamp[e] \in -Skew..Skew
      /\ checkedAt[r] <= now /\ now - checkedAt[r] <= MaxDelay
  BY DEF BaseInv, Timely
<1>4. expiry[e] # 0 => expiry[e] >= stamp[e] - Skew - MaxDrift + Ttl
  BY <1>1 DEF BaseInv, Lasting
<1> HIDE DEF e, d
<1>5. now + Ttl \in Nat /\ now + Ttl # 0 /\ now + Ttl >= stamp[e] - Skew - MaxDrift + Ttl
  BY <1>1, <1>2, <1>3
<1>6. ASSUME 2 * MaxDrift + MaxDelay < Margin, ~ (now < expiry[e])
      PROVE  expiry[e] = 0
  BY <1>1, <1>2, <1>3, <1>4, <1>6
<1> QED BY <1>5, <1>6 DEF MarginSuffices, Claimed, e

(* The initial states satisfy the invariant.                               *)
LEMMA InitInv == Init => IInv
<1> SUFFICES ASSUME Init PROVE IInv
  OBVIOUS
<1>1. TypeOK
  BY EndpointAssumption DEF Init, TypeOK, Phases, Pcs, Replies
<1>2. Timely /\ Lasting /\ Sole
  BY DEF Init, Timely, Lasting, Sole, Holders
<1>3. Draining
  BY DEF Init, Draining, Stopping
<1> QED BY <1>1, <1>2, <1>3 DEF IInv, BaseInv

-----------------------------------------------------------------------------
(* A step of one handler preserves the invariant: it takes a place that    *)
(* waits for the claim only after the checks, sets a claim only when it is *)
(* free, and holds an envelope only with a claim it has set.               *)
LEMMA HandlerKeeps ==
  ASSUME BaseInv,
         NEW r \in Requests, NEW from \in Active \cup {"unsent"}, NEW to \in Active \cup {"done"},
         Step(r, from, to),
         from = "unsent" => phase[at[r]] = "open",
         reply' \in [Requests -> Replies], faults' \in Nat,
         rejection' = rejection \/ (to = "done" /\ rejection' = [rejection EXCEPT ![r] = "sending"]),
         \/ checkedAt' = checkedAt /\ to \notin {"auth", "claim"}
         \/ checkedAt' = [checkedAt EXCEPT ![r] = 0] /\ to \notin {"auth", "claim"}
         \/ checkedAt' = checkedAt /\ from = "auth" /\ to = "claim"
         \/ checkedAt' = [checkedAt EXCEPT ![r] = now] /\ Fresh(r) /\ to = "auth",
         \/ expiry' = expiry /\ to # "publish"
         \/ from = "claim" /\ ~Claimed(sent[r]) /\ SetClaim(sent[r]),
         authorized' = authorized \/ (from = "publish" /\ authorized' = authorized \cup {r})
  PROVE  BaseInv' /\ (MarginSuffices /\ Sole => Sole')
<1>1. /\ TypeOK /\ Timely /\ Lasting /\ Draining
      /\ pc[r] = from /\ pc' = [pc EXCEPT ![r] = to]
      /\ now' = now /\ phase' = phase /\ awaited' = awaited
      /\ drift' = drift /\ stamp' = stamp /\ sent' = sent /\ at' = at /\ gone' = gone
  BY DEF BaseInv, Step, input
<1>2. /\ \A s \in Requests : pc'[s] = IF s = r THEN to ELSE pc[s]
      /\ sent[r] \in Envelopes /\ now \in Nat
      /\ expiry \in [Envelopes -> Nat] /\ checkedAt \in [Requests -> Nat]
  BY <1>1 DEF TypeOK
<1>3. expiry' = expiry \/ expiry' = [expiry EXCEPT ![sent[r]] = now + Ttl]
  BY DEF SetClaim
<1>4. TypeOK' /\ Lasting'
  <2>1. CASE expiry' = expiry /\ to # "publish"
    BY <1>1, <1>2, <2>1 DEF TypeOK, Lasting, Pcs, Active
  <2>2. CASE from = "claim" /\ ~Claimed(sent[r]) /\ SetClaim(sent[r])
    <3>1. now + Ttl \in Nat /\ now + Ttl >= stamp[sent[r]] - Skew - MaxDrift + Ttl
      BY <1>1, <2>2, ClaimWindow
    <3>2. /\ expiry' \in [Envelopes -> Nat]
          /\ \A e \in Envelopes : expiry'[e] = IF e = sent[r] THEN now + Ttl ELSE expiry[e]
      BY <1>2, <2>2, <3>1 DEF SetClaim
    <3>3. TypeOK'
      BY <1>1, <1>2, <3>2 DEF TypeOK, Pcs, Active
    <3>4. Lasting'
      BY <1>1, <3>1, <3>2 DEF Lasting
    <3> QED BY <3>3, <3>4
  <2> QED BY <2>1, <2>2
<1>5. ASSUME MarginSuffices, Sole PROVE Sole'
  <2>1. CASE expiry' = expiry /\ to # "publish"
    <3>1. \A s \in Holders' : s \in Holders
      BY <1>1, <1>2, <2>1 DEF Holders
    <3> QED BY <1>1, <1>5, <2>1, <3>1 DEF Sole
  <2>2. CASE from = "claim" /\ ~Claimed(sent[r]) /\ SetClaim(sent[r])
    <3>1. now + Ttl \in Nat /\ now + Ttl # 0 /\ expiry[sent[r]] = 0
      BY <1>1, <1>5, <2>2, ClaimWindow
    <3>2. \A e \in Envelopes : expiry'[e] = IF e = sent[r] THEN now + Ttl ELSE expiry[e]
      BY <1>2, <2>2, <3>1 DEF SetClaim
    <3>5. authorized' = authorized
      BY <2>2
    <3>6. \A s \in Holders : s \in Requests /\ sent[s] \in Envelopes /\ sent[s] # sent[r]
      BY <1>1, <1>5, <3>1 DEF Sole, Holders, TypeOK
    <3>7. \A s \in Holders' : s = r \/ s \in Holders
      BY <1>1, <1>2, <3>5 DEF Holders
    <3>8. \A s \in Holders' : expiry'[sent[s]] # 0
      BY <1>1, <1>2, <1>5, <3>1, <3>2, <3>6, <3>7 DEF Sole
    <3>9. \A s, t \in Holders' : sent[s] = sent[t] => s = t
      BY <1>1, <1>5, <3>6, <3>7 DEF Sole
    <3> QED BY <1>1, <3>8, <3>9 DEF Sole
  <2> QED BY <2>1, <2>2
<1>6. Timely'
  <2> SUFFICES ASSUME NEW s \in Requests, pc'[s] \in {"auth", "claim"}
               PROVE  /\ checkedAt'[s] + drift[at[s]] - stamp[sent[s]] \in -Skew..Skew
                      /\ checkedAt'[s] <= now /\ now - checkedAt'[s] <= MaxDelay
    BY <1>1 DEF Timely
  <2>1. CASE s # r
    <3>1. pc[s] \in {"auth", "claim"} /\ checkedAt'[s] = checkedAt[s]
      BY <1>2, <2>1
    <3> QED BY <1>1, <3>1 DEF Timely
  <2>2. CASE s = r /\ from = "auth" /\ to = "claim" /\ checkedAt' = checkedAt
    BY <1>1, <2>2 DEF Timely
  <2>3. CASE s = r /\ to = "auth" /\ Fresh(r) /\ checkedAt' = [checkedAt EXCEPT ![r] = now]
    <3>1. checkedAt'[s] = now /\ now - now <= MaxDelay
      BY <1>2, <2>3, EndpointAssumption
    <3>2. Fresh(r) /\ s = r
      BY <2>3
    <3>3. now + drift[at[r]] - stamp[sent[r]] \in -Skew..Skew
      BY <3>2 DEF Fresh, Passes
    <3> QED BY <1>2, <3>1, <3>2, <3>3
  <2> QED BY <1>2, <2>1, <2>2, <2>3
<1>7. Draining'
  <2>1. \A s \in Requests : rejection'[s] = "sending" => (s = r /\ to = "done") \/ rejection[s] = "sending"
    BY <1>1 DEF TypeOK
  <2>2. from # "done" /\ \A s \in Requests : rejection'[s] = "sending" => pc'[s] = "done"
    BY <1>1, <1>2, <2>1 DEF Draining, Active
  <2>3. ASSUME phase[at[r]] \in Stopping PROVE r \in gone /\ r \notin awaited[at[r]]
    <3>1. at[r] \in Instances /\ r \in Open(at[r])
      BY <1>1, <2>3 DEF Open, Stopping, TypeOK
    <3> QED BY <1>1, <2>3, <3>1 DEF Draining
  <2>4. ASSUME NEW i \in Instances
        PROVE  /\ \A s \in Open(i)' : s \in Open(i) \/ (s = r /\ i = at[r])
               /\ \A s \in Sending(i)' : s \in Sending(i) \/ (s = r /\ i = at[r])
    BY <1>1, <1>2, <2>1 DEF Open, Sending
  <2> QED BY <1>1, <2>2, <2>3, <2>4 DEF Draining
<1> QED BY <1>4, <1>5, <1>6, <1>7 DEF BaseInv

(* Any action of the handler of one request is such a step.                *)
LEMMA RequestStepKeeps ==
  ASSUME BaseInv, NEW r \in Requests,
         Arrive(r) \/ HandlerStep(r) \/ ClaimFails(r) \/ PublishFails(r)
  PROVE  BaseInv' /\ (MarginSuffices /\ Sole => Sole')
<1>1. /\ reply \in [Requests -> Replies] /\ rejection \in [Requests -> {"none", "sending", "settled"}]
      /\ faults \in Nat
  BY DEF BaseInv, TypeOK
<1>2. \A code \in Replies : [reply EXCEPT ![r] = code] \in [Requests -> Replies]
  BY <1>1
<1>3. CASE Arrive(r)
  BY <1>1, <1>3, HandlerKeeps DEF Arrive, Active
<1>4. CASE RefuseEnvelope(r)
  BY <1>1, <1>2, <1>4, HandlerKeeps DEF RefuseEnvelope, Answer, Unchecked, Active, Replies
<1>5. CASE RefuseStale(r)
  BY <1>1, <1>2, <1>5, HandlerKeeps DEF RefuseStale, Reject, Answer, Unchecked, Active, Replies
<1>6. CASE AcceptTimestamp(r)
  BY <1>1, <1>6, HandlerKeeps DEF AcceptTimestamp, Active
<1>7. CASE RefuseSensor(r)
  BY <1>1, <1>2, <1>7, HandlerKeeps DEF RefuseSensor, Reject, Answer, Unchecked, Active, Replies
<1>8. CASE AcceptSensor(r)
  BY <1>1, <1>8, HandlerKeeps DEF AcceptSensor, Active
<1>9. CASE ClaimNonce(r)
  BY <1>1, <1>9, HandlerKeeps DEF ClaimNonce, Unchecked, Active
<1>10. CASE RefuseDuplicate(r)
  BY <1>1, <1>2, <1>10, HandlerKeeps DEF RefuseDuplicate, Reject, Answer, Unchecked, Active, Replies
<1>15. CASE ClaimRefused(r)
  BY <1>1, <1>2, <1>15, HandlerKeeps DEF ClaimRefused, Answer, Unchecked, Active, Replies
<1>16. CASE PublishRefused(r)
  <2>1. Step(r, "publish", "dlq") /\ UNCHANGED <<checkedAt, reply, rejection, expiry, faults>>
    BY <1>16 DEF PublishRefused
  <2>2. authorized' = authorized \/ authorized' = authorized \cup {r}
    BY <1>16 DEF PublishRefused
  <2> QED BY <1>1, <2>1, <2>2, HandlerKeeps DEF Active
<1>11. CASE PublishAuthorized(r)
  BY <1>1, <1>2, <1>11, HandlerKeeps DEF PublishAuthorized, Answer, Unchecked, Active, Replies
<1>12. CASE PublishToDlq(r)
  BY <1>1, <1>2, <1>12, HandlerKeeps DEF PublishToDlq, Answer, Unchecked, Active, Replies
<1>13. CASE ClaimFails(r)
  <2>1. /\ faults' \in Nat /\ authorized' = authorized
        /\ checkedAt' = [checkedAt EXCEPT ![r] = 0]
        /\ Step(r, "claim", "done")
    BY <1>1, <1>13 DEF ClaimFails, Reject, Answer, Unchecked
  <2>2. reply' \in [Requests -> Replies]
    BY <1>2, <1>13 DEF ClaimFails, Reject, Answer, Replies
  <2>3. rejection' = rejection \/ rejection' = [rejection EXCEPT ![r] = "sending"]
    BY <1>13 DEF ClaimFails, Reject
  <2>4. expiry' = expiry \/ (~Claimed(sent[r]) /\ SetClaim(sent[r]))
    BY <1>13 DEF ClaimFails
  <2> QED BY <2>1, <2>2, <2>3, <2>4, HandlerKeeps DEF Active
<1>14. CASE PublishFails(r)
  <2>1. faults' \in Nat /\ Step(r, "publish", "dlq") /\ UNCHANGED <<checkedAt, reply, rejection, expiry>>
    BY <1>1, <1>14 DEF PublishFails
  <2>2. authorized' = authorized \/ authorized' = authorized \cup {r}
    BY <1>14 DEF PublishFails
  <2> QED BY <1>1, <2>1, <2>2, HandlerKeeps DEF Active
<1> QED BY <1>3, <1>4, <1>5, <1>6, <1>7, <1>8, <1>9, <1>10, <1>11, <1>12, <1>13, <1>14, <1>15, <1>16
    DEF HandlerStep

(* Time passes, rejections settle and instances move through their life.   *)
LEMMA TickKeeps ==
  ASSUME BaseInv, Tick
  PROVE  BaseInv' /\ (Sole => Sole')
<1>1. /\ TypeOK /\ Timely /\ Lasting /\ Draining
      /\ now' = now + 1
      /\ drift' = drift /\ stamp' = stamp /\ sent' = sent /\ at' = at /\ gone' = gone
      /\ phase' = phase /\ awaited' = awaited
      /\ pc' = pc /\ checkedAt' = checkedAt /\ reply' = reply /\ rejection' = rejection
      /\ expiry' = expiry /\ authorized' = authorized /\ faults' = faults
  BY DEF BaseInv, Tick, input, handlers
<1>2. TypeOK'
  BY <1>1 DEF TypeOK
<1>3. Timely'
  <2>1. ASSUME NEW r \in Requests, pc'[r] \in {"auth", "claim"}
        PROVE  /\ checkedAt'[r] + drift'[at'[r]] - stamp'[sent'[r]] \in -Skew..Skew
               /\ checkedAt'[r] <= now' /\ now' - checkedAt'[r] <= MaxDelay
    <3>1. pc[r] \in {"auth", "claim"} /\ checkedAt'[r] = checkedAt[r] /\ now' = now + 1
      BY <1>1, <2>1
    <3>2. now \in Nat /\ checkedAt[r] \in Nat /\ MaxDelay \in Nat
      BY <1>1, EndpointAssumption DEF TypeOK
    <3>3. checkedAt[r] + drift[at[r]] - stamp[sent[r]] \in -Skew..Skew /\ checkedAt[r] <= now
      BY <1>1, <3>1 DEF Timely
    <3>4. now - checkedAt[r] < MaxDelay
      BY <3>1 DEF Tick
    <3>5. checkedAt'[r] + drift'[at'[r]] - stamp'[sent'[r]] \in -Skew..Skew
      BY <1>1, <3>3, Zenon
    <3>6. checkedAt'[r] <= now' /\ now' - checkedAt'[r] <= MaxDelay
      BY <3>1, <3>2, <3>3, <3>4
    <3> QED BY <3>5, <3>6
  <2> QED BY <2>1 DEF Timely
<1>4. Lasting' /\ (Sole => Sole') /\ Draining'
  BY <1>1 DEF Lasting, Sole, Holders, Draining, Open, Sending
<1> QED BY <1>2, <1>3, <1>4 DEF BaseInv

(* A rejected event is published or given up.                              *)
LEMMA SettleKeeps ==
  ASSUME BaseInv, NEW r \in Requests, SettleRejection(r)
  PROVE  BaseInv' /\ (Sole => Sole')
<1>1. /\ TypeOK /\ Timely /\ Lasting /\ Draining
      /\ rejection' = [rejection EXCEPT ![r] = "settled"]
      /\ now' = now /\ drift' = drift /\ stamp' = stamp /\ sent' = sent /\ at' = at
      /\ gone' = gone /\ phase' = phase /\ awaited' = awaited
      /\ pc' = pc /\ checkedAt' = checkedAt /\ reply' = reply
      /\ expiry' = expiry /\ authorized' = authorized /\ faults' = faults
  BY DEF BaseInv, SettleRejection, input
<1>2. TypeOK' /\ Timely' /\ Lasting' /\ (Sole => Sole')
  BY <1>1 DEF TypeOK, Timely, Lasting, Sole, Holders
<1>3. \A i \in Instances : /\ Open(i)' = Open(i)
                           /\ \A q \in Sending(i)' : q \in Sending(i)
  BY <1>1 DEF Open, Sending, TypeOK
<1>4. \A q \in Requests : rejection'[q] = "sending" => rejection[q] = "sending"
  BY <1>1 DEF TypeOK
<1>5. Draining'
  BY <1>1, <1>3, <1>4 DEF Draining
<1> QED BY <1>2, <1>5 DEF BaseInv

(* A client gives up.                                                      *)
LEMMA DisconnectKeeps ==
  ASSUME BaseInv, NEW r \in Requests, Disconnect(r)
  PROVE  BaseInv' /\ (Sole => Sole')
<1>1. /\ TypeOK /\ Timely /\ Lasting /\ Draining
      /\ gone' = gone \cup {r} /\ faults' = faults + 1
      /\ now' = now /\ drift' = drift /\ stamp' = stamp /\ sent' = sent /\ at' = at
      /\ phase' = phase /\ awaited' = awaited
      /\ pc' = pc /\ checkedAt' = checkedAt /\ reply' = reply /\ rejection' = rejection
      /\ expiry' = expiry /\ authorized' = authorized
  BY DEF BaseInv, Disconnect, handlers
<1>2. TypeOK' /\ Timely' /\ Lasting' /\ (Sole => Sole')
  BY <1>1 DEF TypeOK, Timely, Lasting, Sole, Holders
<1>3. \A i \in Instances : Open(i)' = Open(i) /\ Sending(i)' = Sending(i)
  BY <1>1 DEF Open, Sending
<1>4. Draining'
  BY <1>1, <1>3 DEF Draining
<1> QED BY <1>2, <1>4 DEF BaseInv

(* An instance changes its phase alone, with its awaited events.           *)
LEMMA PhaseKeeps ==
  ASSUME BaseInv, NEW i \in Instances, NEW to \in Phases,
         phase' = [phase EXCEPT ![i] = to],
         UNCHANGED <<now, input, handlers, expiry, authorized>>, faults' \in Nat,
         \/ awaited' = awaited
         \/ \E set \in SUBSET Requests : awaited' = [awaited EXCEPT ![i] = set],
         to \in Stopping =>
           /\ \A r \in Open(i) : r \in gone /\ r \notin awaited'[i]
           /\ \A r \in Sending(i) : r \in awaited'[i] => to = "draining"
           /\ \A r \in Sending(i) : r \in awaited'[i] \/ r \in gone
  PROVE  BaseInv' /\ (Sole => Sole')
<1>1. /\ TypeOK /\ Timely /\ Lasting /\ Draining
      /\ now' = now /\ drift' = drift /\ stamp' = stamp /\ sent' = sent /\ at' = at /\ gone' = gone
      /\ pc' = pc /\ checkedAt' = checkedAt /\ reply' = reply /\ rejection' = rejection
      /\ expiry' = expiry /\ authorized' = authorized
  BY DEF BaseInv, input, handlers
<1>2. /\ awaited' \in [Instances -> SUBSET Requests]
      /\ \A j \in Instances : j # i => awaited'[j] = awaited[j] /\ phase'[j] = phase[j]
      /\ phase'[i] = to /\ phase' \in [Instances -> Phases]
  BY <1>1 DEF TypeOK
<1>3. TypeOK' /\ Timely' /\ Lasting' /\ (Sole => Sole')
  BY <1>1, <1>2 DEF TypeOK, Timely, Lasting, Sole, Holders
<1>4. \A j \in Instances : Open(j)' = Open(j) /\ Sending(j)' = Sending(j)
  BY <1>1 DEF Open, Sending
<1>5. Draining'
  BY <1>1, <1>2, <1>4 DEF Draining
<1> QED BY <1>3, <1>5 DEF BaseInv

(* A process that ends turns requests that were about to publish into      *)
(* requests whose event is in the topic, or into nothing; the claims it    *)
(* leaves are timely.                                                      *)
LEMMA LostKeeps ==
  ASSUME BaseInv, NEW i \in Instances, ProcessLost(i), faults' \in Nat,
         NEW landed \in SUBSET Open(i),
         \/ expiry' = expiry
         \/ expiry' = [e \in Envelopes |->
              IF /\ phase[i] # "closed" /\ ~Claimed(e)
                 /\ \E r \in landed : pc[r] = "claim" /\ sent[r] = e
              THEN now + Ttl ELSE expiry[e]],
         authorized' = authorized \cup {r \in landed : pc[r] = "publish"}
  PROVE  BaseInv' /\ (Sole => Sole')
<1>1. /\ TypeOK /\ Timely /\ Lasting /\ Draining
      /\ now' = now /\ drift' = drift /\ stamp' = stamp /\ sent' = sent /\ at' = at /\ gone' = gone
      /\ phase' = [phase EXCEPT ![i] = "down"]
      /\ pc' = [r \in Requests |-> IF r \in Open(i) THEN "lost" ELSE pc[r]]
      /\ rejection' = [r \in Requests |-> IF r \in Sending(i) THEN "none" ELSE rejection[r]]
      /\ checkedAt' = [r \in Requests |-> IF r \in Open(i) THEN 0 ELSE checkedAt[r]]
      /\ awaited' = [awaited EXCEPT ![i] = {}] /\ reply' = reply
  BY DEF BaseInv, ProcessLost, MoveTo, input
<1>2. ASSUME NEW e \in Envelopes
      PROVE  \/ expiry'[e] = expiry[e]
             \/ /\ ~Claimed(e) /\ \E r \in landed : pc[r] = "claim" /\ sent[r] = e
                /\ expiry'[e] = now + Ttl
  OBVIOUS
<1>3. ASSUME NEW e \in Envelopes
      PROVE  /\ expiry'[e] \in Nat
             /\ expiry'[e] # 0 => expiry'[e] >= stamp[e] - Skew - MaxDrift + Ttl
             /\ expiry[e] # 0 => expiry'[e] # 0
  <2>1. CASE expiry'[e] = expiry[e]
    BY <1>1, <2>1 DEF Lasting, TypeOK
  <2>2. CASE /\ ~Claimed(e) /\ \E r \in landed : pc[r] = "claim" /\ sent[r] = e
             /\ expiry'[e] = now + Ttl
    <3>1. PICK r \in Requests : pc[r] = "claim" /\ sent[r] = e
      BY <2>2 DEF Open
    <3> QED BY <2>2, <3>1, ClaimWindow
  <2> QED BY <1>2, <2>1, <2>2
<1>4. /\ \A r \in Requests : pc'[r] = IF r \in Open(i) THEN "lost" ELSE pc[r]
      /\ pc' \in [Requests -> Pcs]
      /\ rejection' \in [Requests -> {"none", "sending", "settled"}]
      /\ checkedAt' \in [Requests -> Nat]
  BY <1>1 DEF TypeOK, Pcs
<1>5. TypeOK'
  <2>1. expiry' \in [Envelopes -> Nat]
    BY <1>1, <1>3 DEF TypeOK
  <2>2. authorized' \subseteq Requests
    BY <1>1 DEF Open, TypeOK
  <2> QED BY <1>1, <1>4, <2>1, <2>2 DEF TypeOK, Phases
<1>6. Timely'
  <2>1. \A r \in Requests : pc'[r] \in {"auth", "claim"} => pc'[r] = pc[r] /\ checkedAt'[r] = checkedAt[r]
    BY <1>1, <1>4
  <2> QED BY <1>1, <2>1 DEF Timely
<1>7. Lasting'
  BY <1>1, <1>3 DEF Lasting
<1>8. Sole => Sole'
  <2>1. \A r \in Holders' : r \in Holders
    BY <1>4 DEF Holders, Open
  <2>2. \A r \in Holders : sent[r] \in Envelopes
    BY <1>1 DEF Holders, TypeOK
  <2> QED BY <1>1, <1>3, <2>1, <2>2 DEF Sole
<1>9. Draining'
  <2>1. ASSUME NEW j \in Instances, j # i
        PROVE  /\ Open(j)' = Open(j) /\ Sending(j)' = Sending(j)
               /\ phase'[j] = phase[j] /\ awaited'[j] = awaited[j]
    <3>1. \A r \in Requests : at[r] = j => pc'[r] = pc[r] /\ rejection'[r] = rejection[r]
      BY <1>1, <1>4, <2>1 DEF Open, Sending
    <3> QED BY <1>1, <2>1, <3>1 DEF Open, Sending, TypeOK
  <2>2. phase'[i] = "down"
    BY <1>1 DEF TypeOK
  <2>3. \A r \in Requests : rejection'[r] = "sending" => pc'[r] = "done"
    BY <1>1, <1>4 DEF Draining, Open, Active
  <2> QED BY <1>1, <2>1, <2>2, <2>3 DEF Draining, Stopping
<1> QED BY <1>5, <1>6, <1>7, <1>8, <1>9 DEF BaseInv

(* Every step preserves BaseInv, and IInv within the margin.               *)
LEMMA NextKeeps ==
  ASSUME BaseInv, [Next]_vars
  PROVE  BaseInv' /\ (MarginSuffices /\ Sole => Sole')
<1> DEFINE Kept == BaseInv' /\ (MarginSuffices /\ Sole => Sole')
<1>1. CASE Tick
  BY <1>1, TickKeeps
<1>2. ASSUME NEW r \in Requests, Arrive(r) \/ HandlerStep(r) \/ ClaimFails(r) \/ PublishFails(r)
      PROVE  Kept
  BY <1>2, RequestStepKeeps
<1>3. ASSUME NEW r \in Requests, SettleRejection(r) PROVE Kept
  BY <1>3, SettleKeeps
<1>t. TypeOK /\ Draining /\ faults \in Nat
  BY DEF BaseInv, TypeOK
<1>4. ASSUME NEW i \in Instances, Stop(i) PROVE Kept
  BY <1>4, <1>t, PhaseKeeps DEF Stop, MoveTo, Phases, Stopping
<1>5. ASSUME NEW i \in Instances, RunOnClose(i) PROVE Kept
  <2>1. /\ Sending(i) \in SUBSET Requests
        /\ awaited' = [awaited EXCEPT ![i] = Sending(i)] /\ awaited'[i] = Sending(i)
    BY <1>5, <1>t DEF RunOnClose, Sending, TypeOK
  <2>2. \A r \in Open(i) : r \in gone /\ r \notin Sending(i)
    BY <1>5, <1>t DEF RunOnClose, Open, Sending, Active, Draining
  <2>3. /\ phase' = [phase EXCEPT ![i] = "draining"] /\ faults' \in Nat
        /\ UNCHANGED <<now, input, handlers, expiry, authorized>>
    BY <1>5, <1>t DEF RunOnClose, MoveTo
  <2> QED BY <2>1, <2>2, <2>3, PhaseKeeps DEF Phases
<1>6. ASSUME NEW i \in Instances, CloseNonceStore(i) PROVE Kept
  <2>1. \A r \in Sending(i) : r \notin awaited[i]
    BY <1>6 DEF CloseNonceStore, Sending
  <2>2. phase[i] = "draining" /\ phase' = [phase EXCEPT ![i] = "quitting"] /\ awaited' = awaited
    BY <1>6 DEF CloseNonceStore, MoveTo
  <2>3. \A r \in Open(i) \cup Sending(i) : r \in gone /\ r \notin awaited[i]
    BY <1>t, <2>1, <2>2 DEF Draining, Stopping
  <2> QED BY <1>6, <1>t, <2>2, <2>3, PhaseKeeps DEF CloseNonceStore, MoveTo, Phases
<1>10. ASSUME NEW i \in Instances, CloseProducer(i) PROVE Kept
  <2>1. phase[i] = "quitting" /\ phase' = [phase EXCEPT ![i] = "closed"] /\ awaited' = awaited
    BY <1>10 DEF CloseProducer, MoveTo
  <2>2. \A r \in Open(i) \cup Sending(i) : r \in gone /\ r \notin awaited[i]
    BY <1>t, <2>1 DEF Draining, Stopping
  <2> QED BY <1>10, <1>t, <2>1, <2>2, PhaseKeeps DEF CloseProducer, MoveTo, Phases
<1>11. ASSUME NEW i \in Instances, Exit(i) PROVE Kept
  BY <1>11, <1>t, LostKeeps DEF Exit
<1>7. ASSUME NEW i \in Instances, Crash(i) PROVE Kept
  <2>1. faults' \in Nat /\ ProcessLost(i)
    BY <1>7, <1>t DEF Crash
  <2>2. PICK landed \in SUBSET Open(i) :
          /\ expiry' = [e \in Envelopes |->
               IF /\ phase[i] # "closed" /\ ~Claimed(e)
                  /\ \E r \in landed : pc[r] = "claim" /\ sent[r] = e
               THEN now + Ttl ELSE expiry[e]]
          /\ authorized' = authorized \cup {r \in landed : pc[r] = "publish"}
    BY <1>7 DEF Crash
  <2> QED BY <2>1, <2>2, LostKeeps
<1>8. ASSUME NEW i \in Instances, Restart(i) PROVE Kept
  <2>1. phase' = [phase EXCEPT ![i] = "open"] /\ UNCHANGED <<now, input>>
    BY <1>8 DEF Restart, MoveTo
  <2> QED BY <1>8, <1>t, <2>1, PhaseKeeps DEF Restart, Phases, Stopping
<1>12. ASSUME NEW r \in Requests, Disconnect(r) PROVE Kept
  BY <1>12, DisconnectKeeps
<1>9. CASE UNCHANGED vars
  BY <1>9 DEF vars, BaseInv, TypeOK, Timely, Lasting, Sole, Holders, Draining, Open, Sending
<1> QED BY <1>1, <1>2, <1>3, <1>4, <1>5, <1>6, <1>7, <1>8, <1>9, <1>10, <1>11, <1>12 DEF Next

-----------------------------------------------------------------------------
(* What does not need the margin holds in every reachable state.           *)
THEOREM BaseInvariant == Spec => []BaseInv
<1>1. Init => BaseInv
  BY InitInv DEF IInv
<1>2. BaseInv /\ [Next]_vars => BaseInv'
  BY NextKeeps
<1> QED BY <1>1, <1>2, PTL DEF Spec

(* The inductive invariant holds while drift and delay are within the      *)
(* margin.                                                                 *)
THEOREM Invariant == MarginSuffices => (Spec => []IInv)
<1> SUFFICES ASSUME MarginSuffices PROVE Spec => []IInv
  OBVIOUS
<1>1. Init => IInv
  BY InitInv
<1>2. IInv /\ [Next]_vars => IInv'
  BY NextKeeps DEF IInv
<1> QED BY <1>1, <1>2, PTL DEF Spec

(* Type correctness.                                                       *)
THEOREM TypeCorrect == Spec => []TypeOK
<1>1. BaseInv => TypeOK
  BY DEF BaseInv
<1> QED BY <1>1, BaseInvariant, PTL

(* A signed envelope yields at most one authorized event.                  *)
THEOREM AtMostOnce == MarginSuffices => (Spec => []AuthorizedOnce)
<1>1. IInv => AuthorizedOnce
  BY DEF IInv, Sole, Holders, AuthorizedOnce
<1> QED BY <1>1, Invariant, PTL

(* The claim of a published envelope outlives its acceptance window.       *)
THEOREM ClaimOutlivesWindow == MarginSuffices => (Spec => []ClaimCoversWindow)
<1>1. MarginSuffices /\ IInv => ClaimCoversWindow
  <2> SUFFICES ASSUME MarginSuffices, IInv, NEW r \in authorized, NEW i \in Instances,
                      Passes(sent[r], i)
               PROVE  now < expiry[sent[r]]
    BY DEF ClaimCoversWindow, Claimed
  <2> DEFINE e == sent[r]
             d == drift[i]
  <2>1. /\ e \in Envelopes /\ stamp[e] \in Nat /\ expiry[e] \in Nat /\ now \in Nat
        /\ d \in -MaxDrift..MaxDrift
    BY DEF IInv, BaseInv, TypeOK
  <2>2. /\ Skew \in Nat \ {0} /\ Ttl \in Nat /\ Margin \in Nat
        /\ MaxDrift \in Nat /\ MaxDelay \in Nat
        /\ Ttl >= 2 * Skew + Margin /\ 2 * MaxDrift + MaxDelay < Margin
    BY EndpointAssumption, ConfigAssumption DEF MinimumTtl, MarginSuffices
  <2>3. expiry[e] >= stamp[e] - Skew - MaxDrift + Ttl
    BY <2>1 DEF IInv, BaseInv, Sole, Holders, Lasting
  <2>4. now + d - stamp[e] \in -Skew..Skew
    BY DEF Passes
  <2> HIDE DEF e, d
  <2>5. now < expiry[e]
    BY <2>1, <2>2, <2>3, <2>4
  <2> QED BY <2>5 DEF e
<1>2. MarginSuffices => [](IInv => ClaimCoversWindow)
  <2> SUFFICES ASSUME MarginSuffices PROVE [](IInv => ClaimCoversWindow)
    OBVIOUS
  <2>1. IInv => ClaimCoversWindow
    BY <1>1
  <2> QED BY <2>1, PTL
<1> QED BY <1>2, Invariant, PTL

(* Redis and the producer are closed only under handlers whose client has  *)
(* gone and under rejected events that such handlers raised too late.      *)
THEOREM OnlyTheGoneAreCutOff == Spec => []ServedBeforeClose
<1>1. BaseInv => ServedBeforeClose
  BY DEF BaseInv, Draining, Stopping, ServedBeforeClose
<1> QED BY <1>1, BaseInvariant, PTL

-----------------------------------------------------------------------------
(* Who is told that its copy is a duplicate.                               *)

(* A step of one handler: what HonestInv asks of it.  With no fault it     *)
(* leaves the holders what they are, or makes the request that sets a      *)
(* claim one of them.                                                      *)
LEMMA HonestHandler ==
  ASSUME TypeOK, HonestInv,
         NEW r \in Requests, NEW from \in Active \cup {"unsent"}, NEW to \in Active \cup {"done"},
         Step(r, from, to),
         \/ reply' = reply /\ from # "publish"
         \/ /\ to = "done"
            /\ \E code \in Replies \ {"none"} : reply' = [reply EXCEPT ![r] = code],
         faults' = 0 =>
           /\ faults = 0
           /\ from = "publish" => reply'[r] = "accepted"
           /\ (reply'[r] = "duplicate_nonce" /\ from = "claim") => Claimed(sent[r])
           /\ from # "claim" => reply'[r] # "duplicate_nonce"
           /\ authorized' = IF from = "publish" THEN authorized \cup {r} ELSE authorized
           /\ \/ expiry' = expiry
              \/ to = "publish" /\ SetClaim(sent[r])
  PROVE  HonestInv'
<1>1. /\ Attributed /\ ConflictIsHonest
      /\ pc[r] = from /\ pc' = [pc EXCEPT ![r] = to]
      /\ sent' = sent /\ now' = now /\ gone' = gone
      /\ pc \in [Requests -> Pcs] /\ reply \in [Requests -> Replies]
      /\ sent \in [Requests -> Envelopes] /\ expiry \in [Envelopes -> Nat]
      /\ authorized \subseteq Requests /\ now \in Nat
  BY DEF HonestInv, Step, input, TypeOK
<1>2. /\ reply[r] = "none" /\ from # "done"
      /\ faults = 0 => r \notin authorized
  BY <1>1 DEF Attributed, Active
<1>3. /\ \A s \in Requests : pc'[s] = IF s = r THEN to ELSE pc[s]
      /\ \A s \in Requests \ {r} : reply'[s] = reply[s]
      /\ reply'[r] # "none" => to = "done"
  BY <1>1, <1>2
<1>4. \A s \in Requests : reply'[s] # "none" => pc'[s] = "done"
  BY <1>1, <1>3 DEF Attributed
<1> SUFFICES ASSUME faults' = 0
             PROVE  /\ gone' = {}
                    /\ \A s \in authorized' : reply'[s] = "accepted"
                    /\ \A e \in Envelopes : expiry'[e] # 0 => \E s \in Holders' : sent[s] = e
                    /\ \A q \in Requests : reply'[q] = "duplicate_nonce" =>
                         \E s \in Requests \ {q} : sent[s] = sent[q] /\ s \in Holders'
  <2>1. \A s : s \in Holders' <=> (s \in Requests /\ pc'[s] = "publish") \/ s \in authorized'
    BY DEF Holders
  <2> QED BY <1>1, <1>4, <2>1 DEF HonestInv, Attributed, ConflictIsHonest
<1>5. /\ faults = 0 /\ gone' = {}
      /\ \A s \in authorized : reply[s] = "accepted"
      /\ \A e \in Envelopes : expiry[e] # 0 => \E s \in Holders : sent[s] = e
      /\ \A q \in Requests : reply[q] = "duplicate_nonce" =>
           \E s \in Requests \ {q} : sent[s] = sent[q] /\ s \in Holders
  BY <1>1 DEF Attributed, ConflictIsHonest, Holders
<1>6. /\ \A s \in Holders : s \in Holders'
      /\ to = "publish" => r \in Holders'
      /\ Holders \subseteq Requests
  BY <1>1, <1>3, <1>5 DEF Holders
<1>7. \A s \in authorized' : reply'[s] = "accepted"
  BY <1>1, <1>2, <1>3, <1>5
<1>8. ASSUME NEW e \in Envelopes, expiry'[e] # 0 PROVE \E s \in Holders' : sent[s] = e
  <2>1. CASE expiry'[e] = expiry[e]
    BY <1>5, <1>6, <1>8, <2>1
  <2>2. CASE to = "publish" /\ e = sent[r]
    BY <1>6, <2>2
  <2> QED BY <1>1, <1>5, <2>1, <2>2 DEF SetClaim
<1>9. ASSUME NEW q \in Requests, reply'[q] = "duplicate_nonce"
      PROVE  \E s \in Requests \ {q} : sent[s] = sent[q] /\ s \in Holders'
  <2>1. CASE q # r
    BY <1>3, <1>5, <1>6, <1>9, <2>1
  <2>2. CASE q = r
    <3>1. from = "claim" /\ Claimed(sent[r])
      BY <1>9, <2>2
    <3>2. expiry[sent[r]] # 0 /\ sent[r] \in Envelopes
      BY <1>1, <3>1 DEF Claimed
    <3>3. PICK s \in Holders : sent[s] = sent[r]
      BY <1>5, <3>2
    <3>4. s # r
      BY <1>1, <1>2, <1>5, <3>1 DEF Holders
    <3> QED BY <1>6, <2>2, <3>3, <3>4
  <2> QED BY <2>1, <2>2
<1> QED BY <1>5, <1>7, <1>8, <1>9

(* The other steps answer nobody, and without a fault they move no claim   *)
(* and no event.                                                           *)
LEMMA HonestElsewhere ==
  ASSUME HonestInv, reply' = reply, sent' = sent,
         \A r \in Requests : pc[r] = "done" => pc'[r] = "done",
         faults' = 0 => faults = 0 /\ UNCHANGED <<gone, pc, expiry, authorized>>
  PROVE  HonestInv'
<1>1. \A r \in Requests : reply'[r] # "none" => pc'[r] = "done"
  BY DEF HonestInv, Attributed
<1>2. ASSUME faults' = 0
      PROVE  /\ gone' = {}
             /\ \A r \in authorized' : reply'[r] = "accepted"
             /\ \A e \in Envelopes : expiry'[e] # 0 => \E r \in Holders' : sent'[r] = e
             /\ ConflictIsHonest'
  BY <1>2 DEF HonestInv, Attributed, Holders, ConflictIsHonest
<1> QED BY <1>1, <1>2 DEF HonestInv, Attributed, ConflictIsHonest

(* Every step preserves HonestInv.                                         *)
LEMMA HonestKeeps ==
  ASSUME BaseInv, HonestInv, [Next]_vars
  PROVE  HonestInv'
<1>t. /\ TypeOK /\ faults \in Nat /\ reply \in [Requests -> Replies]
      /\ \A r \in Requests : reply[r] # "none" => pc[r] = "done"
  BY DEF BaseInv, TypeOK, HonestInv, Attributed
<1>g. faults = 0 => \A i \in Instances : phase[i] \in Stopping => Open(i) = {}
  BY DEF BaseInv, Draining, HonestInv, Attributed
<1>f. faults + 1 # 0
  BY <1>t
<1>1. ASSUME NEW r \in Requests, Arrive(r) \/ AcceptTimestamp(r) \/ AcceptSensor(r) \/ ClaimNonce(r)
      PROVE  HonestInv'
  <2>1. /\ reply' = reply /\ faults' = faults /\ authorized' = authorized
        /\ reply[r] = "none"
    BY <1>1, <1>t DEF Arrive, AcceptTimestamp, AcceptSensor, ClaimNonce, Step
  <2>2. CASE Arrive(r) \/ AcceptTimestamp(r) \/ AcceptSensor(r)
    BY <1>t, <2>1, <2>2, HonestHandler DEF Arrive, AcceptTimestamp, AcceptSensor, Active
  <2>3. CASE ClaimNonce(r)
    BY <1>t, <2>1, <2>3, HonestHandler DEF ClaimNonce, Active
  <2> QED BY <1>1, <2>2, <2>3
<1>2. ASSUME NEW r \in Requests, NEW from \in Active, NEW code \in Replies \ {"none"},
             Answer(r, from, code), faults' = faults, expiry' = expiry,
             authorized' = IF from = "publish" THEN authorized \cup {r} ELSE authorized,
             from = "publish" <=> code = "accepted",
             code = "duplicate_nonce" => from = "claim" /\ Claimed(sent[r])
      PROVE  HonestInv'
  <2>1. Step(r, from, "done") /\ reply' = [reply EXCEPT ![r] = code] /\ reply'[r] = code
    BY <1>2, <1>t DEF Answer
  <2> QED BY <1>2, <1>t, <2>1, HonestHandler
<1>3. ASSUME NEW r \in Requests, RefuseEnvelope(r) \/ RefuseStale(r) \/ RefuseSensor(r)
      PROVE  HonestInv'
  BY <1>2, <1>3 DEF RefuseEnvelope, RefuseStale, RefuseSensor, Reject, Active, Replies
<1>4. ASSUME NEW r \in Requests, RefuseDuplicate(r) PROVE HonestInv'
  BY <1>2, <1>4 DEF RefuseDuplicate, Reject, Active, Replies
<1>5. ASSUME NEW r \in Requests, PublishAuthorized(r) \/ PublishToDlq(r) PROVE HonestInv'
  BY <1>2, <1>5 DEF PublishAuthorized, PublishToDlq, Active, Replies
<1>6. ASSUME NEW r \in Requests, ClaimFails(r) PROVE HonestInv'
  <2>1. PICK code \in {"nonce_store_unavailable", "duplicate_nonce"} : Answer(r, "claim", code)
    BY <1>6 DEF ClaimFails, Reject
  <2>2. /\ Step(r, "claim", "done") /\ reply' = [reply EXCEPT ![r] = code]
        /\ code \in Replies \ {"none"}
    BY <2>1 DEF Answer, Replies
  <2>3. faults' # 0
    BY <1>6, <1>f DEF ClaimFails
  <2> QED BY <1>t, <2>2, <2>3, HonestHandler DEF Active
<1>7. ASSUME NEW r \in Requests, PublishFails(r) PROVE HonestInv'
  <2>1. /\ Step(r, "publish", "dlq") /\ reply' = reply /\ faults' # 0
    BY <1>7, <1>f DEF PublishFails
  <2>2. \A s \in Requests : pc[s] = "done" => pc'[s] = "done"
    BY <1>t, <2>1 DEF Step, TypeOK
  <2> QED BY <2>1, <2>2, HonestElsewhere DEF Step, input
<1>8. CASE Tick
  BY <1>8, HonestElsewhere DEF Tick, input, handlers
<1>9. ASSUME NEW r \in Requests, SettleRejection(r) PROVE HonestInv'
  BY <1>9, HonestElsewhere DEF SettleRejection, input
<1>10. ASSUME NEW i \in Instances,
              Stop(i) \/ RunOnClose(i) \/ CloseNonceStore(i) \/ CloseProducer(i) \/ Restart(i)
       PROVE  HonestInv'
  BY <1>10, HonestElsewhere
     DEF Stop, RunOnClose, CloseNonceStore, CloseProducer, Restart, MoveTo, input, handlers
<1>11. ASSUME NEW i \in Instances, Crash(i) \/ Exit(i) PROVE HonestInv'
  <2>1. /\ reply' = reply /\ sent' = sent /\ gone' = gone
        /\ pc' = [r \in Requests |-> IF r \in Open(i) THEN "lost" ELSE pc[r]]
    BY <1>11 DEF Crash, Exit, ProcessLost, MoveTo, input
  <2>2. \A s \in Requests : pc[s] = "done" => pc'[s] = "done"
    BY <2>1 DEF Open, Active
  <2>3. CASE Crash(i)
    <3>1. faults' # 0
      BY <1>f, <2>3 DEF Crash
    <3> QED BY <2>1, <2>2, <3>1, HonestElsewhere
  <2>4. CASE Exit(i)
    <3>1. faults' = faults /\ expiry' = expiry /\ phase[i] \in Stopping
      BY <2>4 DEF Exit, Stopping
    <3>2. ASSUME faults = 0 PROVE pc' = pc /\ authorized' = authorized
      <4>1. Open(i) = {}
        BY <1>g, <3>1, <3>2
      <4>2. pc' = pc
        BY <1>t, <2>1, <4>1 DEF TypeOK
      <4>3. authorized' = authorized
        BY <2>4, <4>1 DEF Exit
      <4> QED BY <4>2, <4>3
    <3> QED BY <2>1, <2>2, <3>1, <3>2, HonestElsewhere
  <2> QED BY <1>11, <2>3, <2>4
<1>13. ASSUME NEW r \in Requests, ClaimRefused(r) \/ PublishRefused(r) PROVE HonestInv'
  <2>1. phase[at[r]] \in Stopping /\ r \in Open(at[r]) /\ at[r] \in Instances /\ faults' = faults
    BY <1>13, <1>t DEF ClaimRefused, PublishRefused, Answer, Step, Open, Active, Stopping, TypeOK
  <2>2. faults' # 0
    BY <1>g, <2>1
  <2>3. CASE ClaimRefused(r)
    BY <1>t, <2>2, <2>3, HonestHandler DEF ClaimRefused, Answer, Active, Replies
  <2>4. CASE PublishRefused(r)
    <3>1. Step(r, "publish", "dlq") /\ reply' = reply
      BY <2>4 DEF PublishRefused
    <3>2. \A s \in Requests : pc[s] = "done" => pc'[s] = "done"
      BY <1>t, <3>1 DEF Step, TypeOK
    <3> QED BY <2>2, <3>1, <3>2, HonestElsewhere DEF Step, input
  <2> QED BY <1>13, <2>3, <2>4
<1>14. ASSUME NEW r \in Requests, Disconnect(r) PROVE HonestInv'
  <2>1. faults' # 0
    BY <1>14, <1>f DEF Disconnect
  <2> QED BY <1>14, <2>1, HonestElsewhere DEF Disconnect, handlers
<1>12. CASE UNCHANGED vars
  BY <1>12, HonestElsewhere DEF vars
<1> QED BY <1>1, <1>3, <1>4, <1>5, <1>6, <1>7, <1>8, <1>9, <1>10, <1>11, <1>12, <1>13, <1>14
    DEF Next, HandlerStep

(* Without a fault, a copy is refused as a duplicate only when another one *)
(* is published or about to be: nothing else ever takes the claim.         *)
THEOREM DuplicatesAreReal == Spec => []ConflictIsHonest
<1>1. Init => HonestInv
  BY DEF Init, HonestInv, Attributed, ConflictIsHonest
<1>2. BaseInv /\ HonestInv /\ [Next]_vars => HonestInv'
  BY HonestKeeps
<1>3. HonestInv => ConflictIsHonest
  BY DEF HonestInv
<1> QED BY <1>1, <1>2, <1>3, BaseInvariant, PTL DEF Spec

=============================================================================
