------------------------------- MODULE Endpoint -------------------------------
(***************************************************************************)
(* The endpoint service: instances behind a load balancer answer           *)
(* POST /v1/telemetry.  A request is parsed, its timestamp is compared     *)
(* with the instance's clock, its sensor is authenticated, its nonce is    *)
(* claimed in the Redis that all instances share, and only the request     *)
(* that obtained the claim publishes to telemetry.authorized.v1.  Clients  *)
(* retry, so several requests may carry one signed envelope, to several    *)
(* instances and at any time.                                              *)
(*                                                                         *)
(* An action is the code between two awaits.  A nonce belongs to one       *)
(* signed envelope (sensors do not reuse them) and the derived keys do not *)
(* collide, so a claim is kept per envelope.  A client may close its       *)
(* connection before it is answered; nothing tells the handler, which goes *)
(* on.  The rate limit only answers requests earlier and is left out.      *)
(***************************************************************************)
EXTENDS Integers, FiniteSets

CONSTANTS
  Instances,  (* endpoint processes                                        *)
  Requests,   (* HTTP requests                                             *)
  Envelopes,  (* signed envelopes                                          *)
  Skew,       (* ENDPOINT_TIMESTAMP_SKEW_SECONDS                           *)
  Ttl,        (* NONCE_TTL_SECONDS                                         *)
  Margin,     (* NONCE_TTL_MARGIN_SECONDS                                  *)
  MaxDrift,   (* the clock of an instance is that close to Redis' clock    *)
  MaxDelay,   (* seconds from the timestamp check to the claim in Redis    *)
  Stamps,     (* bound: the timestamps of envelopes                        *)
  MaxTime,    (* bound: the time                                           *)
  MaxFaults   (* bound: failed calls, crashes and clients that give up     *)

(* What loadNonceConfig() and startEndpoint() assert of the configuration. *)
MinimumTtl == 2 * Skew + Margin

ASSUME EndpointAssumption ==
  /\ Skew \in Nat \ {0} /\ Ttl \in Nat /\ Margin \in Nat
  /\ MaxDrift \in Nat /\ MaxDelay \in Nat
  /\ Stamps \subseteq Nat /\ MaxTime \in Nat /\ MaxFaults \in Nat

ASSUME ConfigAssumption == Ttl >= MinimumTtl

(* Nothing in the code bounds drift or delay; this is what must hold of    *)
(* them for the margin to do its work.                                     *)
MarginSuffices == 2 * MaxDrift + MaxDelay < Margin

VARIABLES
  now,        (* Redis' clock                                              *)
  drift,      (* drift[i]: the clock of instance i minus Redis' clock      *)
  stamp,      (* stamp[e]: the timestamp of envelope e                     *)
  sent,       (* sent[r]: the envelope request r carries                   *)
  at,         (* at[r]: the instance request r is sent to                  *)
  gone,       (* requests whose client has closed its connection           *)
  phase,      (* phase[i]: what instance i as a whole is doing             *)
  awaited,    (* awaited[i]: rejected events that the onClose hook awaits  *)
  pc,         (* pc[r]: where the handler of request r is                  *)
  checkedAt,  (* checkedAt[r]: when its timestamp was checked, 0 if that   *)
              (* is of no account                                          *)
  reply,      (* reply[r]: what it was answered                            *)
  rejection,  (* rejection[r]: its event for telemetry.rejected.v1         *)
  expiry,     (* expiry[e]: when the claim of its nonce expires, 0 if none *)
  authorized, (* telemetry.authorized.v1: the requests with an event in it *)
  faults      (* failed calls, crashes and clients that gave up so far     *)

input    == <<drift, stamp, sent, at, gone>>
handlers == <<pc, checkedAt, reply, rejection>>
vars     == <<now, drift, stamp, sent, at, gone, phase, awaited, pc, checkedAt, reply,
              rejection, expiry, authorized, faults>>

(* stop() awaits the connections in "closing", the rejected events in      *)
(* "draining", the answer to QUIT in "quitting"; in "closed" the producer  *)
(* is closed too.                                                          *)
Phases  == {"open", "closing", "draining", "quitting", "closed", "down"}
Active  == {"parse", "auth", "claim", "publish", "dlq"}
Pcs     == Active \cup {"unsent", "done", "lost"}
Replies == {"none", "invalid_envelope", "stale_timestamp", "sensor_forbidden",
            "nonce_store_unavailable", "duplicate_nonce", "kafka_unavailable", "accepted"}

Init ==
  /\ now = 0
  /\ drift \in [Instances -> -MaxDrift..MaxDrift]
  /\ stamp \in [Envelopes -> Stamps]
  /\ sent \in [Requests -> Envelopes]
  /\ at \in [Requests -> Instances]
  /\ gone = {}
  /\ phase = [i \in Instances |-> "open"]
  /\ awaited = [i \in Instances |-> {}]
  /\ pc = [r \in Requests |-> "unsent"]
  /\ checkedAt = [r \in Requests |-> 0]
  /\ reply = [r \in Requests |-> "none"]
  /\ rejection = [r \in Requests |-> "none"]
  /\ expiry = [e \in Envelopes |-> 0]
  /\ authorized = {}
  /\ faults = 0

-----------------------------------------------------------------------------
(* Time passes, but an authentication and the claim after it take at most  *)
(* MaxDelay.                                                               *)
Tick ==
  /\ now < MaxTime
  /\ \A r \in Requests : pc[r] \in {"auth", "claim"} => now - checkedAt[r] < MaxDelay
  /\ now' = now + 1
  /\ UNCHANGED <<input, phase, awaited, handlers, expiry, authorized, faults>>

(* A claim is alive; a timestamp is within the skew of an instance's clock. *)
Claimed(e)   == now < expiry[e]
Passes(e, i) == now + drift[i] - stamp[e] \in -Skew..Skew
Fresh(r)     == Passes(sent[r], at[r])

(* The handler of a request goes on to its next await.                     *)
Step(r, from, to) ==
  /\ pc[r] = from
  /\ pc' = [pc EXCEPT ![r] = to]
  /\ UNCHANGED <<now, input, phase, awaited>>

(* Tick looks at the time of a check up to the claim only.                 *)
Unchecked(r) == checkedAt' = [checkedAt EXCEPT ![r] = 0]

(* It answers; some answers come with an event that is published without   *)
(* waiting for it (publishRejectedEvent).                                  *)
Answer(r, from, code) ==
  /\ Step(r, from, "done")
  /\ reply' = [reply EXCEPT ![r] = code]
  /\ Unchecked(r)

Reject(r, from, code) ==
  /\ Answer(r, from, code)
  /\ rejection' = [rejection EXCEPT ![r] = "sending"]

Arrive(r) ==
  /\ phase[at[r]] = "open"
  /\ Step(r, "unsent", "parse")
  /\ UNCHANGED <<checkedAt, reply, rejection, expiry, authorized, faults>>

(* The client gives up on a request whose handler is at work.              *)
Disconnect(r) ==
  /\ pc[r] \in Active /\ r \notin gone
  /\ faults < MaxFaults /\ faults' = faults + 1
  /\ gone' = gone \cup {r}
  /\ UNCHANGED <<now, drift, stamp, sent, at, phase, awaited, handlers, expiry, authorized>>

RefuseEnvelope(r) ==
  /\ Answer(r, "parse", "invalid_envelope")
  /\ UNCHANGED <<rejection, expiry, authorized, faults>>

RefuseStale(r) ==
  /\ ~Fresh(r)
  /\ Reject(r, "parse", "stale_timestamp")
  /\ UNCHANGED <<expiry, authorized, faults>>

AcceptTimestamp(r) ==
  /\ Fresh(r)
  /\ Step(r, "parse", "auth")
  /\ checkedAt' = [checkedAt EXCEPT ![r] = now]
  /\ UNCHANGED <<reply, rejection, expiry, authorized, faults>>

(* Mutant of SetClaim: the claim lasts for one skew only.                  *)
SetClaimForSkew(e) == expiry' = [expiry EXCEPT ![e] = now + Skew]

(* SET key token EX ttl NX: nothing ever deletes a claim.                  *)
SetClaim(e) == expiry' = [expiry EXCEPT ![e] = now + Ttl]

(* Mutants of RefuseSensor: the nonce is claimed before the sensor is      *)
(* authenticated; the answer has no rejection code.                        *)
RefuseSensorAfterClaim(r) ==
  /\ SetClaim(sent[r])
  /\ Reject(r, "auth", "sensor_forbidden")
  /\ UNCHANGED <<authorized, faults>>

RefuseSensorUncoded(r) ==
  /\ Reject(r, "auth", "forbidden")
  /\ UNCHANGED <<expiry, authorized, faults>>

(* registryReader.getSensorRecord() answers; CpsAuth answers "no" when the *)
(* chain cannot be read.                                                   *)
RefuseSensor(r) ==
  /\ Reject(r, "auth", "sensor_forbidden")
  /\ UNCHANGED <<expiry, authorized, faults>>

AcceptSensor(r) ==
  /\ Step(r, "auth", "claim")
  /\ UNCHANGED <<checkedAt, reply, rejection, expiry, authorized, faults>>

(* Redis answers until the QUIT that ends the connection.                  *)
StoreAnswers(r) == phase[at[r]] # "closed"

ClaimNonce(r) ==
  /\ StoreAnswers(r)
  /\ ~Claimed(sent[r])
  /\ SetClaim(sent[r])
  /\ Step(r, "claim", "publish")
  /\ Unchecked(r)
  /\ UNCHANGED <<reply, rejection, authorized, faults>>

(* Mutant of RefuseDuplicate: the event is sent, the answer forgotten.     *)
RefuseDuplicateSilently(r) ==
  /\ StoreAnswers(r)
  /\ Claimed(sent[r])
  /\ Step(r, "claim", "done")
  /\ rejection' = [rejection EXCEPT ![r] = "sending"]
  /\ Unchecked(r)
  /\ UNCHANGED <<reply, expiry, authorized, faults>>

RefuseDuplicate(r) ==
  /\ StoreAnswers(r)
  /\ Claimed(sent[r])
  /\ Reject(r, "claim", "duplicate_nonce")
  /\ UNCHANGED <<expiry, authorized, faults>>

(* The command fails or times out although Redis may have executed it; the *)
(* client may also have repeated it by itself after a lost answer          *)
(* (maxRetriesPerRequest), and then takes its own claim for another's.     *)
ClaimFails(r) ==
  /\ StoreAnswers(r)
  /\ faults < MaxFaults /\ faults' = faults + 1
  /\ \/ /\ UNCHANGED expiry
        /\ Answer(r, "claim", "nonce_store_unavailable")
        /\ UNCHANGED rejection
     \/ /\ ~Claimed(sent[r]) /\ SetClaim(sent[r])
        /\ Answer(r, "claim", "nonce_store_unavailable")
        /\ UNCHANGED rejection
     \/ /\ ~Claimed(sent[r]) /\ SetClaim(sent[r])
        /\ Reject(r, "claim", "duplicate_nonce")
  /\ UNCHANGED authorized

(* A command that follows the QUIT of a stop is refused.                   *)
ClaimRefused(r) ==
  /\ phase[at[r]] \in {"quitting", "closed"}
  /\ Answer(r, "claim", "nonce_store_unavailable")
  /\ UNCHANGED <<rejection, expiry, authorized, faults>>

PublishAuthorized(r) ==
  /\ authorized' = authorized \cup {r}
  /\ Answer(r, "publish", "accepted")
  /\ UNCHANGED <<rejection, expiry, faults>>

(* Mutant of PublishFails: the claim is released so that the client may    *)
(* retry.                                                                  *)
PublishFailsReleasing(r) ==
  /\ faults < MaxFaults /\ faults' = faults + 1
  /\ authorized' \in {authorized, authorized \cup {r}}
  /\ expiry' = [expiry EXCEPT ![sent[r]] = 0]
  /\ Step(r, "publish", "dlq")
  /\ UNCHANGED <<checkedAt, reply, rejection>>

(* The send fails, or its acknowledgement is lost; the claim is kept and a *)
(* marker is sent to the DLQ before the answer.                            *)
PublishFails(r) ==
  /\ faults < MaxFaults /\ faults' = faults + 1
  /\ authorized' \in {authorized, authorized \cup {r}}
  /\ Step(r, "publish", "dlq")
  /\ UNCHANGED <<checkedAt, reply, rejection, expiry>>

(* The producer has been closed: it refuses a new send and may leave one   *)
(* that it has sent without an answer.                                     *)
PublishRefused(r) ==
  /\ phase[at[r]] = "closed"
  /\ authorized' \in {authorized, authorized \cup {r}}
  /\ Step(r, "publish", "dlq")
  /\ UNCHANGED <<checkedAt, reply, rejection, expiry, faults>>

(* publishToDlq() is best effort: it returns whether the marker landed or  *)
(* not.                                                                    *)
PublishToDlq(r) ==
  /\ Answer(r, "dlq", "kafka_unavailable")
  /\ UNCHANGED <<rejection, expiry, authorized, faults>>

(* publishRejected() settles, published or not.                            *)
SettleRejection(r) ==
  /\ rejection[r] = "sending"
  /\ rejection' = [rejection EXCEPT ![r] = "settled"]
  /\ UNCHANGED <<now, input, phase, awaited, pc, checkedAt, reply, expiry, authorized, faults>>

-----------------------------------------------------------------------------
(* stop(): app.close() refuses new requests, waits for the connections and *)
(* runs the onClose hook, which awaits the rejected events then pending;   *)
(* only then Redis and then the producer are closed.  A handler whose      *)
(* client has gone holds no connection, so nothing waits for it.           *)
MoveTo(i, from, to) ==
  /\ phase[i] = from
  /\ phase' = [phase EXCEPT ![i] = to]
  /\ UNCHANGED <<now, input>>

Open(i)    == {r \in Requests : at[r] = i /\ pc[r] \in Active}
Sending(i) == {r \in Requests : at[r] = i /\ rejection[r] = "sending"}

Stop(i) ==
  /\ MoveTo(i, "open", "closing")
  /\ UNCHANGED <<awaited, handlers, expiry, authorized, faults>>

(* Mutants of RunOnClose: nothing is awaited, or every request's event.    *)
RunOnCloseAtOnce(i) ==
  /\ Open(i) \subseteq gone
  /\ MoveTo(i, "closing", "draining")
  /\ awaited' = [awaited EXCEPT ![i] = {}]
  /\ UNCHANGED <<handlers, expiry, authorized, faults>>

RunOnCloseForAll(i) ==
  /\ Open(i) \subseteq gone
  /\ MoveTo(i, "closing", "draining")
  /\ awaited' = [awaited EXCEPT ![i] = {r \in Requests : at[r] = i}]
  /\ UNCHANGED <<handlers, expiry, authorized, faults>>

RunOnClose(i) ==
  /\ Open(i) \subseteq gone
  /\ MoveTo(i, "closing", "draining")
  /\ awaited' = [awaited EXCEPT ![i] = Sending(i)]
  /\ UNCHANGED <<handlers, expiry, authorized, faults>>

(* nonceStore.close() sends QUIT, which Redis answers after the commands   *)
(* sent before it.                                                         *)
CloseNonceStore(i) ==
  /\ \A r \in awaited[i] : rejection[r] = "settled"
  /\ MoveTo(i, "draining", "quitting")
  /\ UNCHANGED <<awaited, handlers, expiry, authorized, faults>>

CloseProducer(i) ==
  /\ MoveTo(i, "quitting", "closed")
  /\ UNCHANGED <<awaited, handlers, expiry, authorized, faults>>

ProcessLost(i) ==
  /\ MoveTo(i, phase[i], "down")
  /\ pc' = [r \in Requests |-> IF r \in Open(i) THEN "lost" ELSE pc[r]]
  /\ rejection' = [r \in Requests |-> IF r \in Sending(i) THEN "none" ELSE rejection[r]]
  /\ checkedAt' = [r \in Requests |-> IF r \in Open(i) THEN 0 ELSE checkedAt[r]]
  /\ awaited' = [awaited EXCEPT ![i] = {}]
  /\ UNCHANGED reply

(* A stopped process exits, whatever handler is still at work.             *)
Exit(i) ==
  /\ phase[i] = "closed"
  /\ ProcessLost(i)
  /\ \E landed \in SUBSET {r \in Open(i) : pc[r] = "publish"} :
       authorized' = authorized \cup landed
  /\ UNCHANGED <<expiry, faults>>

(* The process dies; commands it has sent may still be executed.           *)
Crash(i) ==
  /\ phase[i] # "down"
  /\ faults < MaxFaults /\ faults' = faults + 1
  /\ ProcessLost(i)
  /\ \E landed \in SUBSET Open(i) :
       /\ expiry' = [e \in Envelopes |->
            IF /\ phase[i] # "closed" /\ ~Claimed(e)
               /\ \E r \in landed : pc[r] = "claim" /\ sent[r] = e
            THEN now + Ttl ELSE expiry[e]]
       /\ authorized' = authorized \cup {r \in landed : pc[r] = "publish"}

Restart(i) ==
  /\ MoveTo(i, "down", "open")
  /\ UNCHANGED <<awaited, handlers, expiry, authorized, faults>>

-----------------------------------------------------------------------------
HandlerStep(r) ==
  \/ RefuseEnvelope(r)
  \/ RefuseStale(r)
  \/ AcceptTimestamp(r)
  \/ RefuseSensor(r)
  \/ AcceptSensor(r)
  \/ ClaimNonce(r)
  \/ RefuseDuplicate(r)
  \/ ClaimRefused(r)
  \/ PublishAuthorized(r)
  \/ PublishRefused(r)
  \/ PublishToDlq(r)

Next ==
  \/ Tick
  \/ \E r \in Requests : Arrive(r)
  \/ \E r \in Requests : Disconnect(r)
  \/ \E r \in Requests : HandlerStep(r)
  \/ \E r \in Requests : ClaimFails(r)
  \/ \E r \in Requests : PublishFails(r)
  \/ \E r \in Requests : SettleRejection(r)
  \/ \E i \in Instances : Stop(i)
  \/ \E i \in Instances : RunOnClose(i)
  \/ \E i \in Instances : CloseNonceStore(i)
  \/ \E i \in Instances : CloseProducer(i)
  \/ \E i \in Instances : Exit(i)
  \/ \E i \in Instances : Crash(i)
  \/ \E i \in Instances : Restart(i)

Spec == Init /\ [][Next]_vars

(* Fairness: Node runs every callback that is due and every call returns.  *)
Fairness ==
  /\ \A r \in Requests : WF_vars(HandlerStep(r))
  /\ \A r \in Requests : WF_vars(SettleRejection(r))
  /\ \A i \in Instances : WF_vars(RunOnClose(i))
  /\ \A i \in Instances : WF_vars(CloseNonceStore(i))
  /\ \A i \in Instances : WF_vars(CloseProducer(i))
  /\ \A i \in Instances : WF_vars(Exit(i))

LiveSpec == Spec /\ Fairness

-----------------------------------------------------------------------------
(* Every variable has its type.                                            *)
TypeOK ==
  /\ now \in Nat
  /\ drift \in [Instances -> -MaxDrift..MaxDrift]
  /\ stamp \in [Envelopes -> Nat]
  /\ sent \in [Requests -> Envelopes]
  /\ at \in [Requests -> Instances]
  /\ gone \subseteq Requests
  /\ phase \in [Instances -> Phases]
  /\ awaited \in [Instances -> SUBSET Requests]
  /\ pc \in [Requests -> Pcs]
  /\ checkedAt \in [Requests -> Nat]
  /\ reply \in [Requests -> Replies]
  /\ rejection \in [Requests -> {"none", "sending", "settled"}]
  /\ expiry \in [Envelopes -> Nat]
  /\ authorized \subseteq Requests
  /\ faults \in Nat

(* A signed envelope yields at most one authorized event, whichever        *)
(* instances its copies reach, however late, and whatever fails or crashes *)
(* (services/endpoint/README.md, Replay protection).                       *)
AuthorizedOnce == \A r, s \in authorized : sent[r] = sent[s] => r = s

(* The claim of an envelope that was published outlives every moment at    *)
(* which its timestamp still passes at some instance.                      *)
ClaimCoversWindow ==
  \A r \in authorized : \A i \in Instances :
    Passes(sent[r], i) => Claimed(sent[r])

(* The inductive invariant behind both: a request that waits for its claim *)
(* was checked within MaxDelay (Timely); a claim, once set, lasts at least *)
(* until its timestamp can no longer be accepted (Lasting); and the holder *)
(* of an envelope, published or about to be, has its claim and is alone    *)
(* (Sole).                                                                 *)
Timely ==
  \A r \in Requests : pc[r] \in {"auth", "claim"} =>
    /\ checkedAt[r] + drift[at[r]] - stamp[sent[r]] \in -Skew..Skew
    /\ checkedAt[r] <= now /\ now - checkedAt[r] <= MaxDelay

Lasting ==
  \A e \in Envelopes : expiry[e] # 0 => expiry[e] >= stamp[e] - Skew - MaxDrift + Ttl

Holders == {r \in Requests : pc[r] = "publish"} \cup authorized

Sole ==
  /\ \A r \in Holders : expiry[sent[r]] # 0
  /\ \A r, s \in Holders : sent[r] = sent[s] => r = s

(* And behind ServedBeforeClose: a rejected event comes with the answer;   *)
(* from the onClose hook on, the handlers at work are those of clients     *)
(* that have gone, and a rejected event on its way is awaited unless such  *)
(* a handler raised it later.                                              *)
Stopping == {"draining", "quitting", "closed"}

Draining ==
  /\ \A r \in Requests : rejection[r] = "sending" => pc[r] = "done"
  /\ \A i \in Instances : phase[i] \in Stopping =>
       /\ \A r \in Open(i) : r \in gone /\ r \notin awaited[i]
       /\ \A r \in Sending(i) : r \in awaited[i] => phase[i] = "draining"
       /\ \A r \in Sending(i) : r \in awaited[i] \/ r \in gone

(* Of these only Sole needs the margin to suffice.                         *)
BaseInv == TypeOK /\ Timely /\ Lasting /\ Draining

IInv == BaseInv /\ Sole

(* Without a fault, and while clients wait for their answers, a copy is    *)
(* refused as a duplicate only when another one is published or about to   *)
(* be.                                                                     *)
ConflictIsHonest ==
  faults = 0 =>
    \A r \in Requests : reply[r] = "duplicate_nonce" =>
      \E s \in Requests \ {r} : sent[s] = sent[r] /\ (pc[s] = "publish" \/ s \in authorized)

(* The inductive invariant behind it: an answer ends its handler; without  *)
(* a fault nobody has given up, an event in the topic was answered as      *)
(* accepted, and the request that set a claim holds its envelope.          *)
Attributed ==
  /\ \A r \in Requests : reply[r] # "none" => pc[r] = "done"
  /\ faults = 0 => /\ gone = {}
                   /\ \A r \in authorized : reply[r] = "accepted"
                   /\ \A e \in Envelopes : expiry[e] # 0 => \E r \in Holders : sent[r] = e

HonestInv == Attributed /\ ConflictIsHonest

(* Redis and the producer are closed only under requests whose client had  *)
(* gone, and under rejected events such a request raised after the onClose *)
(* hook had looked: a client that waits is answered, and its rejected      *)
(* event is published or given up, before anything is closed.              *)
ServedBeforeClose ==
  \A i \in Instances : phase[i] \in {"quitting", "closed"} =>
    \A r \in Open(i) \cup Sending(i) : r \in gone /\ r \notin awaited[i]

(* Every request that was taken is answered, unless its instance crashes   *)
(* or, the client gone, stops.                                             *)
RequestsAnswered == \A r \in Requests : pc[r] = "parse" ~> (reply[r] # "none" \/ pc[r] = "lost")

(* A stop ends with the end of the process.                                *)
StopCompletes == \A i \in Instances : phase[i] = "closing" ~> phase[i] = "down"

=============================================================================
