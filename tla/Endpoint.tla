------------------------------ MODULE Endpoint ------------------------------
(***************************************************************************)
(* endpoint (services/endpoint/src/index.ts, producer.ts): the handler of  *)
(* POST /v1/telemetry.  Requests are handled concurrently, one await at a  *)
(* time: the envelope is validated and its timestamp compared with the     *)
(* clock, the sensor's record and its nonce are read, the telemetry is     *)
(* published to Kafka, and only then is the nonce remembered.              *)
(*                                                                         *)
(* The records and nonces are those of one of the two strategies of        *)
(* sensor-auth-factory.ts: in Redis (registry-sync, nonces expire and      *)
(* survive a restart) or in memory (whitelist, they do neither).           *)
(***************************************************************************)
EXTENDS Integers, FiniteSets

CONSTANTS
  Requests,     \* bound: requests sent, duplicates of an envelope among them
  Sensors,      \* sensor_id of the envelopes
  Nonces,       \* nonce of the envelopes
  Envelopes,    \* the signed envelopes devices send
  Strategies,   \* values of SENSOR_AUTH_STRATEGY under consideration
  Skew,         \* timestampSkewSeconds
  Ttl,          \* nonceTtlSeconds
  MaxLatency,   \* bound: time from a request's arrival to its answer
  MaxTime,      \* bound: the clock
  MaxRestarts,  \* bound: restarts of the process
  MaxUpdates,   \* bound: updates of sensor records by registry-sync
  Faults        \* may calls to Redis and Kafka fail?

ASSUME EnvelopeAssumption ==
  /\ Envelopes # {}
  /\ Envelopes \subseteq [sensor : Sensors, nonce : Nonces, time : Nat, valid : BOOLEAN]
ASSUME StrategyAssumption == Strategies \subseteq {"registry-sync", "whitelist"}
ASSUME TimeAssumption ==
  /\ Skew \in Nat
  /\ Ttl \in Nat \ {0}
  /\ MaxLatency \in Nat
  /\ MaxTime \in Nat
ASSUME EndpointBoundsAssumption ==
  /\ MaxRestarts \in Nat
  /\ MaxUpdates \in Nat
  /\ Faults \in BOOLEAN

VARIABLES
  now,          \* the clock
  enabled,      \* sensor -> is there a record, and is it enabled?
  expiry,       \* sensor and nonce -> when the remembered nonce expires, or 0
  pc,           \* request -> where its handler stands, or how it was answered
  env,          \* request -> its envelope
  since,        \* request -> when it arrived
  authorized,   \* requests whose telemetry is in telemetry.authorized.v1
  rejected,     \* requests with an event in telemetry.rejected.v1
  dlq,          \* requests with a failed publish in telemetry.dlq.v1
  acknowledged, \* history: envelopes answered with 202, as far as it must be known
  before,       \* history: those acknowledged when the request arrived
  vouched,      \* history: was its sensor enabled at a moment since it arrived?
  strategy,     \* SENSOR_AUTH_STRATEGY
  restarts, updates

requests == <<pc, env, since>>
topics   == <<authorized, rejected, dlq>>
history  == <<acknowledged, before, vouched>>
process  == <<strategy, restarts, updates>>
vars == <<now, enabled, expiry, requests, topics, history, process>>

\* What stands for the envelope of a request that has not arrived.
AnyEnvelope == CHOOSE e \in Envelopes : TRUE

Key(e) == <<e.sensor, e.nonce>>

InHandler == {"parse", "record", "nonce", "publish", "remember"}
Rejections == {"400", "401", "403", "409"}
Answers == Rejections \cup {"202", "500", "503"}

\* isNonceSeen: Redis forgets an expired nonce, the whitelist's set none.
SeenInRedis(k) == now < expiry[k]
SeenInMemory(k) == expiry[k] > 0
Seen(k) == IF strategy = "whitelist" THEN SeenInMemory(k) ELSE SeenInRedis(k)

\* getSensorRecord finds a record, and it is enabled.
Eligible(s) == enabled[s]

\* validateSignedEnvelope accepts the envelope and its signature.
Valid(e) == e.valid

\* The handler goes on to its next await.
GoTo(r, s) == pc' = [pc EXCEPT ![r] = s] /\ UNCHANGED since

\* The handler is done.
Answer(r, code) == pc' = [pc EXCEPT ![r] = code] /\ since' = [since EXCEPT ![r] = 0]

\* A call of the registry reader may reject; the one in memory does not.
ReaderMayFail == Faults /\ strategy = "registry-sync"

-----------------------------------------------------------------------------
(* Publishing.                                                             *)

\* A send that rejects is followed by one to the DLQ, which may fail as well;
\* the first may have reached its topic.
SendFails(r, topic) ==
  /\ Faults
  /\ topic' \in {topic, topic \cup {r}}
  /\ dlq' \in {dlq, dlq \cup {r}}

\* publishRejectedEvent: nobody waits for it.
PublishRejected(r) ==
  /\ \/ rejected' = rejected \cup {r} /\ UNCHANGED dlq
     \/ SendFails(r, rejected)
  /\ UNCHANGED authorized

-----------------------------------------------------------------------------
(* The handler.                                                            *)

Init ==
  /\ now = 0
  /\ enabled \in [Sensors -> BOOLEAN]
  /\ expiry = [k \in Sensors \X Nonces |-> 0]
  /\ pc = [r \in Requests |-> "none"]
  /\ env = [r \in Requests |-> AnyEnvelope]
  /\ since = [r \in Requests |-> 0]
  /\ authorized = {}
  /\ rejected = {}
  /\ dlq = {}
  /\ acknowledged = {}
  /\ before = [r \in Requests |-> {}]
  /\ vouched = [r \in Requests |-> FALSE]
  /\ strategy \in Strategies
  /\ restarts = 0
  /\ updates = 0

\* A request arrives with an envelope, which may have been sent before.
Arrive(r, e) ==
  /\ pc[r] = "none"
  /\ pc' = [pc EXCEPT ![r] = "parse"]
  /\ env' = [env EXCEPT ![r] = e]
  /\ since' = [since EXCEPT ![r] = now]
  /\ before' = [before EXCEPT ![r] = acknowledged]
  /\ vouched' = [vouched EXCEPT ![r] = enabled[e.sensor]]
  /\ UNCHANGED <<now, enabled, expiry, topics, acknowledged, process>>

\* parseSignedEnvelope fails: a broken envelope or a bad signature.
InvalidEnvelope(r) ==
  /\ pc[r] = "parse"
  /\ ~Valid(env[r])
  /\ Answer(r, "400")
  /\ UNCHANGED <<now, enabled, expiry, env, topics, history, process>>

\* Mutant: stamps from the future are not limited.
StaleOnlyPast(e) == now - e.time > Skew

\* Is the timestamp of the envelope too far from the clock?
Stale(e) == now - e.time > Skew \/ e.time - now > Skew

StaleTimestamp(r) ==
  /\ pc[r] = "parse"
  /\ Valid(env[r])
  /\ Stale(env[r])
  /\ Answer(r, "401")
  /\ PublishRejected(r)
  /\ UNCHANGED <<now, enabled, expiry, env, history, process>>

FreshTimestamp(r) ==
  /\ pc[r] = "parse"
  /\ Valid(env[r])
  /\ ~Stale(env[r])
  /\ GoTo(r, "record")
  /\ UNCHANGED <<now, enabled, expiry, env, topics, history, process>>

\* getSensorRecord: a sensor without a record, or a disabled one, is refused.
SensorForbidden(r) ==
  /\ pc[r] = "record"
  /\ ~Eligible(env[r].sensor)
  /\ Answer(r, "403")
  /\ PublishRejected(r)
  /\ UNCHANGED <<now, enabled, expiry, env, history, process>>

\* Mutant: a disabled record passes like an enabled one.
SensorKnown(r) ==
  /\ pc[r] = "record"
  /\ GoTo(r, "nonce")
  /\ UNCHANGED <<now, enabled, expiry, env, topics, history, process>>

SensorEnabled(r) ==
  /\ pc[r] = "record"
  /\ Eligible(env[r].sensor)
  /\ GoTo(r, "nonce")
  /\ UNCHANGED <<now, enabled, expiry, env, topics, history, process>>

DuplicateNonce(r) ==
  /\ pc[r] = "nonce"
  /\ Seen(Key(env[r]))
  /\ Answer(r, "409")
  /\ PublishRejected(r)
  /\ UNCHANGED <<now, enabled, expiry, env, history, process>>

\* Mutant: of a record that is found the nonce is not checked.
FreshNonceUnchecked(r) ==
  /\ pc[r] = "nonce"
  /\ GoTo(r, "publish")
  /\ UNCHANGED <<now, enabled, expiry, env, topics, history, process>>

FreshNonce(r) ==
  /\ pc[r] = "nonce"
  /\ ~Seen(Key(env[r]))
  /\ GoTo(r, "publish")
  /\ UNCHANGED <<now, enabled, expiry, env, topics, history, process>>

\* A read of the record or of the nonce rejects, which the handler does not
\* catch.
ReadFails(r) ==
  /\ ReaderMayFail
  /\ pc[r] \in {"record", "nonce"}
  /\ Answer(r, "500")
  /\ UNCHANGED <<now, enabled, expiry, env, topics, history, process>>

\* Mutant: the send is not awaited, and its failure not seen.
PublishUnacknowledged(r) ==
  /\ pc[r] = "publish"
  /\ GoTo(r, "remember")
  /\ authorized' \in {authorized, authorized \cup {r}}
  /\ UNCHANGED <<now, enabled, expiry, env, rejected, dlq, history, process>>

\* publishAuthorized.
Publish(r) ==
  /\ pc[r] = "publish"
  /\ GoTo(r, "remember")
  /\ authorized' = authorized \cup {r}
  /\ UNCHANGED <<now, enabled, expiry, env, rejected, dlq, history, process>>

PublishFails(r) ==
  /\ pc[r] = "publish"
  /\ Answer(r, "503")
  /\ SendFails(r, authorized)
  /\ UNCHANGED <<now, enabled, expiry, env, rejected, history, process>>

\* SET ... EX ttl NX: a nonce that is there keeps its expiry.
RememberNonce(k) ==
  expiry' = IF Seen(k) THEN expiry ELSE [expiry EXCEPT ![k] = now + Ttl]

\* Mutant: nobody waits for rememberNonce, which may fail.
AcceptUnremembered(r) ==
  /\ pc[r] = "remember"
  /\ RememberNonce(Key(env[r])) \/ UNCHANGED expiry
  /\ Answer(r, "202")
  /\ acknowledged' = acknowledged \cup {env[r]}
  /\ UNCHANGED <<now, enabled, env, topics, before, vouched, process>>

\* rememberNonce, and the answer.
Accept(r) ==
  /\ pc[r] = "remember"
  /\ RememberNonce(Key(env[r]))
  /\ Answer(r, "202")
  /\ acknowledged' = acknowledged \cup {env[r]}
  /\ UNCHANGED <<now, enabled, env, topics, before, vouched, process>>

\* rememberNonce rejects, possibly after it took effect: the telemetry stays
\* published, the device is told to come again.
RememberFails(r) ==
  /\ ReaderMayFail
  /\ pc[r] = "remember"
  /\ RememberNonce(Key(env[r])) \/ UNCHANGED expiry
  /\ Answer(r, "503")
  /\ UNCHANGED <<now, enabled, env, topics, history, process>>

-----------------------------------------------------------------------------
(* The surroundings.                                                       *)

\* registry-sync enables or disables a sensor.
UpdateSensor(s) ==
  /\ strategy = "registry-sync"
  /\ updates < MaxUpdates
  /\ updates' = updates + 1
  /\ enabled' = [enabled EXCEPT ![s] = ~@]
  /\ vouched' = [r \in Requests |->
                   vouched[r] \/ (pc[r] \in InHandler /\ env[r].sensor = s /\ ~enabled[s])]
  /\ UNCHANGED <<now, expiry, requests, topics, acknowledged, before, strategy, restarts>>

\* The clock advances, no faster than requests are answered.
Tick ==
  /\ now < MaxTime
  /\ \A r \in Requests : pc[r] \in InHandler => now < since[r] + MaxLatency
  /\ now' = now + 1
  /\ UNCHANGED <<enabled, expiry, requests, topics, history, process>>

\* The process restarts: requests under way are not answered, and the nonces
\* of the whitelist are forgotten, as what it acknowledged.
Restart ==
  /\ restarts < MaxRestarts
  /\ restarts' = restarts + 1
  /\ pc' = [r \in Requests |-> IF pc[r] \in InHandler THEN "lost" ELSE pc[r]]
  /\ since' = [r \in Requests |-> 0]
  /\ IF strategy = "whitelist"
     THEN expiry' = [k \in Sensors \X Nonces |-> 0] /\ acknowledged' = {}
     ELSE UNCHANGED <<expiry, acknowledged>>
  /\ UNCHANGED <<now, enabled, env, topics, before, vouched, strategy, updates>>

Handle(r) ==
  \/ \E e \in Envelopes : Arrive(r, e)
  \/ InvalidEnvelope(r) \/ StaleTimestamp(r) \/ FreshTimestamp(r)
  \/ SensorForbidden(r) \/ SensorEnabled(r)
  \/ DuplicateNonce(r) \/ FreshNonce(r)
  \/ ReadFails(r)
  \/ Publish(r) \/ PublishFails(r)
  \/ Accept(r) \/ RememberFails(r)

Next ==
  \/ \E r \in Requests : Handle(r)
  \/ \E s \in Sensors : UpdateSensor(s)
  \/ Tick
  \/ Restart

Spec == Init /\ [][Next]_vars

-----------------------------------------------------------------------------
(* Properties.                                                             *)

\* Type correctness, and what ties the answers to the nonces: whatever was
\* acknowledged has left its nonce behind, across failures and restarts.
TypeOK ==
  /\ now \in Nat
  /\ enabled \in [Sensors -> BOOLEAN]
  /\ expiry \in [Sensors \X Nonces -> Nat]
  /\ pc \in [Requests -> {"none", "lost"} \cup InHandler \cup Answers]
  /\ env \in [Requests -> Envelopes]
  /\ since \in [Requests -> Nat]
  /\ authorized \subseteq Requests
  /\ rejected \subseteq Requests
  /\ dlq \subseteq Requests
  /\ acknowledged \subseteq Envelopes
  /\ \A e \in acknowledged : expiry[Key(e)] > 0
  /\ before \in [Requests -> SUBSET Envelopes]
  /\ vouched \in [Requests -> BOOLEAN]
  /\ strategy \in Strategies
  /\ restarts \in 0..MaxRestarts
  /\ updates \in 0..MaxUpdates

\* An envelope that was answered with 202 is not accepted again: the nonce
\* check, the timestamp window and the lifetime of nonces together stop every
\* duplicate that arrives after the answer, as long as nonces outlive the
\* window in which an envelope is fresh.  With registry-sync that includes
\* restarts; the whitelist knows only what it acknowledged since the last one.
AcknowledgedIsNotRepeated ==
  \A r \in Requests : pc[r] = "202" => env[r] \notin before[r]

\* Telemetry is published only for a sensor that was enabled at some moment
\* since its request arrived: a record read before the publish may be out of
\* date by then, one from before the request is never used.
PublishedWasVouched == \A r \in authorized : vouched[r]

\* What is answered agrees with what is published: an accepted envelope is in
\* telemetry.authorized.v1, a refused one is not, and no request has events
\* in both topics.
AnswerMatchesTopics ==
  \A r \in Requests :
    /\ pc[r] = "202" => r \in authorized
    /\ pc[r] \in Rejections => r \notin authorized
    /\ r \in rejected => pc[r] \in Rejections

\* How a request counts for those outside: what was lost in a restart failed
\* like what was answered with an error.
Verdict(r) ==
  CASE pc[r] = "none" -> "none"
    [] pc[r] \in InHandler -> "open"
    [] pc[r] = "202" -> "acknowledged"
    [] pc[r] \in Rejections -> "refused"
    [] OTHER -> "failed"

Gate == INSTANCE Ingress WITH
  verdict <- [r \in Requests |-> Verdict(r)],
  published <- authorized,
  durable <- strategy = "registry-sync"

\* The awaits of the handler, taken together, decide every request as if at
\* one moment: concurrent requests, failing calls and restarts show nothing
\* that Ingress does not allow.
DecidesAtOnce == Gate!Spec

\* wp-02-endpoint.md: "Duplicate nonce for same sensor must return 409
\* Conflict".
DuplicateIsConflict ==
  \A q, r \in Requests :
    (q # r /\ pc[q] = "202" /\ pc[r] = "202") => Key(env[q]) # Key(env[r])

=============================================================================
