--------------------------- MODULE EndpointProofs ---------------------------
(***************************************************************************)
(* Proofs about Endpoint for every set of requests and envelopes, every    *)
(* skew, latency and lifetime of nonces, and both strategies.              *)
(*                                                                         *)
(* That an acknowledged envelope is not accepted again rests on the nonce  *)
(* outliving the window in which the envelope is fresh.  The invariant     *)
(* therefore says how long the nonce of an acknowledged envelope, and that *)
(* of a request about to be acknowledged, is remembered at least.          *)
(***************************************************************************)
EXTENDS Endpoint, TLAPS

USE EnvelopeAssumption, StrategyAssumption, TimeAssumption, EndpointBoundsAssumption

-----------------------------------------------------------------------------
(* Type correctness.                                                       *)

\* What an envelope is made of.
LEMMA EnvelopeParts ==
  ASSUME NEW e \in Envelopes
  PROVE  /\ e.sensor \in Sensors /\ e.nonce \in Nonces /\ e.time \in Nat
         /\ Key(e) \in Sensors \X Nonces
BY DEF Key

LEMMA AnyEnvelopeType == AnyEnvelope \in Envelopes
BY DEF AnyEnvelope

Stages == {"none", "lost"} \cup InHandler \cup Answers

\* A request under way is no older than MaxLatency.
InTime ==
  \A r \in Requests : pc[r] \in InHandler =>
    since[r] <= now /\ now <= since[r] + MaxLatency

TInv == TypeOK /\ InTime

USE DEF TInv

\* The requests: where they stand and when they arrived.
RequestsOK ==
  /\ pc \in [Requests -> Stages]
  /\ env \in [Requests -> Envelopes]
  /\ since \in [Requests -> Nat]
  /\ InTime

\* The store, what is published, and the rest.
StoreOK ==
  /\ now \in Nat
  /\ enabled \in [Sensors -> BOOLEAN]
  /\ expiry \in [Sensors \X Nonces -> Nat]

TopicsOK == authorized \subseteq Requests /\ rejected \subseteq Requests /\ dlq \subseteq Requests

\* What is acknowledged, and its nonces.
NoncesOK ==
  /\ acknowledged \subseteq Envelopes
  /\ \A e \in acknowledged : expiry[Key(e)] > 0

RestOK ==
  /\ before \in [Requests -> SUBSET Envelopes]
  /\ vouched \in [Requests -> BOOLEAN]
  /\ strategy \in Strategies
  /\ restarts \in 0..MaxRestarts
  /\ updates \in 0..MaxUpdates

LEMMA TypeParts == TInv <=> StoreOK /\ RequestsOK /\ TopicsOK /\ NoncesOK /\ RestOK
BY DEF TypeOK, StoreOK, RequestsOK, TopicsOK, NoncesOK, RestOK, Stages

LEMMA TypePartsNext ==
  TInv' <=> StoreOK' /\ RequestsOK' /\ TopicsOK' /\ NoncesOK' /\ RestOK'
BY DEF TypeOK, StoreOK, RequestsOK, TopicsOK, NoncesOK, RestOK, Stages

LEMMA TypeInit == Init => TInv
BY AnyEnvelopeType DEF Init, TypeOK, InTime, InHandler

\* A request under way is answered, or goes on.
LEMMA AnswerType ==
  ASSUME TInv, NEW r \in Requests, NEW code \in Answers, Answer(r, code),
         UNCHANGED <<now, env>>
  PROVE  RequestsOK'
BY DEF TypeOK, InTime, RequestsOK, Answer, Answers, Rejections, InHandler, Stages

LEMMA GoToType ==
  ASSUME TInv, NEW r \in Requests, NEW s \in InHandler, GoTo(r, s),
         pc[r] \in InHandler, UNCHANGED <<now, env>>
  PROVE  RequestsOK'
BY DEF TypeOK, InTime, RequestsOK, GoTo, InHandler, Stages

LEMMA RememberType ==
  ASSUME TInv, NEW e \in Envelopes, RememberNonce(Key(e)) \/ UNCHANGED expiry
  PROVE  /\ expiry' \in [Sensors \X Nonces -> Nat]
         /\ \A k \in Sensors \X Nonces : expiry[k] > 0 => expiry'[k] > 0
<1>1. Key(e) \in Sensors \X Nonces /\ now + Ttl \in Nat /\ now + Ttl > 0
  BY EnvelopeParts DEF TypeOK
<1>2. QED
  BY <1>1 DEF TypeOK, RememberNonce

\* Once remembered, whether now or by a request that raced with this one, the
\* nonce is there.
LEMMA RememberStores ==
  ASSUME TypeOK, NEW e \in Envelopes, RememberNonce(Key(e))
  PROVE  expiry'[Key(e)] > 0
<1>1. Key(e) \in Sensors \X Nonces /\ expiry[Key(e)] \in Nat /\ now \in Nat
  BY EnvelopeParts DEF TypeOK
<1>2. CASE Seen(Key(e))
  BY <1>1, <1>2 DEF RememberNonce, Seen, SeenInRedis, SeenInMemory
<1>3. CASE ~Seen(Key(e))
  <2>1. expiry' = [expiry EXCEPT ![Key(e)] = now + Ttl]
    BY <1>3 DEF RememberNonce
  <2>2. now + Ttl > 0
    BY <1>1
  <2>3. QED
    BY <1>1, <2>1, <2>2 DEF TypeOK
<1>4. QED
  BY <1>2, <1>3

\* The steps of the handler, by what they do to the request: those that
\* answer it, those that go on with it, and what else they change.
Answering(r) ==
  \/ InvalidEnvelope(r) \/ StaleTimestamp(r) \/ SensorForbidden(r) \/ DuplicateNonce(r)
  \/ ReadFails(r) \/ PublishFails(r) \/ Accept(r) \/ RememberFails(r)

Proceeding(r) ==
  FreshTimestamp(r) \/ SensorEnabled(r) \/ FreshNonce(r) \/ Publish(r)

\* What every step that answers leaves alone.
LEMMA AnsweringFacts ==
  ASSUME TInv, NEW r \in Requests, Answering(r)
  PROVE  /\ pc[r] \in InHandler
         /\ \E code \in Answers : Answer(r, code)
         /\ UNCHANGED <<now, enabled, env, before, vouched, process>>
         /\ \/ UNCHANGED acknowledged
            \/ Accept(r) /\ acknowledged' = acknowledged \cup {env[r]}
         /\ RememberNonce(Key(env[r])) \/ UNCHANGED expiry
         /\ authorized' \in {authorized, authorized \cup {r}}
         /\ rejected' \in {rejected, rejected \cup {r}}
         /\ dlq' \in {dlq, dlq \cup {r}}
<1>1. CASE InvalidEnvelope(r) \/ ReadFails(r)
  BY <1>1 DEF InvalidEnvelope, ReadFails, Answers, Rejections, InHandler, topics, history
<1>2. CASE StaleTimestamp(r) \/ SensorForbidden(r) \/ DuplicateNonce(r)
  <2>1. PublishRejected(r)
    BY <1>2 DEF StaleTimestamp, SensorForbidden, DuplicateNonce
  <2>2. /\ UNCHANGED authorized
        /\ rejected' \in {rejected, rejected \cup {r}}
        /\ dlq' \in {dlq, dlq \cup {r}}
    BY <2>1 DEF PublishRejected, SendFails
  <2>3. QED
    BY <1>2, <2>2 DEF StaleTimestamp, SensorForbidden, DuplicateNonce, Answers,
       Rejections, InHandler, history
<1>3. CASE PublishFails(r)
  BY <1>3 DEF PublishFails, SendFails, Answers, InHandler, history
<1>4. CASE Accept(r) \/ RememberFails(r)
  BY <1>4 DEF Accept, RememberFails, Answers, InHandler, topics, history
<1>5. QED
  BY <1>1, <1>2, <1>3, <1>4 DEF Answering

\* Only Accept answers with 202.
LEMMA AcceptedFacts ==
  ASSUME TInv, NEW r \in Requests, Answering(r), pc'[r] = "202"
  PROVE  Accept(r)
<1>1. \A code \in Answers : Answer(r, code) => code = "202"
  BY DEF Answer, TypeOK
<1>2. ~InvalidEnvelope(r) /\ ~StaleTimestamp(r) /\ ~SensorForbidden(r) /\ ~DuplicateNonce(r)
  BY <1>1 DEF InvalidEnvelope, StaleTimestamp, SensorForbidden, DuplicateNonce,
     Answers, Rejections
<1>3. ~ReadFails(r) /\ ~PublishFails(r) /\ ~RememberFails(r)
  BY <1>1 DEF ReadFails, PublishFails, RememberFails, Answers
<1>4. QED
  BY <1>2, <1>3 DEF Answering

LEMMA ProceedingFacts ==
  ASSUME TInv, NEW r \in Requests, Proceeding(r)
  PROVE  /\ pc[r] \in InHandler
         /\ \E s \in InHandler \ {"parse"} : GoTo(r, s)
         /\ UNCHANGED <<now, enabled, expiry, env, rejected, dlq, history, process>>
         /\ authorized' \in {authorized, authorized \cup {r}}
BY DEF Proceeding, FreshTimestamp, SensorEnabled, FreshNonce, Publish, InHandler, topics

LEMMA HandleKinds ==
  ASSUME NEW r \in Requests, Handle(r)
  PROVE  Answering(r) \/ Proceeding(r) \/ \E e \in Envelopes : Arrive(r, e)
BY DEF Handle, Answering, Proceeding

LEMMA TypeNext == TInv /\ [Next]_vars => TInv'
<1> SUFFICES ASSUME TInv, [Next]_vars PROVE TInv'
  OBVIOUS
<1>t. StoreOK /\ RequestsOK /\ TopicsOK /\ NoncesOK /\ RestOK
  BY TypeParts
<1>1. ASSUME NEW r \in Requests, NEW e \in Envelopes, Arrive(r, e) PROVE TInv'
  <2>1. StoreOK' /\ TopicsOK' /\ NoncesOK'
    BY <1>t, <1>1 DEF Arrive, StoreOK, TopicsOK, NoncesOK, topics
  <2>2. RequestsOK'
    BY <1>t, <1>1 DEF Arrive, RequestsOK, InTime, StoreOK, InHandler, Stages
  <2>3. RestOK'
    <3>1. enabled[e.sensor] \in BOOLEAN
      BY <1>t, EnvelopeParts DEF StoreOK
    <3>2. QED
      BY <1>t, <1>1, <3>1 DEF Arrive, NoncesOK, RestOK, process
  <2>4. QED
    BY <2>1, <2>2, <2>3, TypePartsNext
<1>2. ASSUME NEW r \in Requests, Answering(r) PROVE TInv'
  <2>1. RequestsOK'
    BY <1>2, AnsweringFacts, AnswerType
  <2>2. env[r] \in Envelopes
    BY <1>t DEF RequestsOK
  <2>3. StoreOK'
    BY <1>2, <1>t, <2>2, AnsweringFacts, RememberType DEF StoreOK
  <2>4. TopicsOK' /\ RestOK'
    BY <1>2, <1>t, AnsweringFacts DEF TopicsOK, RestOK, process
  <2>5. NoncesOK'
    <3>1. \A e \in acknowledged : expiry'[Key(e)] > 0
      BY <1>2, <1>t, <2>2, AnsweringFacts, RememberType, EnvelopeParts DEF NoncesOK
    <3>2. CASE UNCHANGED acknowledged
      BY <1>t, <3>1, <3>2 DEF NoncesOK
    <3>3. CASE Accept(r) /\ acknowledged' = acknowledged \cup {env[r]}
      <4>1. expiry'[Key(env[r])] > 0
        BY <2>2, <3>3, RememberStores DEF Accept
      <4>2. QED
        BY <1>t, <2>2, <3>1, <3>3, <4>1 DEF NoncesOK
    <3>4. QED
      BY <1>2, <3>2, <3>3, AnsweringFacts
  <2>6. QED
    BY <2>1, <2>3, <2>4, <2>5, TypePartsNext
<1>3. ASSUME NEW r \in Requests, Proceeding(r) PROVE TInv'
  <2>1. RequestsOK'
    BY <1>3, ProceedingFacts, GoToType
  <2>2. StoreOK' /\ TopicsOK' /\ NoncesOK' /\ RestOK'
    BY <1>3, <1>t, ProceedingFacts DEF StoreOK, TopicsOK, NoncesOK, RestOK, history, process
  <2>3. QED
    BY <2>1, <2>2, TypePartsNext
<1>4. ASSUME NEW s \in Sensors, UpdateSensor(s) PROVE TInv'
  <2>1. StoreOK' /\ RequestsOK' /\ TopicsOK' /\ NoncesOK'
    BY <1>4, <1>t DEF UpdateSensor, StoreOK, RequestsOK, InTime, TopicsOK, NoncesOK,
       requests, topics
  <2>2. vouched' \in [Requests -> BOOLEAN]
    BY <1>4, <1>t DEF UpdateSensor, RestOK, StoreOK
  <2>3. RestOK'
    BY <1>4, <1>t, <2>2 DEF UpdateSensor, RestOK
  <2>4. QED
    BY <2>1, <2>3, TypePartsNext
<1>5. CASE Tick
  <2>1. RequestsOK'
    BY <1>5, <1>t DEF Tick, RequestsOK, InTime, StoreOK, requests
  <2>2. StoreOK' /\ TopicsOK' /\ NoncesOK' /\ RestOK'
    BY <1>5, <1>t DEF Tick, StoreOK, TopicsOK, NoncesOK, RestOK, topics, history, process
  <2>3. QED
    BY <2>1, <2>2, TypePartsNext
<1>6. CASE Restart
  <2>1. RequestsOK'
    BY <1>6, <1>t DEF Restart, RequestsOK, InTime, InHandler, Stages
  <2>2. StoreOK' /\ TopicsOK' /\ NoncesOK' /\ RestOK'
    BY <1>6, <1>t DEF Restart, StoreOK, TopicsOK, NoncesOK, RestOK, topics
  <2>3. QED
    BY <2>1, <2>2, TypePartsNext
<1>7. CASE UNCHANGED vars
  BY <1>7, <1>t, TypePartsNext DEF StoreOK, RequestsOK, InTime, TopicsOK, NoncesOK,
     RestOK, vars, requests, topics, history, process
<1>8. QED
  BY <1>1, <1>2, <1>3, <1>4, <1>5, <1>6, <1>7, HandleKinds DEF Next

\* The variables of the endpoint stay in their types, and whatever it has
\* acknowledged has left its nonce behind.
THEOREM TypeCorrect == Spec => []TypeOK
<1>1. TInv => TypeOK
  OBVIOUS
<1>2. QED
  BY <1>1, TypeInit, TypeNext, PTL DEF Spec

-----------------------------------------------------------------------------
(* An acknowledged envelope stays refused.                                 *)

\* Nonces outlive the window in which a request with the envelope can reach
\* the nonce check.
NoncesOutliveWindow == Ttl > 2 * Skew + MaxLatency

\* The nonce of the envelope is remembered until it can no longer be fresh.
Covered(e) ==
  IF strategy = "whitelist" THEN expiry[Key(e)] > 0
  ELSE expiry[Key(e)] + Skew >= e.time + Ttl

\* A request past the timestamp check was fresh since it arrived.
PassedIsFresh ==
  \A r \in Requests : pc[r] \in InHandler \ {"parse"} =>
    /\ now + Skew >= env[r].time
    /\ since[r] <= env[r].time + Skew

\* Past the nonce check the nonce is free, or remembered for long enough by a
\* request that raced with this one.
PendingIsCovered ==
  \A r \in Requests : pc[r] \in {"publish", "remember"} =>
    ~Seen(Key(env[r])) \/ Covered(env[r])

\* What was acknowledged, and what was so when a request under way arrived.
AcknowledgedCovered == \A e \in acknowledged : Covered(e)

BeforeIsCovered ==
  \A r \in Requests : pc[r] \in InHandler => \A e \in before[r] : Covered(e)

\* A request that passed the nonce check arrived before its envelope was
\* acknowledged.
PassedIsNew ==
  \A r \in Requests : pc[r] \in {"publish", "remember", "202"} => env[r] \notin before[r]

RepeatInv ==
  /\ TInv
  /\ PassedIsFresh
  /\ PendingIsCovered
  /\ AcknowledgedCovered
  /\ BeforeIsCovered
  /\ PassedIsNew

LEMMA RepeatInit == Init => RepeatInv
BY TypeInit DEF Init, RepeatInv, PassedIsFresh, PendingIsCovered, AcknowledgedCovered,
   BeforeIsCovered, PassedIsNew, InHandler

\* Remembering a nonce never shortens what is covered, leaves an envelope
\* whose nonce was free or covered so, and covers its own.
LEMMA RememberCovers ==
  ASSUME TInv, NEW k \in Sensors \X Nonces, NEW e \in Envelopes,
         RememberNonce(k) \/ UNCHANGED expiry, UNCHANGED <<now, strategy>>
  PROVE  /\ Covered(e) => Covered(e)'
         /\ now + Skew >= e.time /\ (~Seen(Key(e)) \/ Covered(e)) =>
              /\ ~Seen(Key(e))' \/ Covered(e)'
              /\ RememberNonce(k) /\ k = Key(e) => Covered(e)'
<1>1. /\ Key(e) \in Sensors \X Nonces /\ e.time \in Nat
      /\ expiry[k] \in Nat /\ expiry[Key(e)] \in Nat /\ now \in Nat
  BY EnvelopeParts DEF TypeOK
<1>2. CASE UNCHANGED expiry
  <2>1. Covered(e)' = Covered(e) /\ Seen(Key(e))' = Seen(Key(e))
    BY <1>2 DEF Covered, Seen, SeenInMemory, SeenInRedis
  <2>2. RememberNonce(k) /\ k = Key(e) /\ ~Seen(k) => FALSE
    <3>1. RememberNonce(k) /\ ~Seen(k) => expiry[k] = now + Ttl
      BY <1>2, <1>1 DEF RememberNonce, TypeOK
    <3>2. ~Seen(k) => expiry[k] <= now
      BY <1>1 DEF Seen, SeenInMemory, SeenInRedis
    <3>3. QED
      BY <3>1, <3>2, <1>1
  <2>3. QED
    BY <2>1, <2>2
<1>3. CASE ~Seen(k) /\ expiry' = [expiry EXCEPT ![k] = now + Ttl]
  <2>1. CASE k = Key(e)
    <3>1. expiry'[Key(e)] = now + Ttl
      BY <1>1, <1>3, <2>1 DEF TypeOK
    <3>2. expiry[Key(e)] <= now
      BY <1>1, <1>3, <2>1 DEF Seen, SeenInMemory, SeenInRedis
    <3>3. QED
      BY <1>1, <3>1, <3>2 DEF Covered
  <2>2. CASE k # Key(e)
    <3>1. expiry'[Key(e)] = expiry[Key(e)]
      BY <1>1, <1>3, <2>2 DEF TypeOK
    <3>2. Covered(e)' = Covered(e) /\ Seen(Key(e))' = Seen(Key(e))
      BY <3>1 DEF Covered, Seen, SeenInMemory, SeenInRedis
    <3>3. QED
      BY <3>2, <2>2
  <2>3. QED
    BY <2>1, <2>2
<1>4. QED
  BY <1>2, <1>3 DEF RememberNonce

\* A covered nonce is seen by every request that is still fresh.
LEMMA CoveredIsSeen ==
  ASSUME RepeatInv, NoncesOutliveWindow, NEW r \in Requests, pc[r] = "nonce",
         Covered(env[r])
  PROVE  Seen(Key(env[r]))
<1>1. /\ env[r] \in Envelopes /\ since[r] \in Nat /\ now \in Nat
      /\ now <= since[r] + MaxLatency
  BY DEF RepeatInv, TypeOK, InTime, InHandler
<1>2. /\ env[r].time \in Nat /\ expiry[Key(env[r])] \in Nat
  BY <1>1, EnvelopeParts DEF RepeatInv, TypeOK
<1>3. since[r] <= env[r].time + Skew
  BY DEF RepeatInv, PassedIsFresh, InHandler
<1>4. QED
  BY <1>1, <1>2, <1>3 DEF NoncesOutliveWindow, Covered, Seen, SeenInMemory, SeenInRedis

\* What the invariant says of one request, and what of it depends on the
\* nonces alone.
RequestCovered(r) ==
  /\ pc[r] \in InHandler \ {"parse"} =>
       now + Skew >= env[r].time /\ since[r] <= env[r].time + Skew
  /\ pc[r] \in {"publish", "remember"} => ~Seen(Key(env[r])) \/ Covered(env[r])
  /\ pc[r] \in InHandler => \A e \in before[r] : Covered(e)
  /\ pc[r] \in {"publish", "remember", "202"} => env[r] \notin before[r]

LEMMA RepeatParts ==
  /\ RepeatInv <=> TInv /\ AcknowledgedCovered /\ \A r \in Requests : RequestCovered(r)
  /\ RepeatInv' <=> TInv' /\ AcknowledgedCovered' /\ \A r \in Requests : RequestCovered(r)'
BY DEF RepeatInv, PassedIsFresh, PendingIsCovered, BeforeIsCovered, PassedIsNew,
       RequestCovered

\* A step that remembers a nonce keeps the invariant for requests it does not
\* touch.
LEMMA OthersKept ==
  ASSUME RepeatInv, NEW k \in Sensors \X Nonces,
         RememberNonce(k) \/ UNCHANGED expiry, UNCHANGED <<now, strategy>>,
         NEW q \in Requests, pc'[q] = pc[q], env'[q] = env[q],
         since'[q] = since[q], before'[q] = before[q]
  PROVE  RequestCovered(q)'
<1>1. TInv /\ RequestCovered(q)
  BY RepeatParts
<1>2. env[q] \in Envelopes /\ before[q] \subseteq Envelopes
  BY <1>1 DEF TypeOK
<1>3. ASSUME NEW e \in Envelopes
      PROVE  /\ Covered(e) => Covered(e)'
             /\ now + Skew >= e.time /\ (~Seen(Key(e)) \/ Covered(e)) =>
                  ~Seen(Key(e))' \/ Covered(e)'
  BY <1>1, RememberCovers
<1>4. PICK e \in Envelopes : e = env[q] /\ env'[q] = e
  BY <1>2
<1>5. /\ pc[q] \in InHandler \ {"parse"} =>
           now + Skew >= e.time /\ since[q] <= e.time + Skew
      /\ pc[q] \in {"publish", "remember"} => ~Seen(Key(e)) \/ Covered(e)
      /\ pc[q] \in InHandler => \A d \in before[q] : Covered(d)
      /\ pc[q] \in {"publish", "remember", "202"} => e \notin before[q]
  BY <1>1, <1>4 DEF RequestCovered
<1>6. /\ pc'[q] \in InHandler \ {"parse"} =>
           now' + Skew >= e.time /\ since'[q] <= e.time + Skew
      /\ pc'[q] \in {"publish", "remember"} => ~Seen(Key(e))' \/ Covered(e)'
      /\ pc'[q] \in InHandler => \A d \in before'[q] : Covered(d)'
      /\ pc'[q] \in {"publish", "remember", "202"} => e \notin before'[q]
  BY <1>2, <1>3, <1>5 DEF InHandler
<1>7. QED
  BY <1>4, <1>6 DEF RequestCovered

LEMMA ArriveCovered ==
  ASSUME RepeatInv, NEW r \in Requests, NEW e \in Envelopes, Arrive(r, e)
  PROVE  AcknowledgedCovered' /\ \A q \in Requests : RequestCovered(q)'
<1>1. /\ pc'[r] = "parse" /\ UNCHANGED <<now, expiry>>
      /\ before'[r] = acknowledged /\ acknowledged' = acknowledged
      /\ \A q \in Requests \ {r} : /\ pc'[q] = pc[q] /\ env'[q] = env[q]
                                   /\ since'[q] = since[q] /\ before'[q] = before[q]
  BY DEF Arrive, RepeatInv, TypeOK
<1>0. UNCHANGED strategy
  BY DEF Arrive, process
<1>2. AcknowledgedCovered' /\ \A d \in before'[r] : Covered(d)'
  <2>1. AcknowledgedCovered
    BY DEF RepeatInv
  <2>2. QED
    BY <1>0, <1>1, <2>1 DEF Covered, AcknowledgedCovered
<1>3. RequestCovered(r)'
  BY <1>1, <1>2 DEF RequestCovered, InHandler
<1>4. ASSUME NEW q \in Requests \ {r} PROVE RequestCovered(q)'
  <2>1. Key(e) \in Sensors \X Nonces
    BY EnvelopeParts
  <2>2. QED
    BY <1>0, <1>1, <2>1, OthersKept
<1>5. QED
  BY <1>2, <1>3, <1>4

LEMMA AnsweringCovered ==
  ASSUME RepeatInv, NEW r \in Requests, Answering(r)
  PROVE  AcknowledgedCovered' /\ \A q \in Requests : RequestCovered(q)'
<1>1. TInv /\ RequestCovered(r)
  BY RepeatParts
<1>2. PICK e \in Envelopes : env[r] = e
  BY <1>1 DEF TypeOK
<1>3. /\ Key(e) \in Sensors \X Nonces
      /\ RememberNonce(Key(e)) \/ UNCHANGED expiry
      /\ UNCHANGED <<now, env, before, strategy>>
      /\ \E code \in Answers : Answer(r, code)
  BY <1>1, <1>2, AnsweringFacts, EnvelopeParts DEF process
<1>4. /\ pc'[r] \in Answers
      /\ \A q \in Requests \ {r} : pc'[q] = pc[q] /\ since'[q] = since[q]
  BY <1>1, <1>3 DEF Answer, TypeOK
<1>5. \A d \in Envelopes : Covered(d) => Covered(d)'
  BY <1>1, <1>3, RememberCovers
<1>6. pc'[r] \notin InHandler
  BY <1>4 DEF Answers, Rejections, InHandler
<1>7. CASE pc'[r] = "202"
  <2>1. pc[r] = "remember" /\ RememberNonce(Key(e))
    BY <1>1, <1>2, <1>7, AcceptedFacts DEF Accept
  <2>2. now + Skew >= e.time /\ (~Seen(Key(e)) \/ Covered(e)) /\ e \notin before[r]
    BY <1>1, <1>2, <2>1 DEF RequestCovered, InHandler
  <2>3. Covered(e)'
    BY <1>1, <1>3, <2>1, <2>2, RememberCovers
  <2>4. env'[r] = e /\ before'[r] = before[r]
    BY <1>2, <1>3
  <2>5. RequestCovered(r)'
    BY <1>6, <1>7, <2>2, <2>4 DEF RequestCovered, InHandler
  <2>6. acknowledged' \subseteq acknowledged \cup {e}
    BY <1>1, <1>2, AnsweringFacts
  <2>7. AcknowledgedCovered'
    <3>1. AcknowledgedCovered /\ acknowledged \subseteq Envelopes
      BY DEF RepeatInv, TypeOK
    <3>2. QED
      BY <1>5, <2>3, <2>6, <3>1 DEF AcknowledgedCovered
  <2>8. QED
    BY <1>3, <1>4, <2>5, <2>7, OthersKept
<1>8. CASE pc'[r] # "202"
  <2>1. RequestCovered(r)'
    BY <1>4, <1>6, <1>8 DEF RequestCovered, InHandler, Answers, Rejections
  <2>2. acknowledged' = acknowledged
    BY <1>1, <1>8, AnsweringFacts DEF Accept, Answer, TypeOK, Answers
  <2>3. AcknowledgedCovered'
    <3>1. AcknowledgedCovered /\ acknowledged \subseteq Envelopes
      BY DEF RepeatInv, TypeOK
    <3>2. QED
      BY <1>5, <2>2, <3>1 DEF AcknowledgedCovered
  <2>4. QED
    BY <1>3, <1>4, <2>1, <2>3, OthersKept
<1>9. QED
  BY <1>7, <1>8

LEMMA ProceedingCovered ==
  ASSUME RepeatInv, NoncesOutliveWindow, NEW r \in Requests, Proceeding(r)
  PROVE  AcknowledgedCovered' /\ \A q \in Requests : RequestCovered(q)'
<1>1. TInv /\ RequestCovered(r)
  BY RepeatParts
<1>2. PICK e \in Envelopes : env[r] = e
  BY <1>1 DEF TypeOK
<1>3. UNCHANGED <<now, expiry, env, since, before, acknowledged, strategy>>
  BY <1>1, ProceedingFacts DEF history, process, GoTo
<1>4. \A d : Covered(d)' = Covered(d) /\ Seen(Key(d))' = Seen(Key(d))
  BY <1>3 DEF Covered, Seen, SeenInMemory, SeenInRedis
<1>5. now \in Nat /\ since[r] \in Nat /\ since[r] <= now /\ e.time \in Nat
  BY <1>1, <1>2, ProceedingFacts, EnvelopeParts DEF TypeOK, InTime
<1>6. now + Skew >= e.time /\ since[r] <= e.time + Skew
  <2>1. CASE pc[r] # "parse"
    BY <1>1, <1>2, <2>1, ProceedingFacts DEF RequestCovered
  <2>2. CASE FreshTimestamp(r)
    BY <1>2, <1>5, <2>2 DEF FreshTimestamp, Stale
  <2>3. QED
    BY <2>1, <2>2 DEF Proceeding, SensorEnabled, FreshNonce, Publish
<1>7. pc'[r] \in {"publish", "remember"} =>
        (~Seen(Key(e)) \/ Covered(e)) /\ e \notin before[r]
  <2>1. CASE FreshNonce(r)
    <3>1. pc[r] = "nonce" /\ ~Seen(Key(e))
      BY <1>2, <2>1 DEF FreshNonce
    <3>2. ~Covered(e)
      BY <1>2, <3>1, CoveredIsSeen
    <3>3. QED
      BY <1>1, <1>2, <3>1, <3>2 DEF RequestCovered, InHandler
  <2>2. CASE Publish(r)
    BY <1>1, <1>2, <2>2 DEF Publish, RequestCovered
  <2>3. CASE FreshTimestamp(r) \/ SensorEnabled(r)
    BY <1>1, <2>3 DEF FreshTimestamp, SensorEnabled, GoTo, TypeOK
  <2>4. QED
    BY <2>1, <2>2, <2>3 DEF Proceeding
<1>8. pc'[r] \in InHandler
  BY <1>1, ProceedingFacts DEF GoTo, TypeOK
<1>9. RequestCovered(r)'
  <2>1. env'[r] = e /\ since'[r] = since[r] /\ before'[r] = before[r] /\ now' = now
    BY <1>2, <1>3
  <2>2. \A d \in before[r] : Covered(d)
    BY <1>1, ProceedingFacts DEF RequestCovered
  <2>3. QED
    BY <1>4, <1>6, <1>7, <1>8, <2>1, <2>2 DEF RequestCovered, InHandler
<1>10. ASSUME NEW q \in Requests \ {r} PROVE RequestCovered(q)'
  <2>1. pc'[q] = pc[q]
    BY <1>1, ProceedingFacts DEF GoTo, TypeOK
  <2>2. Key(e) \in Sensors \X Nonces
    BY EnvelopeParts
  <2>3. QED
    BY <1>3, <2>1, <2>2, OthersKept
<1>11. AcknowledgedCovered'
  BY <1>3, <1>4 DEF RepeatInv, AcknowledgedCovered
<1>12. QED
  BY <1>9, <1>10, <1>11

LEMMA TickCovered ==
  ASSUME RepeatInv, Tick
  PROVE  AcknowledgedCovered' /\ \A q \in Requests : RequestCovered(q)'
<1>0. AcknowledgedCovered'
  BY DEF Tick, RepeatInv, AcknowledgedCovered, Covered, history, process
<1> SUFFICES ASSUME NEW q \in Requests PROVE RequestCovered(q)'
  BY <1>0
<1>1. TInv /\ RequestCovered(q)
  BY RepeatParts
<1>2. PICK e \in Envelopes : env[q] = e /\ env'[q] = e
  BY <1>1 DEF TypeOK, Tick, requests
<1>3. now' = now + 1 /\ UNCHANGED <<expiry, pc, since, before, strategy>>
  BY DEF Tick, requests, history, process
<1>4. now \in Nat /\ expiry[Key(e)] \in Nat /\ e.time \in Nat
  BY <1>1, EnvelopeParts DEF TypeOK
<1>5. \A d : Covered(d)' = Covered(d)
  BY <1>3 DEF Covered
<1>6. ~Seen(Key(e)) => ~Seen(Key(e))'
  BY <1>3, <1>4 DEF Seen, SeenInMemory, SeenInRedis
<1>7. now + Skew >= e.time => now' + Skew >= e.time
  BY <1>3, <1>4
<1>8. QED
  BY <1>1, <1>2, <1>3, <1>5, <1>6, <1>7 DEF RequestCovered

\* The whitelist forgets its nonces and what it acknowledged together.
LEMMA RestartCovered ==
  ASSUME RepeatInv, Restart
  PROVE  AcknowledgedCovered' /\ \A q \in Requests : RequestCovered(q)'
<1>0. AcknowledgedCovered'
  BY DEF Restart, RepeatInv, AcknowledgedCovered, Covered
<1> SUFFICES ASSUME NEW q \in Requests PROVE RequestCovered(q)'
  BY <1>0
<1>1. TInv /\ RequestCovered(q)
  BY RepeatParts
<1>2. UNCHANGED <<env, before>>
  BY DEF Restart
<1>3. pc'[q] = pc[q] \/ pc'[q] = "lost"
  BY DEF Restart
<1>4. pc'[q] \notin InHandler
  BY <1>1 DEF Restart, TypeOK, InHandler
<1>5. QED
  BY <1>1, <1>2, <1>3, <1>4 DEF RequestCovered, InHandler

LEMMA RepeatNext == NoncesOutliveWindow /\ RepeatInv /\ [Next]_vars => RepeatInv'
<1> SUFFICES ASSUME NoncesOutliveWindow, RepeatInv, [Next]_vars PROVE RepeatInv'
  OBVIOUS
<1>1. TInv'
  BY TypeNext DEF RepeatInv
<1>2. AcknowledgedCovered' /\ \A q \in Requests : RequestCovered(q)'
  <2>1. CASE \E r \in Requests : Handle(r)
    BY <2>1, HandleKinds, ArriveCovered, AnsweringCovered, ProceedingCovered
  <2>2. CASE Tick
    BY <2>2, TickCovered
  <2>3. CASE Restart
    BY <2>3, RestartCovered
  <2>4. CASE (\E s \in Sensors : UpdateSensor(s)) \/ UNCHANGED vars
    <3>1. UNCHANGED <<now, expiry, requests, acknowledged, before, strategy>>
      BY <2>4 DEF UpdateSensor, vars, history, process
    <3>2. AcknowledgedCovered /\ \A q \in Requests : RequestCovered(q)
      BY RepeatParts
    <3>3. QED
      BY <3>1, <3>2 DEF RequestCovered, AcknowledgedCovered, requests, Covered, Seen, SeenInMemory, SeenInRedis
  <2>5. QED
    BY <2>1, <2>2, <2>3, <2>4 DEF Next
<1>3. QED
  BY <1>1, <1>2, RepeatParts

\* An envelope that was answered with 202 is not accepted again when it
\* arrives later, if a nonce outlives twice the skew and the time a request
\* takes: ever with registry-sync, until a restart with the whitelist.
THEOREM AcknowledgedStaysRefused ==
  ASSUME NoncesOutliveWindow
  PROVE  Spec => []AcknowledgedIsNotRepeated
<1>1. Init => RepeatInv
  BY RepeatInit
<1>2. RepeatInv /\ [Next]_vars => RepeatInv'
  BY RepeatNext
<1>3. RepeatInv => AcknowledgedIsNotRepeated
  BY DEF RepeatInv, PassedIsNew, AcknowledgedIsNotRepeated
<1>4. QED
  BY <1>1, <1>2, <1>3, PTL DEF Spec

-----------------------------------------------------------------------------
(* Answers and topics agree.                                               *)

\* Telemetry is published in the last step but one.
RequestMatches(r) ==
  /\ pc[r] \in {"remember", "202"} => r \in authorized
  /\ pc[r] \in ({"none"} \cup InHandler \cup Rejections) \ {"remember"} => r \notin authorized
  /\ r \in rejected => pc[r] \in Rejections

TopicInv == TInv /\ \A r \in Requests : RequestMatches(r)

LEMMA TopicInit == Init => TopicInv
BY TypeInit DEF Init, TopicInv, RequestMatches, Rejections

\* The request that is answered.
LEMMA AnsweringMatches ==
  ASSUME TopicInv, NEW r \in Requests, Answering(r)
  PROVE  RequestMatches(r)'
<1>1. TInv /\ RequestMatches(r)
  BY DEF TopicInv
<1>2. ASSUME NEW code \in Answers, Answer(r, code) PROVE pc'[r] = code
  BY <1>1, <1>2 DEF Answer, TypeOK
<1>3. CASE InvalidEnvelope(r)
  <2>1. pc'[r] = "400" /\ pc[r] = "parse" /\ UNCHANGED <<authorized, rejected>>
    BY <1>2, <1>3 DEF InvalidEnvelope, topics, Answers, Rejections
  <2>2. QED
    BY <1>1, <2>1 DEF RequestMatches, InHandler, Rejections
<1>4. CASE StaleTimestamp(r) \/ SensorForbidden(r) \/ DuplicateNonce(r)
  <2>1. /\ pc'[r] \in Rejections /\ pc[r] \in {"parse", "record", "nonce"}
        /\ UNCHANGED authorized
    BY <1>2, <1>4 DEF StaleTimestamp, SensorForbidden, DuplicateNonce, PublishRejected,
       Answers, Rejections
  <2>2. QED
    BY <1>1, <2>1 DEF RequestMatches, InHandler, Rejections
<1>5. CASE ReadFails(r)
  <2>1. pc'[r] = "500" /\ pc[r] \in {"record", "nonce"} /\ UNCHANGED <<authorized, rejected>>
    BY <1>2, <1>5 DEF ReadFails, topics, Answers
  <2>2. QED
    BY <1>1, <2>1 DEF RequestMatches, InHandler, Rejections
<1>6. CASE PublishFails(r)
  <2>1. pc'[r] = "503" /\ pc[r] = "publish" /\ UNCHANGED rejected
    BY <1>2, <1>6 DEF PublishFails, Answers
  <2>2. QED
    BY <1>1, <2>1 DEF RequestMatches, InHandler, Rejections
<1>7. CASE Accept(r) \/ RememberFails(r)
  <2>1. pc'[r] \in {"202", "503"} /\ pc[r] = "remember" /\ UNCHANGED <<authorized, rejected>>
    BY <1>2, <1>7 DEF Accept, RememberFails, topics, Answers
  <2>2. QED
    BY <1>1, <2>1 DEF RequestMatches, InHandler, Rejections
<1>8. QED
  BY <1>3, <1>4, <1>5, <1>6, <1>7 DEF Answering

LEMMA ProceedingMatches ==
  ASSUME TopicInv, NEW r \in Requests, Proceeding(r)
  PROVE  RequestMatches(r)'
<1>1. TInv /\ RequestMatches(r)
  BY DEF TopicInv
<1>2. CASE Publish(r)
  <2>1. pc'[r] = "remember" /\ pc[r] = "publish" /\ r \in authorized' /\ UNCHANGED rejected
    BY <1>1, <1>2 DEF Publish, GoTo, TypeOK
  <2>2. QED
    BY <1>1, <2>1 DEF RequestMatches, InHandler, Rejections
<1>3. CASE FreshTimestamp(r) \/ SensorEnabled(r) \/ FreshNonce(r)
  <2>1. /\ pc'[r] \in {"record", "nonce", "publish"} /\ pc[r] \in {"parse", "record", "nonce"}
        /\ UNCHANGED <<authorized, rejected>>
    BY <1>1, <1>3 DEF FreshTimestamp, SensorEnabled, FreshNonce, GoTo, TypeOK, topics
  <2>2. QED
    BY <1>1, <2>1 DEF RequestMatches, InHandler, Rejections
<1>4. QED
  BY <1>2, <1>3 DEF Proceeding

LEMMA TopicNext == TopicInv /\ [Next]_vars => TopicInv'
<1> SUFFICES ASSUME TopicInv, [Next]_vars, NEW q \in Requests PROVE RequestMatches(q)'
  BY TypeNext DEF TopicInv
<1>1. TInv /\ RequestMatches(q)
  BY DEF TopicInv
<1>2. ASSUME NEW r \in Requests, NEW e \in Envelopes, Arrive(r, e)
      PROVE  RequestMatches(q)'
  <2>1. /\ UNCHANGED <<authorized, rejected>>
        /\ pc'[q] = pc[q] \/ (pc[q] = "none" /\ pc'[q] = "parse")
    BY <1>1, <1>2 DEF Arrive, topics, TypeOK
  <2>2. QED
    BY <1>1, <2>1 DEF RequestMatches, InHandler, Rejections
<1>3. ASSUME NEW r \in Requests, Answering(r) \/ Proceeding(r)
      PROVE  RequestMatches(q)'
  <2>1. CASE q = r
    BY <1>3, <2>1, AnsweringMatches, ProceedingMatches
  <2>2. CASE q # r
    <3>1. /\ authorized' \in {authorized, authorized \cup {r}}
          /\ rejected' \in {rejected, rejected \cup {r}}
          /\ pc'[q] = pc[q]
      BY <1>1, <1>3, <2>2, AnsweringFacts, ProceedingFacts DEF Answer, GoTo, TypeOK
    <3>2. QED
      BY <1>1, <2>2, <3>1 DEF RequestMatches
  <2>3. QED
    BY <2>1, <2>2
<1>4. CASE Restart
  <2>1. /\ UNCHANGED <<authorized, rejected>>
        /\ (pc'[q] = "lost" /\ pc[q] \in InHandler) \/ pc'[q] = pc[q]
    BY <1>4 DEF Restart, topics
  <2>2. QED
    BY <1>1, <2>1 DEF RequestMatches, InHandler, Rejections
<1>5. CASE Tick \/ (\E s \in Sensors : UpdateSensor(s)) \/ UNCHANGED vars
  BY <1>1, <1>5 DEF Tick, UpdateSensor, vars, requests, topics, RequestMatches
<1>6. QED
  BY <1>2, <1>3, <1>4, <1>5, HandleKinds DEF Next

\* An accepted envelope is in telemetry.authorized.v1, a refused one is not,
\* and no request has events in both topics.
THEOREM AnswersMatchTopics == Spec => []AnswerMatchesTopics
<1>1. TopicInv => AnswerMatchesTopics
  BY DEF TopicInv, RequestMatches, AnswerMatchesTopics, Rejections
<1>2. QED
  BY <1>1, TopicInit, TopicNext, PTL DEF Spec

-----------------------------------------------------------------------------
(* Published telemetry was vouched for.                                    *)

\* A request whose sensor is enabled is vouched for, and stays so past the
\* check of the record.
RequestVouched(r) ==
  /\ pc[r] \in InHandler /\ enabled[env[r].sensor] => vouched[r]
  /\ pc[r] \in {"nonce", "publish", "remember"} => vouched[r]
  /\ r \in authorized => vouched[r]

VouchInv == TopicInv /\ \A r \in Requests : RequestVouched(r)

LEMMA VouchInit == Init => VouchInv
BY TopicInit DEF Init, VouchInv, RequestVouched, InHandler

LEMMA VouchNext == VouchInv /\ [Next]_vars => VouchInv'
<1> SUFFICES ASSUME VouchInv, [Next]_vars, NEW q \in Requests PROVE RequestVouched(q)'
  BY TopicNext DEF VouchInv
<1>1. TInv /\ RequestMatches(q) /\ RequestVouched(q)
  BY DEF VouchInv, TopicInv
<1>2. ASSUME NEW r \in Requests, NEW e \in Envelopes, Arrive(r, e)
      PROVE  RequestVouched(q)'
  <2>1. CASE q = r
    <3>1. /\ pc'[r] = "parse" /\ env'[r] = e /\ vouched'[r] = enabled[e.sensor]
          /\ UNCHANGED <<enabled, authorized>> /\ pc[r] = "none"
      BY <1>1, <1>2 DEF Arrive, topics, TypeOK
    <3>2. r \notin authorized
      BY <1>1, <2>1, <3>1 DEF RequestMatches, Rejections, InHandler
    <3>3. QED
      BY <2>1, <3>1, <3>2 DEF RequestVouched
  <2>2. CASE q # r
    <3>1. /\ pc'[q] = pc[q] /\ env'[q] = env[q] /\ vouched'[q] = vouched[q]
          /\ UNCHANGED <<enabled, authorized>>
      BY <1>1, <1>2, <2>2 DEF Arrive, topics, TypeOK
    <3>2. QED
      BY <1>1, <3>1 DEF RequestVouched
  <2>3. QED
    BY <2>1, <2>2
<1>3. ASSUME NEW r \in Requests, Answering(r)
      PROVE  RequestVouched(q)'
  <2>1. UNCHANGED <<enabled, env, vouched>> /\ (pc'[q] = pc[q] \/ pc'[q] \in Answers)
    BY <1>1, <1>3, AnsweringFacts DEF Answer, TypeOK
  <2>2. q \in authorized' => q \in authorized \/ (pc[q] = "publish")
    BY <1>3 DEF Answering, InvalidEnvelope, StaleTimestamp, SensorForbidden,
       DuplicateNonce, ReadFails, PublishFails, Accept, RememberFails,
       PublishRejected, SendFails, topics
  <2>3. QED
    BY <1>1, <2>1, <2>2 DEF RequestVouched, Answers, Rejections, InHandler
<1>4. ASSUME NEW r \in Requests, Proceeding(r)
      PROVE  RequestVouched(q)'
  <2>1. UNCHANGED <<enabled, env, vouched>>
    BY <1>1, <1>4, ProceedingFacts DEF history
  <2>2. CASE q # r
    <3>1. pc'[q] = pc[q] /\ authorized' \in {authorized, authorized \cup {r}}
      BY <1>1, <1>4, <2>2, ProceedingFacts DEF GoTo, TypeOK
    <3>2. QED
      BY <1>1, <2>1, <2>2, <3>1 DEF RequestVouched
  <2>3. CASE q = r
    <3>1. CASE FreshTimestamp(r)
      <4>1. pc'[r] = "record" /\ pc[r] = "parse" /\ UNCHANGED authorized
        BY <1>1, <3>1 DEF FreshTimestamp, GoTo, TypeOK, topics
      <4>2. QED
        BY <1>1, <2>1, <2>3, <4>1 DEF RequestVouched, InHandler
    <3>2. CASE SensorEnabled(r)
      <4>1. /\ pc'[r] = "nonce" /\ pc[r] = "record" /\ UNCHANGED authorized
            /\ enabled[env[r].sensor]
        BY <1>1, <3>2 DEF SensorEnabled, Eligible, GoTo, TypeOK, topics
      <4>2. vouched[r]
        BY <1>1, <2>3, <4>1 DEF RequestVouched, InHandler
      <4>3. QED
        BY <2>1, <2>3, <4>2 DEF RequestVouched
    <3>3. CASE FreshNonce(r) \/ Publish(r)
      <4>1. vouched[r]
        BY <1>1, <2>3, <3>3 DEF FreshNonce, Publish, RequestVouched
      <4>2. QED
        BY <2>1, <2>3, <4>1 DEF RequestVouched
    <3>4. QED
      BY <1>4, <3>1, <3>2, <3>3 DEF Proceeding
  <2>4. QED
    BY <2>2, <2>3
<1>5. ASSUME NEW s \in Sensors, UpdateSensor(s)
      PROVE  RequestVouched(q)'
  <2>1. /\ UNCHANGED <<pc, env, authorized>>
        /\ enabled' = [enabled EXCEPT ![s] = ~enabled[s]]
        /\ vouched'[q] = (vouched[q] \/ (pc[q] \in InHandler /\ env[q].sensor = s /\ ~enabled[s]))
    BY <1>5 DEF UpdateSensor, requests, topics
  <2>2. env[q].sensor \in Sensors
    BY <1>1, EnvelopeParts DEF TypeOK
  <2>3. enabled'[env[q].sensor] = (IF env[q].sensor = s THEN ~enabled[s]
                                   ELSE enabled[env[q].sensor])
    BY <1>1, <2>1, <2>2 DEF TypeOK
  <2>4. QED
    BY <1>1, <2>1, <2>3 DEF RequestVouched
<1>6. CASE Restart
  <2>1. /\ UNCHANGED <<enabled, env, authorized, vouched>>
        /\ pc'[q] = "lost" \/ pc'[q] = pc[q]
    BY <1>6 DEF Restart, topics
  <2>2. QED
    BY <1>1, <2>1 DEF RequestVouched, InHandler
<1>7. CASE Tick \/ UNCHANGED vars
  BY <1>1, <1>7 DEF Tick, vars, requests, topics, history, RequestVouched
<1>8. QED
  BY <1>2, <1>3, <1>4, <1>5, <1>6, <1>7, HandleKinds DEF Next

\* Telemetry is published only for a sensor that was enabled at some moment
\* since the request arrived.
THEOREM PublishedIsVouched == Spec => []PublishedWasVouched
<1>1. VouchInv => PublishedWasVouched
  BY DEF VouchInv, TopicInv, TypeOK, RequestVouched, PublishedWasVouched
<1>2. QED
  BY <1>1, VouchInit, VouchNext, PTL DEF Spec

-----------------------------------------------------------------------------
(* The endpoint implements Ingress.                                        *)

Verdicts == [r \in Requests |-> Verdict(r)]

DecideInv == RepeatInv /\ TopicInv

\* A step that moves one request changes no other verdict.
LEMMA VerdictMoves ==
  ASSUME TInv, NEW r \in Requests, NEW s, pc' = [pc EXCEPT ![r] = s]
  PROVE  Verdicts' = [Verdicts EXCEPT ![r] = Verdict(r)']
<1>1. \A q \in Requests \ {r} : Verdict(q)' = Verdict(q)
  BY DEF TypeOK, Verdict
<1>2. QED
  BY <1>1 DEF Verdicts

\* What the places of a request mean for those outside.
LEMMA VerdictOf ==
  ASSUME NEW r \in Requests
  PROVE  /\ pc[r] = "none" => Verdict(r) = "none"
         /\ pc[r] \in InHandler => Verdict(r) = "open"
         /\ pc[r] = "202" => Verdict(r) = "acknowledged"
         /\ pc[r] \in Rejections => Verdict(r) = "refused"
         /\ pc[r] \in {"500", "503", "lost"} => Verdict(r) = "failed"
BY DEF Verdict, InHandler, Rejections

LEMMA VerdictOfNext ==
  ASSUME NEW r \in Requests
  PROVE  /\ pc'[r] = "none" => Verdict(r)' = "none"
         /\ pc'[r] \in InHandler => Verdict(r)' = "open"
         /\ pc'[r] = "202" => Verdict(r)' = "acknowledged"
         /\ pc'[r] \in Rejections => Verdict(r)' = "refused"
         /\ pc'[r] \in {"500", "503", "lost"} => Verdict(r)' = "failed"
BY DEF Verdict, InHandler, Rejections

LEMMA GateInit == Init => Gate!Init
<1> SUFFICES ASSUME Init PROVE Gate!Init
  OBVIOUS
<1>1. \A r \in Requests : Verdict(r) = "none"
  BY VerdictOf DEF Init
<1>2. env \in [Requests -> Envelopes]
  BY AnyEnvelopeType DEF Init
<1>3. QED
  BY <1>1, <1>2 DEF Init, Gate!Init

LEMMA ArriveDecides ==
  ASSUME DecideInv, NEW r \in Requests, NEW e \in Envelopes, Arrive(r, e)
  PROVE  Gate!Request(r, e)
<1>1. TInv /\ pc[r] = "none" /\ pc'[r] = "parse"
  BY DEF DecideInv, TopicInv, Arrive, TypeOK
<1>2. Verdict(r) = "none" /\ Verdict(r)' = "open"
  BY <1>1, VerdictOf, VerdictOfNext DEF InHandler
<1>3. Verdicts' = [Verdicts EXCEPT ![r] = "open"]
  BY <1>1, <1>2, VerdictMoves DEF Arrive
<1>4. QED
  BY <1>2, <1>3 DEF Arrive, Gate!Request, Verdicts, topics, process

LEMMA ProceedingDecides ==
  ASSUME DecideInv, NEW r \in Requests, Proceeding(r)
  PROVE  Gate!Publish(r) \/ UNCHANGED Gate!vars
<1>1. TInv /\ pc[r] \in InHandler /\ UNCHANGED <<env, before, acknowledged, strategy>>
  BY ProceedingFacts DEF DecideInv, TopicInv, history, process
<1>2. PICK s \in InHandler \ {"parse"} : GoTo(r, s)
  BY <1>1, ProceedingFacts
<1>3. Verdict(r) = "open" /\ Verdict(r)' = "open"
  BY <1>1, <1>2, VerdictOf, VerdictOfNext DEF GoTo, TypeOK
<1>4. Verdicts' = Verdicts
  <2>1. Verdicts' = [Verdicts EXCEPT ![r] = "open"]
    BY <1>1, <1>2, <1>3, VerdictMoves DEF GoTo
  <2>2. QED
    BY <1>3, <2>1 DEF Verdicts
<1>5. CASE Publish(r)
  <2>1. r \notin authorized
    BY <1>5 DEF Publish, DecideInv, TopicInv, RequestMatches, InHandler
  <2>2. env[r] \notin before[r]
    BY <1>5 DEF Publish, DecideInv, RepeatInv, PassedIsNew
  <2>3. QED
    BY <1>1, <1>3, <1>4, <1>5, <2>1, <2>2 DEF Publish, Gate!Publish, Gate!Publishes, Verdicts
<1>6. CASE FreshTimestamp(r) \/ SensorEnabled(r) \/ FreshNonce(r)
  BY <1>1, <1>4, <1>6 DEF FreshTimestamp, SensorEnabled, FreshNonce, topics, Gate!vars, Verdicts
<1>7. QED
  BY <1>5, <1>6 DEF Proceeding

LEMMA AnsweringDecides ==
  ASSUME DecideInv, NEW r \in Requests, Answering(r)
  PROVE  Gate!Acknowledge(r) \/ Gate!Refuse(r) \/ Gate!Fail(r)
<1>1. /\ TInv /\ pc[r] \in InHandler /\ UNCHANGED <<env, before, strategy>>
      /\ Verdict(r) = "open"
  BY AnsweringFacts, VerdictOf DEF DecideInv, TopicInv, process
<1>2. PICK code \in Answers : Answer(r, code)
  BY <1>1, AnsweringFacts
<1>3. pc' = [pc EXCEPT ![r] = code] /\ pc'[r] = code
  BY <1>1, <1>2 DEF Answer, TypeOK
<1>4. Verdicts' = [Verdicts EXCEPT ![r] = Verdict(r)'] /\ Verdict(r)' = Verdict(r)'
  BY <1>1, <1>3, VerdictMoves
<1>5. CASE Accept(r)
  <2>1. pc'[r] = "202" /\ pc[r] = "remember" /\ UNCHANGED authorized
        /\ acknowledged' = acknowledged \cup {env[r]}
    BY <1>1, <1>5 DEF Accept, Answer, TypeOK, topics
  <2>2. Verdict(r)' = "acknowledged" /\ r \in authorized
    BY <2>1, VerdictOfNext DEF DecideInv, TopicInv, RequestMatches
  <2>3. Gate!Acknowledge(r)
    BY <1>1, <1>4, <2>1, <2>2 DEF Gate!Acknowledge, Gate!Decide, Verdicts
  <2>4. QED
    BY <2>3
<1>6. CASE InvalidEnvelope(r) \/ StaleTimestamp(r) \/ SensorForbidden(r) \/ DuplicateNonce(r)
  <2>1. /\ pc'[r] \in Rejections /\ pc[r] \in {"parse", "record", "nonce"}
        /\ UNCHANGED <<authorized, acknowledged>>
    BY <1>1, <1>6 DEF InvalidEnvelope, StaleTimestamp, SensorForbidden, DuplicateNonce,
       PublishRejected, SendFails, Answer, Rejections, TypeOK, topics, history
  <2>2. Verdict(r)' = "refused" /\ r \notin authorized
    BY <2>1, VerdictOfNext DEF DecideInv, TopicInv, RequestMatches, InHandler, Rejections
  <2>3. Gate!Refuse(r)
    BY <1>1, <1>4, <2>1, <2>2 DEF Gate!Refuse, Gate!Decide, Verdicts
  <2>4. QED
    BY <2>3
<1>7. CASE ReadFails(r) \/ RememberFails(r)
  <2>1. pc'[r] \in {"500", "503"} /\ UNCHANGED <<authorized, acknowledged>>
    BY <1>1, <1>7 DEF ReadFails, RememberFails, Answer, TypeOK, topics, history
  <2>2. Verdict(r)' = "failed"
    BY <2>1, VerdictOfNext
  <2>3. Gate!Fail(r)
    BY <1>1, <1>4, <2>1, <2>2 DEF Gate!Fail, Gate!Decide, Verdicts
  <2>4. QED
    BY <2>3
<1>8. CASE PublishFails(r)
  <2>1. /\ pc'[r] = "503" /\ pc[r] = "publish" /\ UNCHANGED acknowledged
        /\ authorized' \in {authorized, authorized \cup {r}}
    BY <1>1, <1>8 DEF PublishFails, SendFails, Answer, TypeOK, history
  <2>2. Verdict(r)' = "failed" /\ r \notin authorized /\ env[r] \notin before[r]
    BY <2>1, VerdictOfNext DEF DecideInv, TopicInv, RepeatInv, PassedIsNew, RequestMatches,
       InHandler
  <2>3. Gate!Fail(r)
    BY <1>1, <1>4, <2>1, <2>2 DEF Gate!Fail, Gate!Decide, Gate!Publishes, Verdicts
  <2>4. QED
    BY <2>3
<1>9. QED
  BY <1>5, <1>6, <1>7, <1>8 DEF Answering

LEMMA RestartDecides ==
  ASSUME DecideInv, Restart
  PROVE  Gate!Restart
<1>1. \A r \in Requests : Verdict(r)' = IF Verdict(r) = "open" THEN "failed" ELSE Verdict(r)
  <2> SUFFICES ASSUME NEW r \in Requests
               PROVE  Verdict(r)' = IF Verdict(r) = "open" THEN "failed" ELSE Verdict(r)
    OBVIOUS
  <2>1. CASE pc[r] \in InHandler
    <3>1. pc'[r] = "lost"
      BY <2>1 DEF Restart
    <3>2. QED
      BY <2>1, <3>1, VerdictOf, VerdictOfNext
  <2>2. CASE pc[r] \notin InHandler
    <3>1. pc'[r] = pc[r]
      BY <2>2 DEF Restart
    <3>2. Verdict(r)' = Verdict(r) /\ Verdict(r) # "open"
      BY <2>2, <3>1 DEF Verdict
    <3>3. QED
      BY <3>2
  <2>3. QED
    BY <2>1, <2>2
<1>2. Verdicts' = [r \in Requests |-> IF Verdicts[r] = "open" THEN "failed" ELSE Verdicts[r]]
  BY <1>1 DEF Verdicts
<1>3. acknowledged' = IF strategy = "registry-sync" THEN acknowledged ELSE {}
  BY DEF Restart, DecideInv, TopicInv, TypeOK
<1>4. QED
  BY <1>2, <1>3 DEF Restart, Gate!Restart, Verdicts, topics

LEMMA GateNext == DecideInv /\ [Next]_vars => [Gate!Next]_(Gate!vars)
<1> SUFFICES ASSUME DecideInv, [Next]_vars PROVE [Gate!Next]_(Gate!vars)
  OBVIOUS
<1>1. ASSUME NEW r \in Requests, Handle(r) PROVE [Gate!Next]_(Gate!vars)
  BY <1>1, HandleKinds, ArriveDecides, ProceedingDecides, AnsweringDecides DEF Gate!Next
<1>2. CASE Restart
  BY <1>2, RestartDecides DEF Gate!Next
<1>3. CASE Tick \/ (\E s \in Sensors : UpdateSensor(s)) \/ UNCHANGED vars
  <2>1. UNCHANGED <<pc, env, before, authorized, acknowledged, strategy>>
    BY <1>3 DEF Tick, UpdateSensor, vars, requests, topics, history, process
  <2>2. Verdicts' = Verdicts
    BY <2>1 DEF Verdicts, Verdict
  <2>3. QED
    BY <2>1, <2>2 DEF Gate!vars, Verdicts
<1>4. QED
  BY <1>1, <1>2, <1>3 DEF Next

\* The endpoint implements Ingress: if a nonce outlives twice the skew and the
\* time a request takes, then whatever requests race, calls fail and processes
\* restart, each request is decided as if at one moment.
THEOREM EndpointDecidesAtOnce ==
  ASSUME NoncesOutliveWindow
  PROVE  Spec => DecidesAtOnce
<1>1. Init => DecideInv
  BY RepeatInit, TopicInit DEF DecideInv
<1>2. DecideInv /\ [Next]_vars => DecideInv'
  BY RepeatNext, TopicNext DEF DecideInv
<1>3. QED
  BY <1>1, <1>2, GateInit, GateNext, PTL DEF Spec, DecidesAtOnce, Gate!Spec

=============================================================================
