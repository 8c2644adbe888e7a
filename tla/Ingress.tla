------------------------------ MODULE Ingress ------------------------------
(***************************************************************************)
(* What the endpoint promises to those who read telemetry.authorized.v1    *)
(* and to the devices: every request is decided at one moment.  Telemetry  *)
(* is published once per request at most, never for an envelope that was   *)
(* acknowledged before the request arrived; a request is acknowledged only *)
(* when it is published, and refused only when it is not.                  *)
(*                                                                         *)
(* How the decision is made, by awaiting a record, a nonce and Kafka in    *)
(* turn against a moving clock, is the business of Endpoint, which         *)
(* implements this specification.                                          *)
(***************************************************************************)
CONSTANTS
  Requests,
  Envelopes

VARIABLES
  verdict,      \* request -> how it was decided, if it was
  env,          \* request -> its envelope
  before,       \* request -> the envelopes acknowledged when it arrived
  published,    \* requests whose telemetry is in telemetry.authorized.v1
  acknowledged, \* the envelopes that must not be published again
  durable       \* does that knowledge survive a restart?

vars == <<verdict, env, before, published, acknowledged, durable>>

Init ==
  /\ verdict = [r \in Requests |-> "none"]
  /\ env \in [Requests -> Envelopes]
  /\ before = [r \in Requests |-> {}]
  /\ published = {}
  /\ acknowledged = {}
  /\ durable \in BOOLEAN

Request(r, e) ==
  /\ verdict[r] = "none"
  /\ verdict' = [verdict EXCEPT ![r] = "open"]
  /\ env' = [env EXCEPT ![r] = e]
  /\ before' = [before EXCEPT ![r] = acknowledged]
  /\ UNCHANGED <<published, acknowledged, durable>>

\* Telemetry that is new, and was not published for this request yet.
Publishes(r) ==
  /\ verdict[r] = "open"
  /\ r \notin published
  /\ env[r] \notin before[r]
  /\ published' = published \cup {r}

Publish(r) ==
  /\ Publishes(r)
  /\ UNCHANGED <<verdict, env, before, acknowledged, durable>>

Decide(r, v) ==
  /\ verdict[r] = "open"
  /\ verdict' = [verdict EXCEPT ![r] = v]
  /\ UNCHANGED <<env, before, durable>>

Acknowledge(r) ==
  /\ Decide(r, "acknowledged")
  /\ r \in published
  /\ acknowledged' = acknowledged \cup {env[r]}
  /\ UNCHANGED published

Refuse(r) ==
  /\ Decide(r, "refused")
  /\ r \notin published
  /\ UNCHANGED <<published, acknowledged>>

\* The device learns nothing: its telemetry may have been published.
Fail(r) ==
  /\ Decide(r, "failed")
  /\ Publishes(r) \/ UNCHANGED published
  /\ UNCHANGED acknowledged

\* A restart fails what is open.
Restart ==
  /\ verdict' = [r \in Requests |-> IF verdict[r] = "open" THEN "failed" ELSE verdict[r]]
  /\ acknowledged' = IF durable THEN acknowledged ELSE {}
  /\ UNCHANGED <<env, before, published, durable>>

Next ==
  \/ \E r \in Requests :
       \/ \E e \in Envelopes : Request(r, e)
       \/ Publish(r)
       \/ Acknowledge(r)
       \/ Refuse(r)
       \/ Fail(r)
  \/ Restart

Spec == Init /\ [][Next]_vars

=============================================================================
