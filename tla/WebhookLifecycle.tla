--------------------------- MODULE WebhookLifecycle --------------------------
(***************************************************************************)
(* What the service promises the owner of an endpoint, whoever sends and   *)
(* however often a job is repeated: the deliveries of an event come into   *)
(* being once, each is attempted at most MaxAttempts times with at most    *)
(* one request per attempt, it is delivered only if the endpoint took it,  *)
(* and it fails only when all attempts were made or its subscription was   *)
(* disabled. There are no workers, no outbox, no queue and no clock here.  *)
(***************************************************************************)
EXTENDS Naturals

CONSTANTS Subscriptions, Events, MaxAttempts

Deliveries == Subscriptions \X Events

VARIABLES
    phase,          \* "none", "waiting", "attempting", "delivered", "failed"
    attempts,       \* attempts begun
    requests,       \* requests sent to the endpoint
    acknowledged,   \* deliveries that the endpoint answered with a 2xx
    disabled        \* subscriptions that were disabled at some time

vars == <<phase, attempts, requests, acknowledged, disabled>>

Init ==
    /\ phase = [d \in Deliveries |-> "none"]
    /\ attempts = [d \in Deliveries |-> 0]
    /\ requests = [d \in Deliveries |-> 0]
    /\ acknowledged = {}
    /\ disabled = {}

Disable(s) ==
    /\ disabled' = disabled \cup {s}
    /\ UNCHANGED <<phase, attempts, requests, acknowledged>>

\* An event's deliveries are created together, or those that are missing.
Create(e) ==
    /\ \E created \in SUBSET {d \in Deliveries : d[2] = e /\ phase[d] = "none"} :
        phase' = [d \in Deliveries |-> IF d \in created THEN "waiting" ELSE phase[d]]
    /\ UNCHANGED <<attempts, requests, acknowledged, disabled>>

Begin(d) ==
    /\ phase[d] = "waiting"
    /\ attempts[d] < MaxAttempts
    /\ phase' = [phase EXCEPT ![d] = "attempting"]
    /\ attempts' = [attempts EXCEPT ![d] = @ + 1]
    /\ UNCHANGED <<requests, acknowledged, disabled>>

\* Perhaps after the delivery was stopped.
Send(d) ==
    /\ requests[d] < attempts[d]
    /\ requests' = [requests EXCEPT ![d] = @ + 1]
    /\ acknowledged' \in {acknowledged, acknowledged \cup {d}}
    /\ UNCHANGED <<phase, attempts, disabled>>

\* The end of an attempt, which was sent.
Record(d) ==
    /\ phase[d] = "attempting"
    /\ requests[d] = attempts[d]
    /\ \E result \in {"delivered", "waiting", "failed"} :
        /\ result = "delivered" => d \in acknowledged
        /\ result = "waiting" <=> attempts[d] < MaxAttempts /\ result # "delivered"
        /\ phase' = [phase EXCEPT ![d] = result]
    /\ UNCHANGED <<attempts, requests, acknowledged, disabled>>

\* The subscription is or was disabled, perhaps during an attempt.
Stop(d) ==
    /\ phase[d] \in {"waiting", "attempting"}
    /\ d[1] \in disabled
    /\ phase' = [phase EXCEPT ![d] = "failed"]
    /\ UNCHANGED <<attempts, requests, acknowledged, disabled>>

Next ==
    \/ \E s \in Subscriptions : Disable(s)
    \/ \E e \in Events : Create(e)
    \/ \E d \in Deliveries : Begin(d) \/ Send(d) \/ Record(d) \/ Stop(d)

Spec == Init /\ [][Next]_vars
=============================================================================
