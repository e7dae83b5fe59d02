--------------------------- MODULE WebhookDelivery ---------------------------
(***************************************************************************)
(* Webhooks: a customer's subscriptions, the fan-out of payment events to  *)
(* deliveries (WebhookEventMaterializer), and WebhookDeliveryProcessor     *)
(* over PrismaWebhookDeliveryRepository, which sends them.                 *)
(*                                                                         *)
(* As in PaymentProcessing a task is one call of process, split at its     *)
(* awaits, and a job is any delivery row of the outbox at any time and any *)
(* number of times. Every event has its WEBHOOK_DELIVERIES_REQUESTED row:  *)
(* PaymentProcessing's AuditTrailComplete. The events and subscriptions    *)
(* here are those of one customer; nothing relates different customers.    *)
(***************************************************************************)
EXTENDS Integers

CONSTANTS
    NULL,           \* an absent row, SQL NULL
    Subscriptions,
    Events,         \* PaymentEvents
    Materializers,  \* dispatcher processes, as far as they materialize
    Tasks,          \* concurrent calls of process
    MaxAttempts,    \* WEBHOOK_MAX_ATTEMPTS
    BaseDelay       \* WEBHOOK_RETRY_BASE_DELAY_MS, in clock ticks

ClaimableStatuses == {"PENDING", "RETRYING"}
WebhookDeliveryStatus == ClaimableStatuses \cup {"DELIVERED", "FAILED"}

ASSUME WebhookAssumption ==
    /\ MaxAttempts \in Nat \ {0}
    /\ BaseDelay \in Nat \ {0}
    /\ NULL \notin Int \cup BOOLEAN \cup WebhookDeliveryStatus
    /\ \A S \in SUBSET Subscriptions : NULL # S

\* One delivery for a subscription and an event: @@unique.
Deliveries == Subscriptions \X Events

VARIABLES
    enabled,        \* [Subscriptions -> BOOLEAN], NULL before it is created
    everDisabled,   \* subscriptions that were disabled at some time
    materialized,   \* events whose fan-out row is published
    fanout,         \* per materializer the event and subscriptions it has read
    \* The WebhookDelivery table, one function per column
    status, attemptCount, nextAttemptAt,
    outbox,         \* the WEBHOOK_DELIVERY_REQUESTED rows ever committed
    pc, job, snapshot, failure,     \* tasks
    \* The endpoint: requests sent to it and when the last one ended, the
    \* deliveries for which a worker got a 2xx
    posts, answeredAt, acknowledged,
    now

deliveryRow == <<status, attemptCount, nextAttemptAt>>
subscriptionVars == <<enabled, everDisabled>>
fanoutVars == <<materialized, fanout>>
local == <<pc, job, snapshot, failure>>
endpoint == <<posts, answeredAt, acknowledged>>
vars == <<subscriptionVars, fanoutVars, deliveryRow, outbox, local, endpoint, now>>

Init ==
    /\ enabled = [s \in Subscriptions |-> NULL]
    /\ everDisabled = {}
    /\ materialized = {}
    /\ fanout = [m \in Materializers |-> NULL]
    /\ status = [d \in Deliveries |-> NULL]
    /\ attemptCount = [d \in Deliveries |-> 0]
    /\ nextAttemptAt = [d \in Deliveries |-> NULL]
    /\ outbox = {}
    /\ pc = [t \in Tasks |-> "idle"]
    /\ job = [t \in Tasks |-> NULL]
    /\ snapshot = [t \in Tasks |-> NULL]
    /\ failure = [t \in Tasks |-> NULL]
    /\ posts = [d \in Deliveries |-> 0]
    /\ answeredAt = [d \in Deliveries |-> 0]
    /\ acknowledged = {}
    /\ now = 0

-----------------------------------------------------------------------------
(* Subscriptions                                                           *)

create(s) ==
    /\ enabled[s] = NULL
    /\ enabled' = [enabled EXCEPT ![s] = TRUE]
    /\ UNCHANGED <<everDisabled, fanoutVars, deliveryRow, outbox, local, endpoint, now>>

setEnabled(s, value) ==
    /\ enabled[s] \in BOOLEAN
    /\ enabled' = [enabled EXCEPT ![s] = value]
    /\ everDisabled' = IF value THEN everDisabled ELSE everDisabled \cup {s}
    /\ UNCHANGED <<fanoutVars, deliveryRow, outbox, local, endpoint, now>>

-----------------------------------------------------------------------------
\* The delay after the failure of attempt n.
calculateWebhookRetryDelay(n) == BaseDelay * 2^(n - 1)

\* The outbox row of a delivery attempt.
DeliveryRequest(d, attemptNumber, at) ==
    [delivery |-> d, attemptNumber |-> attemptNumber, nextAttemptAt |-> at]

-----------------------------------------------------------------------------
(* Fan-out: a transaction that finds the event's row unpublished, reads    *)
(* the enabled subscriptions, and then writes. Two dispatchers may both    *)
(* have read when the first writes; the second finds the deliveries there  *)
(* and adds their outbox rows once more.                                   *)

FindSource(m, e) ==
    /\ fanout[m] = NULL
    /\ e \notin materialized
    /\ fanout' = [fanout EXCEPT ![m] = [event |-> e, subscriptions |-> NULL]]
    /\ UNCHANGED <<subscriptionVars, materialized, deliveryRow, outbox, local, endpoint, now>>

FindSubscriptions(m) ==
    /\ fanout[m] # NULL
    /\ fanout[m].subscriptions = NULL
    /\ fanout' = [fanout EXCEPT ![m].subscriptions =
                        {s \in Subscriptions : enabled[s] = TRUE}]
    /\ UNCHANGED <<subscriptionVars, materialized, deliveryRow, outbox, local, endpoint, now>>

\* createMany with skipDuplicates.
CreatedDeliveries(m) ==
    {<<s, fanout[m].event>> : s \in {r \in fanout[m].subscriptions :
                                        status[<<r, fanout[m].event>>] = NULL}}

materializeDeliveries(m) ==
    /\ fanout[m] # NULL
    /\ fanout[m].subscriptions # NULL
    /\ status' = [d \in Deliveries |->
            IF d \in CreatedDeliveries(m) THEN "PENDING" ELSE status[d]]
    /\ attemptCount' = [d \in Deliveries |->
            IF d \in CreatedDeliveries(m) THEN 0 ELSE attemptCount[d]]
    /\ nextAttemptAt' = [d \in Deliveries |->
            IF d \in CreatedDeliveries(m) THEN NULL ELSE nextAttemptAt[d]]
    /\ outbox' = outbox \cup {DeliveryRequest(<<s, fanout[m].event>>, 1, NULL) :
                                s \in fanout[m].subscriptions}
    /\ materialized' = materialized \cup {fanout[m].event}
    /\ fanout' = [fanout EXCEPT ![m] = NULL]
    /\ UNCHANGED <<subscriptionVars, local, endpoint, now>>

\* The transaction fails and is rolled back, or the process dies.
FanoutFails(m) ==
    /\ fanout[m] # NULL
    /\ fanout' = [fanout EXCEPT ![m] = NULL]
    /\ UNCHANGED <<subscriptionVars, materialized, deliveryRow, outbox, local, endpoint, now>>

-----------------------------------------------------------------------------
(* Tasks: claimAttempt                                                     *)

Finish(t) ==
    /\ pc' = [pc EXCEPT ![t] = "idle"]
    /\ job' = [job EXCEPT ![t] = NULL]
    /\ snapshot' = [snapshot EXCEPT ![t] = NULL]
    /\ failure' = [failure EXCEPT ![t] = NULL]

StartJob(t, request) ==
    /\ pc[t] = "idle"
    /\ pc' = [pc EXCEPT ![t] = "claiming"]
    /\ job' = [job EXCEPT ![t] = [delivery |-> request.delivery,
                                  expectedAttemptNumber |-> request.attemptNumber,
                                  claimedAt |-> now]]
    /\ UNCHANGED <<snapshot, failure, subscriptionVars, fanoutVars, deliveryRow,
                   outbox, endpoint, now>>

Row(d) == [status |-> status[d], attemptCount |-> attemptCount[d],
           nextAttemptAt |-> nextAttemptAt[d]]

IsEnabled(d) == enabled[d[1]] = TRUE

IsDue(r, j) == r.nextAttemptAt # NULL /\ r.nextAttemptAt <= j.claimedAt

IsNotDue(r, j) ==
    /\ r.status = "RETRYING"
    /\ j.expectedAttemptNumber = r.attemptCount + 1
    /\ r.attemptCount + 1 <= MaxAttempts
    /\ r.nextAttemptAt # NULL
    /\ r.nextAttemptAt > j.claimedAt

MayClaim(r, j) ==
    /\ \/ r.status = "PENDING" /\ r.attemptCount = 0
       \/ r.status = "RETRYING" /\ IsDue(r, j)
    /\ j.expectedAttemptNumber = r.attemptCount + 1
    /\ r.attemptCount + 1 <= MaxAttempts

\* What the task does not write it does not change.
TaskReads == UNCHANGED <<subscriptionVars, fanoutVars, deliveryRow, outbox, endpoint, now>>
TaskWrites == UNCHANGED <<subscriptionVars, fanoutVars, endpoint, now>>

\* SKIPPED: settled already, or not this job's turn.
ClaimRefused(t) ==
    LET r == Row(job[t].delivery) IN
    /\ pc[t] = "claiming"
    /\ \/ r.status \notin ClaimableStatuses
       \/ /\ IsEnabled(job[t].delivery)
          /\ ~IsNotDue(r, job[t])
          /\ ~MayClaim(r, job[t])
    /\ Finish(t)
    /\ TaskReads

ClaimNotDue(t) ==
    /\ pc[t] = "claiming"
    /\ IsEnabled(job[t].delivery)
    /\ IsNotDue(Row(job[t].delivery), job[t])
    /\ Finish(t)
    /\ TaskReads

\* The row is read; the update that claims it, or stops a delivery of a
\* disabled subscription, is still to come.
ClaimRead(t) ==
    LET r == Row(job[t].delivery) IN
    /\ pc[t] = "claiming"
    /\ r.status \in ClaimableStatuses
    /\ \/ /\ IsEnabled(job[t].delivery)
          /\ MayClaim(r, job[t])
          /\ pc' = [pc EXCEPT ![t] = "claimable"]
       \/ /\ ~IsEnabled(job[t].delivery)
          /\ pc' = [pc EXCEPT ![t] = "stopping"]
    /\ snapshot' = [snapshot EXCEPT ![t] = r]
    /\ UNCHANGED <<job, failure>>
    /\ TaskReads

SnapshotCurrent(t) ==
    /\ status[job[t].delivery] = snapshot[t].status
    /\ attemptCount[job[t].delivery] = snapshot[t].attemptCount

\* DISABLED, whether or not the row was still as read.
StopDisabled(t) ==
    LET d == job[t].delivery IN
    /\ pc[t] = "stopping"
    /\ IF SnapshotCurrent(t)
       THEN /\ status' = [status EXCEPT ![d] = "FAILED"]
            /\ nextAttemptAt' = [nextAttemptAt EXCEPT ![d] = NULL]
       ELSE UNCHANGED <<status, nextAttemptAt>>
    /\ Finish(t)
    /\ UNCHANGED <<attemptCount, outbox>>
    /\ TaskWrites

\* Mutant: the update names the row by its id alone.
ClaimMatchesWithoutCompare(t) == TRUE

\* Mutant: the subscription is not looked at again.
ClaimMatchesUnlessDisabled(t) == SnapshotCurrent(t)

\* The where clause of updateMany, evaluated on the rows as they are now.
ClaimMatches(t) ==
    LET d == job[t].delivery IN
    /\ SnapshotCurrent(t)
    /\ IsEnabled(d)
    /\ status[d] = "RETRYING" => IsDue(Row(d), job[t])

\* The status stays: an attempt is under way when attemptCount counts it
\* and there is no retry time.
claimAttempt(t) ==
    LET d == job[t].delivery IN
    /\ pc[t] = "claimable"
    /\ ClaimMatches(t)
    /\ attemptCount' = [attemptCount EXCEPT ![d] = @ + 1]
    /\ nextAttemptAt' = [nextAttemptAt EXCEPT ![d] = NULL]
    /\ pc' = [pc EXCEPT ![t] = "posting"]
    /\ UNCHANGED <<job, snapshot, failure, status, outbox>>
    /\ TaskWrites

ClaimLost(t) ==
    /\ pc[t] = "claimable"
    /\ ~ClaimMatches(t)
    /\ Finish(t)
    /\ TaskReads

AttemptNumber(t) == snapshot[t].attemptCount + 1

-----------------------------------------------------------------------------
(* Sending and recording                                                   *)

\* Mutant: one attempt too many.
FailureOfOffByOne(t) ==
    IF AttemptNumber(t) > MaxAttempts
    THEN [status |-> "FAILED", nextAttemptAt |-> NULL]
    ELSE [status |-> "RETRYING",
          nextAttemptAt |-> now + calculateWebhookRetryDelay(AttemptNumber(t))]

\* Mutant: one attempt too few.
FailureOfOneTooFew(t) ==
    IF AttemptNumber(t) + 1 >= MaxAttempts
    THEN [status |-> "FAILED", nextAttemptAt |-> NULL]
    ELSE [status |-> "RETRYING",
          nextAttemptAt |-> now + calculateWebhookRetryDelay(AttemptNumber(t))]

\* What recordFailure is told when the attempt failed now.
FailureOf(t) ==
    IF AttemptNumber(t) >= MaxAttempts
    THEN [status |-> "FAILED", nextAttemptAt |-> NULL]
    ELSE [status |-> "RETRYING",
          nextAttemptAt |-> now + calculateWebhookRetryDelay(AttemptNumber(t))]

\* A 2xx, or anything else: another status, a timeout, no connection.
post(t, success) ==
    LET d == job[t].delivery IN
    /\ pc[t] = "posting"
    /\ posts' = [posts EXCEPT ![d] = @ + 1]
    /\ answeredAt' = [answeredAt EXCEPT ![d] = now]
    /\ IF success
       THEN /\ acknowledged' = acknowledged \cup {d}
            /\ pc' = [pc EXCEPT ![t] = "delivered"]
            /\ UNCHANGED failure
       ELSE /\ failure' = [failure EXCEPT ![t] = FailureOf(t)]
            /\ pc' = [pc EXCEPT ![t] = "failing"]
            /\ UNCHANGED acknowledged
    /\ UNCHANGED <<job, snapshot, subscriptionVars, fanoutVars, deliveryRow, outbox, now>>

\* The where clause of markDelivered and recordFailure.
ResultMatches(t) ==
    /\ status[job[t].delivery] \in ClaimableStatuses
    /\ attemptCount[job[t].delivery] = AttemptNumber(t)

RecordDelivered(t) ==
    LET d == job[t].delivery IN
    IF ResultMatches(t)
    THEN /\ status' = [status EXCEPT ![d] = "DELIVERED"]
         /\ nextAttemptAt' = [nextAttemptAt EXCEPT ![d] = NULL]
    ELSE UNCHANGED <<status, nextAttemptAt>>

markDelivered(t) ==
    /\ pc[t] = "delivered"
    /\ RecordDelivered(t)
    /\ Finish(t)
    /\ UNCHANGED <<attemptCount, outbox>>
    /\ TaskWrites

\* The update is inside the try of the request: an error of the database,
\* reported before or after the commit, is handled like one of the endpoint.
MarkDeliveredThrows(t) ==
    /\ pc[t] = "delivered"
    /\ RecordDelivered(t) \/ UNCHANGED <<status, nextAttemptAt>>
    /\ failure' = [failure EXCEPT ![t] = FailureOf(t)]
    /\ pc' = [pc EXCEPT ![t] = "failing"]
    /\ UNCHANGED <<job, snapshot, attemptCount, outbox>>
    /\ TaskWrites

\* Mutant: the retry is for the attempt that just failed.
RetryOfSameAttempt(t) ==
    IF failure[t].status = "RETRYING"
    THEN {DeliveryRequest(job[t].delivery, AttemptNumber(t), failure[t].nextAttemptAt)}
    ELSE {}

RetryOf(t) ==
    IF failure[t].status = "RETRYING"
    THEN {DeliveryRequest(job[t].delivery, AttemptNumber(t) + 1, failure[t].nextAttemptAt)}
    ELSE {}

recordFailure(t) ==
    LET d == job[t].delivery IN
    /\ pc[t] = "failing"
    /\ IF ResultMatches(t)
       THEN /\ status' = [status EXCEPT ![d] = failure[t].status]
            /\ nextAttemptAt' = [nextAttemptAt EXCEPT ![d] = failure[t].nextAttemptAt]
            /\ outbox' = outbox \cup RetryOf(t)
       ELSE UNCHANGED <<status, nextAttemptAt, outbox>>
    /\ Finish(t)
    /\ UNCHANGED attemptCount
    /\ TaskWrites

-----------------------------------------------------------------------------
\* A database error leaves process, or the worker dies. Nothing picks it up.
Abandon(t) ==
    /\ pc[t] # "idle"
    /\ Finish(t)
    /\ TaskReads

TimerPending ==
    \/ \E d \in Deliveries : nextAttemptAt[d] # NULL /\ nextAttemptAt[d] > now
    \/ \E t \in Tasks : /\ pc[t] = "failing"
                        /\ failure[t].nextAttemptAt # NULL
                        /\ failure[t].nextAttemptAt > now

Tick ==
    /\ TimerPending
    /\ now' = now + 1
    /\ UNCHANGED <<subscriptionVars, fanoutVars, deliveryRow, outbox, local, endpoint>>

TaskStep(t) ==
    \/ ClaimRefused(t)
    \/ ClaimNotDue(t)
    \/ ClaimRead(t)
    \/ StopDisabled(t)
    \/ claimAttempt(t)
    \/ ClaimLost(t)
    \/ \E success \in BOOLEAN : post(t, success)
    \/ markDelivered(t)
    \/ MarkDeliveredThrows(t)
    \/ recordFailure(t)
    \/ Abandon(t)

Next ==
    \/ \E s \in Subscriptions :
        create(s) \/ \E value \in BOOLEAN : setEnabled(s, value)
    \/ \E m \in Materializers :
        \/ \E e \in Events : FindSource(m, e)
        \/ FindSubscriptions(m)
        \/ materializeDeliveries(m)
        \/ FanoutFails(m)
    \/ \E t \in Tasks, request \in outbox : StartJob(t, request)
    \/ \E t \in Tasks : TaskStep(t)
    \/ Tick

Spec == Init /\ [][Next]_vars

-----------------------------------------------------------------------------
(* Properties                                                              *)

RowType == [status: ClaimableStatuses, attemptCount: Nat, nextAttemptAt: Int \cup {NULL}]

JobType == [delivery: Deliveries, expectedAttemptNumber: Nat \ {0}, claimedAt: Int]

FailureType == [status: {"RETRYING", "FAILED"}, nextAttemptAt: Int \cup {NULL}]

(* The variables have their types, and a task that reached an await has    *)
(* the local variables it will use after it.                               *)
TypeOK ==
    /\ enabled \in [Subscriptions -> BOOLEAN \cup {NULL}]
    /\ everDisabled \subseteq Subscriptions
    /\ materialized \subseteq Events
    /\ fanout \in [Materializers ->
            [event: Events, subscriptions: (SUBSET Subscriptions) \cup {NULL}] \cup {NULL}]
    /\ status \in [Deliveries -> WebhookDeliveryStatus \cup {NULL}]
    /\ attemptCount \in [Deliveries -> Nat]
    /\ nextAttemptAt \in [Deliveries -> Int \cup {NULL}]
    /\ outbox \subseteq [delivery: Deliveries, attemptNumber: Nat \ {0},
                         nextAttemptAt: Int \cup {NULL}]
    /\ pc \in [Tasks -> {"idle", "claiming", "claimable", "stopping", "posting",
                         "delivered", "failing"}]
    /\ job \in [Tasks -> JobType \cup {NULL}]
    /\ snapshot \in [Tasks -> RowType \cup {NULL}]
    /\ failure \in [Tasks -> FailureType \cup {NULL}]
    /\ \A t \in Tasks :
        /\ pc[t] # "idle" => job[t] \in JobType
        /\ pc[t] \notin {"idle", "claiming"} => snapshot[t] \in RowType
        /\ pc[t] = "failing" => failure[t] \in FailureType
    /\ posts \in [Deliveries -> Nat]
    /\ answeredAt \in [Deliveries -> Nat]
    /\ acknowledged \subseteq Deliveries
    /\ now \in Nat

InFlight(t) == pc[t] \in {"posting", "delivered", "failing"}

(* An attempt has one owner: no other task works on the delivery while one *)
(* is between claim and result, and the row counts its attempt and has no  *)
(* retry time, which is all that keeps other jobs away: the status stays   *)
(* what it was before the claim.                                           *)
AttemptExclusive ==
    \A t \in Tasks : InFlight(t) =>
        /\ attemptCount[job[t].delivery] = AttemptNumber(t)
        /\ nextAttemptAt[job[t].delivery] = NULL
        /\ \A u \in Tasks :
            InFlight(u) /\ job[u].delivery = job[t].delivery => u = t

(* The endpoint gets at most one request per attempt, and at most          *)
(* MaxAttempts for a delivery, whatever jobs are repeated, late or         *)
(* materialized twice: only an attempt under way, or one whose worker died *)
(* before sending, has none.                                               *)
PostedOncePerAttempt ==
    \A d \in Deliveries :
        /\ attemptCount[d] <= MaxAttempts
        /\ posts[d] <= attemptCount[d]
        /\ nextAttemptAt[d] # NULL => posts[d] = attemptCount[d]
        /\ \A t \in Tasks : InFlight(t) /\ job[t].delivery = d =>
            posts[d] = IF pc[t] = "posting" THEN attemptCount[d] - 1 ELSE attemptCount[d]

(* DELIVERED is only said of what the endpoint took, FAILED only when      *)
(* every attempt was made or the subscription was disabled.                *)
OutcomeIsTruthful ==
    \A d \in Deliveries :
        /\ status[d] = "DELIVERED" => d \in acknowledged
        /\ status[d] = "FAILED" =>
            \/ attemptCount[d] = MaxAttempts /\ posts[d] = MaxAttempts
            \/ d[1] \in everDisabled

(* A delivery that waits to be claimed has an outbox row whose job can     *)
(* claim it at its time, if the subscription is enabled.                   *)
WaitingDeliveryHasTicket ==
    \A d \in Deliveries :
        (status[d] = "PENDING" /\ attemptCount[d] = 0) \/ nextAttemptAt[d] # NULL =>
            \E request \in outbox :
                /\ request.delivery = d
                /\ \E at \in {now, nextAttemptAt[d]} \ {NULL} :
                    MayClaim(Row(d), [delivery |-> d,
                                      expectedAttemptNumber |-> request.attemptNumber,
                                      claimedAt |-> at])

(* DELIVERED and FAILED are final, and an attempt that was counted stays   *)
(* counted: no late result, no stop of a disabled subscription and no      *)
(* second fan-out of the event by another dispatcher undoes either.        *)
SettledIsFinal ==
    [][\A d \in Deliveries :
        /\ status[d] \in {"DELIVERED", "FAILED"} =>
            UNCHANGED <<status[d], attemptCount[d], nextAttemptAt[d]>>
        /\ attemptCount'[d] \in {attemptCount[d], attemptCount[d] + 1}]_vars

(* An attempt starts only while the subscription is enabled, though the    *)
(* task read that it is some time before, and only when the backoff after  *)
(* the endpoint's last answer has passed.                                  *)
AttemptsAreAllowed ==
    [][\A d \in Deliveries : attemptCount'[d] > attemptCount[d] =>
        /\ enabled[d[1]] = TRUE
        /\ attemptCount[d] > 0 =>
            now >= answeredAt[d] + BaseDelay * 2^(attemptCount[d] - 1)]_vars

\* The phase of WebhookLifecycle that a row stands for: neither status tells
\* a delivery that waits from one that is being attempted.
Phase(d) ==
    CASE status[d] = NULL -> "none"
      [] status[d] = "DELIVERED" -> "delivered"
      [] status[d] = "FAILED" -> "failed"
      [] status[d] \in ClaimableStatuses ->
            IF attemptCount[d] = 0 \/ nextAttemptAt[d] # NULL
            THEN "waiting" ELSE "attempting"

(* What processor and materializer do to the deliveries, seen as a whole,  *)
(* is what WebhookLifecycle promises.                                      *)
Lifecycle == INSTANCE WebhookLifecycle WITH
    phase <- [d \in Deliveries |-> Phase(d)],
    attempts <- attemptCount,
    requests <- posts,
    disabled <- everDisabled

ImplementsLifecycle == Lifecycle!Spec

(* "Any 2xx response succeeds": a delivery is not failed once the endpoint *)
(* answered it with a 2xx.                                                 *)
AcknowledgedNeverFails ==
    \A d \in acknowledged : status[d] # "FAILED"
=============================================================================
