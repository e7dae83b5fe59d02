------------------------ MODULE WebhookDeliveryProofs ------------------------
(***************************************************************************)
(* Proofs of the safety properties of WebhookDelivery, for any number of   *)
(* subscriptions, events, dispatchers, workers and attempts.               *)
(***************************************************************************)
EXTENDS WebhookDelivery, TLAPS

-----------------------------------------------------------------------------
(* Steps and operators                                                     *)

\* The steps by what they change: those of the subscriptions, the reads of a
\* fan-out and the four ways a task ends without a write are one case each.
LEMMA StepCases ==
    ASSUME [Next]_vars
    PROVE  \/ \E s \in Subscriptions :
                create(s) \/ \E value \in BOOLEAN : setEnabled(s, value)
           \/ \E m \in Materializers :
                \/ \E e \in Events : FindSource(m, e)
                \/ FindSubscriptions(m)
                \/ FanoutFails(m)
           \/ \E m \in Materializers : materializeDeliveries(m)
           \/ \E t \in Tasks, request \in outbox : StartJob(t, request)
           \/ \E t \in Tasks : Finish(t) /\ TaskReads
           \/ \E t \in Tasks : ClaimRead(t)
           \/ \E t \in Tasks : StopDisabled(t)
           \/ \E t \in Tasks : claimAttempt(t)
           \/ \E t \in Tasks, success \in BOOLEAN : post(t, success)
           \/ \E t \in Tasks : markDelivered(t)
           \/ \E t \in Tasks : MarkDeliveredThrows(t)
           \/ \E t \in Tasks : recordFailure(t)
           \/ Tick
           \/ UNCHANGED vars
BY DEF Next, TaskStep, ClaimRefused, ClaimNotDue, ClaimLost, Abandon

\* The retry delay is a number (TLAPS knows no more about exponents).
LEMMA RetryDelayType ==
    ASSUME NEW n \in Nat \ {0}
    PROVE  calculateWebhookRetryDelay(n) \in Int
<1>1. 2^(n - 1) \in Int
  BY SMT
<1> QED
  BY <1>1, WebhookAssumption DEF calculateWebhookRetryDelay

\* An attempt is counted from one.
LEMMA AttemptNumberType ==
    ASSUME TypeOK, NEW t \in Tasks, pc[t] \notin {"idle", "claiming"}
    PROVE  AttemptNumber(t) \in Nat \ {0}
<1>1. snapshot[t].attemptCount \in Nat
  BY DEF TypeOK, RowType
<1> QED
  BY <1>1 DEF AttemptNumber

\* What recordFailure is told has its type.
LEMMA FailureOfType ==
    ASSUME TypeOK, NEW t \in Tasks, pc[t] \notin {"idle", "claiming"}
    PROVE  FailureOf(t) \in FailureType
<1>1. now + calculateWebhookRetryDelay(AttemptNumber(t)) \in Int
  BY AttemptNumberType, RetryDelayType DEF TypeOK
<1> QED
  BY <1>1 DEF FailureOf, FailureType

\* A request for a delivery attempt has the type of an outbox row.
LEMMA DeliveryRequestType ==
    ASSUME NEW d \in Deliveries, NEW n \in Nat \ {0}, NEW at \in Int \cup {NULL}
    PROVE  DeliveryRequest(d, n, at) \in
                [delivery: Deliveries, attemptNumber: Nat \ {0}, nextAttemptAt: Int \cup {NULL}]
BY DEF DeliveryRequest

\* So have the rows a fan-out adds.
LEMMA FanoutRowsType ==
    ASSUME NEW e \in Events, NEW found \in SUBSET Subscriptions
    PROVE  {DeliveryRequest(<<s, e>>, 1, NULL) : s \in found} \subseteq
                [delivery: Deliveries, attemptNumber: Nat \ {0}, nextAttemptAt: Int \cup {NULL}]
<1> SUFFICES ASSUME NEW s \in found
             PROVE  DeliveryRequest(<<s, e>>, 1, NULL) \in
                [delivery: Deliveries, attemptNumber: Nat \ {0}, nextAttemptAt: Int \cup {NULL}]
  OBVIOUS
<1>1. <<s, e>> \in Deliveries
  BY DEF Deliveries
<1> QED
  BY <1>1 DEF DeliveryRequest

-----------------------------------------------------------------------------
(* Type correctness                                                        *)

\* The initial state has the types of TypeOK.
LEMMA TypeInit == Init => TypeOK
BY DEF Init, TypeOK

\* Each step keeps them; one step of the proof per case of StepCases.
LEMMA TypeStep == TypeOK /\ [Next]_vars => TypeOK'
<1> SUFFICES ASSUME TypeOK, [Next]_vars PROVE TypeOK'
  OBVIOUS
<1> USE DEF TypeOK, vars, subscriptionVars, fanoutVars, deliveryRow, local, endpoint,
            TaskReads, TaskWrites
<1>1. ASSUME NEW s \in Subscriptions,
             create(s) \/ \E value \in BOOLEAN : setEnabled(s, value)
      PROVE  TypeOK'
  BY <1>1 DEF create, setEnabled
<1>2. ASSUME NEW m \in Materializers,
             \/ \E e \in Events : FindSource(m, e)
             \/ FindSubscriptions(m)
             \/ FanoutFails(m)
      PROVE  TypeOK'
  <2>1. CASE \E e \in Events : FindSource(m, e)
    BY <2>1 DEF FindSource
  <2>2. CASE FindSubscriptions(m)
    BY <2>2 DEF FindSubscriptions
  <2>3. CASE FanoutFails(m)
    BY <2>3 DEF FanoutFails
  <2> QED
    BY <1>2, <2>1, <2>2, <2>3
<1>3. ASSUME NEW m \in Materializers, materializeDeliveries(m) PROVE TypeOK'
  <2> DEFINE e == fanout[m].event
             rows == {DeliveryRequest(<<s, e>>, 1, NULL) : s \in fanout[m].subscriptions}
  <2>1. e \in Events /\ fanout[m].subscriptions \subseteq Subscriptions
    BY <1>3 DEF materializeDeliveries
  <2>2. rows \subseteq [delivery: Deliveries, attemptNumber: Nat \ {0},
                        nextAttemptAt: Int \cup {NULL}]
    BY <2>1, FanoutRowsType
  <2>3. outbox' \subseteq [delivery: Deliveries, attemptNumber: Nat \ {0},
                           nextAttemptAt: Int \cup {NULL}]
    BY <1>3, <2>2 DEF materializeDeliveries
  <2>4. /\ status' \in [Deliveries -> WebhookDeliveryStatus \cup {NULL}]
        /\ attemptCount' \in [Deliveries -> Nat]
        /\ nextAttemptAt' \in [Deliveries -> Int \cup {NULL}]
    BY <1>3 DEF materializeDeliveries, WebhookDeliveryStatus, ClaimableStatuses
  <2>5. materialized' \subseteq Events
    BY <1>3, <2>1 DEF materializeDeliveries
  <2> QED
    BY <1>3, <2>3, <2>4, <2>5 DEF materializeDeliveries
<1>4. ASSUME NEW t \in Tasks, NEW request \in outbox, StartJob(t, request) PROVE TypeOK'
  <2>1. [delivery |-> request.delivery, expectedAttemptNumber |-> request.attemptNumber,
         claimedAt |-> now] \in JobType
    BY DEF JobType
  <2> QED
    BY <1>4, <2>1 DEF StartJob
<1>5. ASSUME NEW t \in Tasks, Finish(t), TaskReads PROVE TypeOK'
  BY <1>5 DEF Finish
<1>6. ASSUME NEW t \in Tasks, ClaimRead(t) PROVE TypeOK'
  <2>1. job[t].delivery \in Deliveries
    BY <1>6 DEF ClaimRead, JobType
  <2>2. Row(job[t].delivery) \in RowType
    BY <1>6, <2>1 DEF ClaimRead, Row, RowType
  <2>3. pc' = [pc EXCEPT ![t] = "claimable"] \/ pc' = [pc EXCEPT ![t] = "stopping"]
    BY <1>6 DEF ClaimRead
  <2> QED
    BY <1>6, <2>2, <2>3 DEF ClaimRead
<1>7. ASSUME NEW t \in Tasks, StopDisabled(t) PROVE TypeOK'
  <2>1. job[t].delivery \in Deliveries
    BY <1>7 DEF StopDisabled, JobType
  <2> QED
    BY <1>7, <2>1 DEF StopDisabled, Finish, WebhookDeliveryStatus
<1>8. ASSUME NEW t \in Tasks, claimAttempt(t) PROVE TypeOK'
  <2>1. job[t].delivery \in Deliveries
    BY <1>8 DEF claimAttempt, JobType
  <2> QED
    BY <1>8, <2>1 DEF claimAttempt
<1>9. ASSUME NEW t \in Tasks, NEW success \in BOOLEAN, post(t, success) PROVE TypeOK'
  <2>1. job[t].delivery \in Deliveries
    BY <1>9 DEF post, JobType
  <2>2. FailureOf(t) \in FailureType
    BY <1>9, FailureOfType DEF post
  <2>3. CASE success
    BY <1>9, <2>1, <2>3 DEF post
  <2>4. CASE ~success
    BY <1>9, <2>1, <2>2, <2>4 DEF post
  <2> QED
    BY <2>3, <2>4
<1>10. ASSUME NEW t \in Tasks, RecordDelivered(t) \/ UNCHANGED <<status, nextAttemptAt>>,
              pc[t] = "delivered"
       PROVE  /\ status' \in [Deliveries -> WebhookDeliveryStatus \cup {NULL}]
              /\ nextAttemptAt' \in [Deliveries -> Int \cup {NULL}]
  BY <1>10 DEF RecordDelivered, WebhookDeliveryStatus
<1>11. ASSUME NEW t \in Tasks, markDelivered(t) PROVE TypeOK'
  BY <1>10, <1>11 DEF markDelivered, Finish
<1>12. ASSUME NEW t \in Tasks, MarkDeliveredThrows(t) PROVE TypeOK'
  <2>1. FailureOf(t) \in FailureType
    BY <1>12, FailureOfType DEF MarkDeliveredThrows
  <2> QED
    BY <1>10, <1>12, <2>1 DEF MarkDeliveredThrows
<1>13. ASSUME NEW t \in Tasks, recordFailure(t) PROVE TypeOK'
  <2>1. job[t].delivery \in Deliveries /\ failure[t] \in FailureType
    BY <1>13 DEF recordFailure, JobType
  <2>2. AttemptNumber(t) + 1 \in Nat \ {0}
    BY <1>13, AttemptNumberType DEF recordFailure
  <2>3. RetryOf(t) \subseteq [delivery: Deliveries, attemptNumber: Nat \ {0},
                              nextAttemptAt: Int \cup {NULL}]
    <3>1. failure[t].nextAttemptAt \in Int \cup {NULL}
      BY <2>1 DEF FailureType
    <3>2. DeliveryRequest(job[t].delivery, AttemptNumber(t) + 1, failure[t].nextAttemptAt) \in
            [delivery: Deliveries, attemptNumber: Nat \ {0}, nextAttemptAt: Int \cup {NULL}]
      BY <2>1, <2>2, <3>1, DeliveryRequestType
    <3> QED
      BY <3>2 DEF RetryOf
  <2>4. outbox' \subseteq [delivery: Deliveries, attemptNumber: Nat \ {0},
                           nextAttemptAt: Int \cup {NULL}]
    BY <1>13, <2>3 DEF recordFailure
  <2>5. /\ status' \in [Deliveries -> WebhookDeliveryStatus \cup {NULL}]
        /\ nextAttemptAt' \in [Deliveries -> Int \cup {NULL}]
    BY <1>13, <2>1 DEF recordFailure, FailureType, WebhookDeliveryStatus, ClaimableStatuses
  <2> QED
    BY <1>13, <2>4, <2>5 DEF recordFailure, Finish
<1>14. CASE Tick
  BY <1>14 DEF Tick
<1>15. CASE UNCHANGED vars
  BY <1>15
<1> QED
  BY StepCases, <1>1, <1>2, <1>3, <1>4, <1>5, <1>6, <1>7, <1>8, <1>9,
     <1>11, <1>12, <1>13, <1>14, <1>15

\* The variables always have their types, and a task that reached an await
\* has the local variables it uses after it.
THEOREM TypeCorrect == Spec => []TypeOK
BY TypeInit, TypeStep, PTL DEF Spec

-----------------------------------------------------------------------------
(* One owner per attempt. A claim succeeds only on the row it read, so it  *)
(* matters what a task may have read: PENDING before any attempt. While an *)
(* attempt is under way it is counted and there is no retry time, and that *)
(* matches neither such a PENDING nor a due RETRYING.                      *)

SnapshotsClaimable ==
    \A t \in Tasks : pc[t] = "claimable" \/ InFlight(t) =>
        /\ snapshot[t].status = "PENDING" => snapshot[t].attemptCount = 0
        /\ AttemptNumber(t) <= MaxAttempts

\* A task past its read works on a row that exists.
RowsExist ==
    \A t \in Tasks : pc[t] \notin {"idle", "claiming"} => status[job[t].delivery] # NULL

NoRowNoAttempt ==
    \A d \in Deliveries : status[d] = NULL => attemptCount[d] = 0 /\ nextAttemptAt[d] = NULL

ClaimInv == AttemptExclusive /\ SnapshotsClaimable /\ RowsExist /\ NoRowNoAttempt

\* A fan-out only adds PENDING rows where there were none.
LEMMA Materializing ==
    ASSUME TypeOK, NoRowNoAttempt, NEW m \in Materializers, materializeDeliveries(m)
    PROVE  /\ UNCHANGED <<attemptCount, nextAttemptAt>>
           /\ \A d \in Deliveries : status'[d] # status[d] =>
                /\ status[d] = NULL
                /\ status'[d] = "PENDING"
                /\ DeliveryRequest(d, 1, NULL) \in outbox'
<1>1. \A d \in CreatedDeliveries(m) : status[d] = NULL
  BY DEF CreatedDeliveries
<1>2. /\ status' \in [Deliveries -> WebhookDeliveryStatus \cup {NULL}]
      /\ \A d \in Deliveries : status'[d] =
            IF d \in CreatedDeliveries(m) THEN "PENDING" ELSE status[d]
  BY DEF TypeOK, materializeDeliveries, WebhookDeliveryStatus, ClaimableStatuses
<1>3. attemptCount' = attemptCount /\ nextAttemptAt' = nextAttemptAt
  BY <1>1 DEF TypeOK, NoRowNoAttempt, materializeDeliveries
<1>4. ASSUME NEW d \in CreatedDeliveries(m) PROVE DeliveryRequest(d, 1, NULL) \in outbox'
  <2>1. PICK s \in fanout[m].subscriptions : d = <<s, fanout[m].event>>
    BY <1>4 DEF CreatedDeliveries
  <2> QED
    BY <2>1 DEF materializeDeliveries
<1> QED
  BY <1>1, <1>2, <1>3, <1>4

\* Of the tasks in flight for a delivery, the one that finishes is the only one.
LEMMA OthersElsewhere ==
    ASSUME AttemptExclusive, NEW t \in Tasks, InFlight(t), NEW u \in Tasks, InFlight(u), u # t
    PROVE  job[u].delivery # job[t].delivery
BY DEF AttemptExclusive

\* The updates that do not claim, taken together.
Update(t) ==
    StopDisabled(t) \/ markDelivered(t) \/ MarkDeliveredThrows(t) \/ recordFailure(t)

\* What the updates do to the row of their task.
LEMMA Updating ==
    ASSUME TypeOK, NEW t \in Tasks, Update(t)
    PROVE  /\ UNCHANGED <<subscriptionVars, fanoutVars, endpoint, now, attemptCount>>
           /\ job[t].delivery \in Deliveries
           /\ \A d \in Deliveries : d # job[t].delivery =>
                status'[d] = status[d] /\ nextAttemptAt'[d] = nextAttemptAt[d]
           /\ \A u \in Tasks \ {t} : /\ pc'[u] = pc[u]
                                     /\ job'[u] = job[u]
                                     /\ snapshot'[u] = snapshot[u]
                                     /\ failure'[u] = failure[u]
           /\ MarkDeliveredThrows(t) \/ Finish(t)
<1>1. job[t].delivery \in Deliveries
  BY DEF Update, TypeOK, JobType, StopDisabled, markDelivered, MarkDeliveredThrows,
         recordFailure
<1> QED
  BY <1>1 DEF Update, TypeOK, StopDisabled, markDelivered, MarkDeliveredThrows, recordFailure,
              RecordDelivered, Finish, TaskWrites

\* An update finds its row unsettled and leaves it with a status.
LEMMA UpdatedStatus ==
    ASSUME TypeOK, NEW t \in Tasks, Update(t)
    PROVE  LET d == job[t].delivery IN
           \/ status'[d] = status[d] /\ nextAttemptAt'[d] = nextAttemptAt[d]
           \/ /\ status[d] \in ClaimableStatuses
              /\ \/ /\ status'[d] \in {"DELIVERED", "FAILED"}
                    /\ nextAttemptAt'[d] = NULL
                 \/ /\ recordFailure(t)
                    /\ status'[d] = failure[t].status
                    /\ nextAttemptAt'[d] = failure[t].nextAttemptAt
                    /\ attemptCount[d] = AttemptNumber(t)
<1>1. job[t].delivery \in Deliveries
  BY Updating
<1>2. CASE StopDisabled(t)
  BY <1>1, <1>2 DEF TypeOK, StopDisabled, SnapshotCurrent, RowType
<1>3. CASE markDelivered(t)
  BY <1>1, <1>3 DEF TypeOK, markDelivered, RecordDelivered, ResultMatches
<1>4. CASE MarkDeliveredThrows(t)
  BY <1>1, <1>4 DEF TypeOK, MarkDeliveredThrows, RecordDelivered, ResultMatches
<1>5. CASE recordFailure(t)
  BY <1>1, <1>5 DEF TypeOK, recordFailure, ResultMatches
<1> QED
  BY <1>2, <1>3, <1>4, <1>5 DEF Update

\* A claim finds its row as it was read, and nobody in flight for it.
LEMMA Claiming ==
    ASSUME TypeOK, ClaimInv, NEW t \in Tasks, claimAttempt(t)
    PROVE  LET d == job[t].delivery IN
           /\ d \in Deliveries
           /\ attemptCount[d] = snapshot[t].attemptCount
           /\ attemptCount' = [attemptCount EXCEPT ![d] = AttemptNumber(t)]
           /\ status[d] \in ClaimableStatuses
           /\ status[d] = "PENDING" => attemptCount[d] = 0
           /\ status[d] = "RETRYING" => nextAttemptAt[d] # NULL
           /\ \A u \in Tasks : InFlight(u) => job[u].delivery # d
<1> DEFINE d == job[t].delivery
<1>1. /\ d \in Deliveries /\ snapshot[t] \in RowType
      /\ attemptCount[d] = snapshot[t].attemptCount /\ status[d] = snapshot[t].status
      /\ status[d] = "RETRYING" => nextAttemptAt[d] # NULL
  BY DEF TypeOK, JobType, claimAttempt, ClaimMatches, SnapshotCurrent, IsDue, Row
<1>2. attemptCount' = [attemptCount EXCEPT ![d] = AttemptNumber(t)]
  BY <1>1 DEF claimAttempt, AttemptNumber, TypeOK
<1>3. status[d] \in ClaimableStatuses /\ (status[d] = "PENDING" => attemptCount[d] = 0)
  BY <1>1 DEF claimAttempt, ClaimInv, SnapshotsClaimable, RowType
<1>4. ASSUME NEW u \in Tasks, InFlight(u), job[u].delivery = d PROVE FALSE
  <2>1. attemptCount[d] = AttemptNumber(u) /\ nextAttemptAt[d] = NULL
    BY <1>4 DEF ClaimInv, AttemptExclusive
  <2>2. AttemptNumber(u) # 0
    BY <1>4, AttemptNumberType DEF InFlight
  <2> QED
    BY <1>1, <1>3, <2>1, <2>2 DEF ClaimableStatuses
<1> QED
  BY <1>1, <1>2, <1>3, <1>4

\* Claims stay exclusive; one step of the proof per case of StepCases.
LEMMA ClaimStep == TypeOK /\ ClaimInv /\ [Next]_vars => ClaimInv'
<1> SUFFICES ASSUME TypeOK, ClaimInv, [Next]_vars PROVE ClaimInv'
  OBVIOUS
<1> USE DEF ClaimInv, AttemptExclusive, SnapshotsClaimable, RowsExist, NoRowNoAttempt,
            InFlight, AttemptNumber, vars, subscriptionVars, fanoutVars, deliveryRow,
            local, endpoint, TaskReads, TaskWrites
<1>0. /\ \A u \in Tasks : pc[u] # "idle" => job[u].delivery \in Deliveries
      /\ pc \in [Tasks -> {"idle", "claiming", "claimable", "stopping", "posting",
                           "delivered", "failing"}]
  BY DEF TypeOK, JobType
<1>1. ASSUME NEW s \in Subscriptions,
             create(s) \/ \E value \in BOOLEAN : setEnabled(s, value)
      PROVE  ClaimInv'
  BY <1>1 DEF create, setEnabled
<1>2. ASSUME NEW m \in Materializers,
             \/ \E e \in Events : FindSource(m, e)
             \/ FindSubscriptions(m)
             \/ FanoutFails(m)
      PROVE  ClaimInv'
  BY <1>2 DEF FindSource, FindSubscriptions, FanoutFails
<1>3. ASSUME NEW m \in Materializers, materializeDeliveries(m) PROVE ClaimInv'
  <2>1. /\ UNCHANGED <<attemptCount, nextAttemptAt, local>>
        /\ \A d \in Deliveries : status[d] # NULL => status'[d] = status[d]
        /\ \A d \in Deliveries : status'[d] = NULL => status[d] = NULL
    BY <1>3, Materializing DEF materializeDeliveries
  <2> QED
    BY <1>0, <2>1
<1>4. ASSUME NEW t \in Tasks, NEW request \in outbox, StartJob(t, request) PROVE ClaimInv'
  BY <1>0, <1>4 DEF StartJob, TypeOK
<1>5. ASSUME NEW t \in Tasks, Finish(t), TaskReads PROVE ClaimInv'
  BY <1>0, <1>5 DEF Finish, TypeOK
<1>6. ASSUME NEW t \in Tasks, ClaimRead(t) PROVE ClaimInv'
  <2> DEFINE r == Row(job[t].delivery)
  <2>1. /\ r.status \in ClaimableStatuses
        /\ status[job[t].delivery] = r.status
        /\ \/ pc' = [pc EXCEPT ![t] = "stopping"]
           \/ pc' = [pc EXCEPT ![t] = "claimable"] /\ MayClaim(r, job[t])
        /\ snapshot' = [snapshot EXCEPT ![t] = r]
        /\ UNCHANGED <<job, deliveryRow>>
    BY <1>6 DEF ClaimRead, Row
  <2>2. MayClaim(r, job[t]) => /\ r.status = "PENDING" => r.attemptCount = 0
                               /\ r.attemptCount + 1 <= MaxAttempts
    BY DEF MayClaim
  <2>3. NULL \notin ClaimableStatuses
    BY WebhookAssumption DEF WebhookDeliveryStatus
  <2> HIDE DEF r
  <2>4. SnapshotsClaimable' /\ RowsExist'
    BY <1>0, <2>1, <2>2, <2>3 DEF TypeOK
  <2>5. AttemptExclusive' /\ NoRowNoAttempt'
    BY <1>0, <2>1 DEF TypeOK
  <2> QED
    BY <2>4, <2>5
<1>7. ASSUME NEW t \in Tasks, claimAttempt(t) PROVE ClaimInv'
  <2> DEFINE d == job[t].delivery
  <2>1. /\ d \in Deliveries
        /\ attemptCount' = [attemptCount EXCEPT ![d] = AttemptNumber(t)]
        /\ nextAttemptAt' = [nextAttemptAt EXCEPT ![d] = NULL]
        /\ pc' = [pc EXCEPT ![t] = "posting"]
        /\ UNCHANGED <<job, snapshot, status>>
        /\ status[d] \in ClaimableStatuses
        /\ \A u \in Tasks : InFlight(u) => job[u].delivery # d
    BY <1>7, Claiming DEF claimAttempt
  <2>2. NULL \notin ClaimableStatuses
    BY WebhookAssumption DEF WebhookDeliveryStatus
  <2>3. AttemptExclusive'
    BY <1>0, <2>1 DEF TypeOK
  <2>4. SnapshotsClaimable' /\ RowsExist'
    BY <1>0, <1>7, <2>1 DEF claimAttempt
  <2>5. NoRowNoAttempt'
    BY <2>1, <2>2 DEF TypeOK
  <2> QED
    BY <2>3, <2>4, <2>5
<1>8. ASSUME NEW t \in Tasks, NEW success \in BOOLEAN, post(t, success) PROVE ClaimInv'
  <2>1. /\ pc[t] = "posting"
        /\ pc' = [pc EXCEPT ![t] = "delivered"] \/ pc' = [pc EXCEPT ![t] = "failing"]
        /\ UNCHANGED <<job, snapshot, deliveryRow>>
    BY <1>8 DEF post
  <2> QED
    BY <1>0, <2>1
<1>9. ASSUME NEW t \in Tasks, Update(t) PROVE ClaimInv'
  <2> DEFINE d == job[t].delivery
  <2>1. /\ d \in Deliveries
        /\ attemptCount' = attemptCount
        /\ \A q \in Deliveries : q # d =>
            status'[q] = status[q] /\ nextAttemptAt'[q] = nextAttemptAt[q]
        /\ \A u \in Tasks \ {t} :
            pc'[u] = pc[u] /\ job'[u] = job[u] /\ snapshot'[u] = snapshot[u]
        /\ MarkDeliveredThrows(t) \/ Finish(t)
    BY <1>9, Updating
  <2>2. status[d] # NULL => status'[d] # NULL
    BY <1>9, UpdatedStatus, WebhookAssumption
       DEF Update, TypeOK, FailureType, WebhookDeliveryStatus, ClaimableStatuses, recordFailure
  <2>3. status[d] # NULL
    BY <1>9 DEF Update, StopDisabled, markDelivered, MarkDeliveredThrows, recordFailure
  <2>4. RowsExist' /\ NoRowNoAttempt'
    <3>1. \A u \in Tasks : pc'[u] \notin {"idle", "claiming"} =>
            pc[u] \notin {"idle", "claiming"} /\ job'[u] = job[u]
      BY <1>0, <2>1 DEF TypeOK, Finish, MarkDeliveredThrows
    <3> QED
      BY <1>0, <2>1, <2>2, <2>3, <3>1
  <2>5. CASE MarkDeliveredThrows(t)
    <3>1. /\ pc[t] = "delivered" /\ pc' = [pc EXCEPT ![t] = "failing"]
          /\ UNCHANGED <<job, snapshot>>
          /\ nextAttemptAt'[d] \in {NULL, nextAttemptAt[d]}
      BY <2>5, <2>1 DEF MarkDeliveredThrows, RecordDelivered, TypeOK
    <3>2. AttemptExclusive' /\ SnapshotsClaimable'
      BY <1>0, <2>1, <3>1
    <3> QED
      BY <2>4, <3>2
  <2>6. CASE Finish(t)
    <3>1. pc' = [pc EXCEPT ![t] = "idle"]
      BY <2>6 DEF Finish
    <3>2. SnapshotsClaimable'
      BY <1>0, <2>1, <3>1
    <3>3. AttemptExclusive'
      <4>1. CASE InFlight(t)
        <5>1. \A u \in Tasks : InFlight(u)' => /\ u # t
                                               /\ InFlight(u)
                                               /\ job'[u] = job[u]
                                               /\ job[u].delivery # d
          BY <1>0, <2>1, <3>1, <4>1, OthersElsewhere
        <5> QED
          BY <1>0, <2>1, <3>1, <5>1
      <4>2. CASE ~InFlight(t)
        <5>1. nextAttemptAt'[d] \in {NULL, nextAttemptAt[d]}
          BY <1>9, <2>1, <4>2 DEF Update, StopDisabled, markDelivered, MarkDeliveredThrows,
                                  recordFailure, TypeOK
        <5> QED
          BY <1>0, <2>1, <3>1, <5>1
      <4> QED
        BY <4>1, <4>2
    <3> QED
      BY <2>4, <3>2, <3>3
  <2> QED
    BY <2>1, <2>5, <2>6
<1>10. CASE Tick
  BY <1>10 DEF Tick
<1>11. CASE UNCHANGED vars
  BY <1>11
<1> QED
  BY StepCases, <1>1, <1>2, <1>3, <1>4, <1>5, <1>6, <1>7, <1>8, <1>9, <1>10, <1>11
     DEF Update

\* The invariant of the claims holds in every reachable state.
LEMMA ClaimInvariant == Spec => []ClaimInv
<1>1. Init => ClaimInv
  BY DEF Init, ClaimInv, AttemptExclusive, SnapshotsClaimable, RowsExist, NoRowNoAttempt, InFlight
<1> QED
  BY <1>1, TypeCorrect, ClaimStep, PTL DEF Spec

\* An attempt has one owner from its claim to its result, whatever jobs are
\* repeated and however many dispatchers fan the event out.
THEOREM AttemptsAreExclusive == Spec => []AttemptExclusive
BY ClaimInvariant, PTL DEF ClaimInv

-----------------------------------------------------------------------------
(* Requests to the endpoint: their number follows the number of attempts,  *)
(* because an attempt has one owner, who sends once.                       *)

\* The relation is kept by every step.
LEMMA PostStep == TypeOK /\ ClaimInv /\ PostedOncePerAttempt /\ [Next]_vars
                      => PostedOncePerAttempt'
<1> SUFFICES ASSUME TypeOK, ClaimInv, PostedOncePerAttempt, [Next]_vars
             PROVE  PostedOncePerAttempt'
  OBVIOUS
<1> USE DEF PostedOncePerAttempt, InFlight, vars, subscriptionVars, fanoutVars, deliveryRow,
            local, endpoint, TaskReads, TaskWrites
<1>0. /\ pc \in [Tasks -> {"idle", "claiming", "claimable", "stopping", "posting",
                           "delivered", "failing"}]
      /\ attemptCount \in [Deliveries -> Nat] /\ posts \in [Deliveries -> Nat]
      /\ nextAttemptAt \in [Deliveries -> Int \cup {NULL}]
  BY DEF TypeOK
<1>1. ASSUME NEW s \in Subscriptions,
             create(s) \/ \E value \in BOOLEAN : setEnabled(s, value)
      PROVE  PostedOncePerAttempt'
  BY <1>1 DEF create, setEnabled
<1>2. ASSUME NEW m \in Materializers,
             \/ \E e \in Events : FindSource(m, e)
             \/ FindSubscriptions(m)
             \/ FanoutFails(m)
      PROVE  PostedOncePerAttempt'
  BY <1>2 DEF FindSource, FindSubscriptions, FanoutFails
<1>3. ASSUME NEW m \in Materializers, materializeDeliveries(m) PROVE PostedOncePerAttempt'
  <2>1. UNCHANGED <<attemptCount, nextAttemptAt, local, endpoint>>
    BY <1>3, Materializing DEF materializeDeliveries, ClaimInv
  <2> QED
    BY <2>1
<1>4. ASSUME NEW t \in Tasks, NEW request \in outbox, StartJob(t, request)
      PROVE  PostedOncePerAttempt'
  BY <1>0, <1>4 DEF StartJob, TypeOK
<1>5. ASSUME NEW t \in Tasks, Finish(t), TaskReads PROVE PostedOncePerAttempt'
  BY <1>0, <1>5 DEF Finish, TypeOK
<1>6. ASSUME NEW t \in Tasks, ClaimRead(t) PROVE PostedOncePerAttempt'
  BY <1>0, <1>6 DEF ClaimRead
<1>7. ASSUME NEW t \in Tasks, claimAttempt(t) PROVE PostedOncePerAttempt'
  <2> DEFINE d == job[t].delivery
  <2>1. /\ d \in Deliveries
        /\ attemptCount[d] = snapshot[t].attemptCount
        /\ attemptCount' = [attemptCount EXCEPT ![d] = AttemptNumber(t)]
        /\ nextAttemptAt' = [nextAttemptAt EXCEPT ![d] = NULL]
        /\ pc' = [pc EXCEPT ![t] = "posting"]
        /\ UNCHANGED <<job, posts>>
        /\ status[d] \in {"PENDING", "RETRYING"}
        /\ status[d] = "PENDING" => attemptCount[d] = 0
        /\ status[d] = "RETRYING" => nextAttemptAt[d] # NULL
        /\ \A u \in Tasks : InFlight(u) => job[u].delivery # d
    BY <1>7, Claiming DEF claimAttempt, ClaimableStatuses
  <2>2. AttemptNumber(t) = attemptCount[d] + 1 /\ AttemptNumber(t) <= MaxAttempts
    BY <1>7, <2>1 DEF AttemptNumber, ClaimInv, SnapshotsClaimable, claimAttempt
  <2>3. posts[d] = attemptCount[d]
    BY <1>0, <2>1
  <2> HIDE DEF d
  <2> SUFFICES ASSUME NEW q \in Deliveries
               PROVE  /\ attemptCount'[q] <= MaxAttempts
                      /\ posts'[q] <= attemptCount'[q]
                      /\ nextAttemptAt'[q] # NULL => posts'[q] = attemptCount'[q]
                      /\ \A u \in Tasks : InFlight(u)' /\ job'[u].delivery = q =>
                          posts'[q] = IF pc'[u] = "posting" THEN attemptCount'[q] - 1
                                                            ELSE attemptCount'[q]
    OBVIOUS
  <2>4. CASE q = d
    BY <1>0, <2>1, <2>2, <2>3, <2>4
  <2>5. CASE q # d
    <3>1. job[t].delivery = d
      BY DEF d
    <3> QED
      BY <1>0, <2>1, <2>5, <3>1
  <2> QED
    BY <2>4, <2>5
<1>8. ASSUME NEW t \in Tasks, NEW success \in BOOLEAN, post(t, success)
      PROVE  PostedOncePerAttempt'
  <2> DEFINE d == job[t].delivery
  <2>1. /\ d \in Deliveries
        /\ pc[t] = "posting"
        /\ pc' = [pc EXCEPT ![t] = "delivered"] \/ pc' = [pc EXCEPT ![t] = "failing"]
        /\ posts' = [posts EXCEPT ![d] = @ + 1]
        /\ UNCHANGED <<job, deliveryRow>>
    BY <1>8 DEF post, TypeOK, JobType
  <2>2. nextAttemptAt[d] = NULL /\ posts[d] = attemptCount[d] - 1
    BY <2>1 DEF ClaimInv, AttemptExclusive
  <2>3. \A u \in Tasks : InFlight(u) /\ u # t => job[u].delivery # d
    BY <2>1, OthersElsewhere DEF ClaimInv
  <2> HIDE DEF d
  <2>4. job[t].delivery = d
    BY DEF d
  <2> QED
    BY <1>0, <2>1, <2>2, <2>3, <2>4
<1>9. ASSUME NEW t \in Tasks, Update(t) PROVE PostedOncePerAttempt'
  <2> DEFINE d == job[t].delivery
  <2>1. /\ d \in Deliveries
        /\ attemptCount' = attemptCount /\ posts' = posts
        /\ \A q \in Deliveries : q # d => nextAttemptAt'[q] = nextAttemptAt[q]
        /\ \A u \in Tasks \ {t} : pc'[u] = pc[u] /\ job'[u] = job[u]
        /\ MarkDeliveredThrows(t) \/ Finish(t)
    BY <1>9, Updating
  <2>2. \A u \in Tasks : InFlight(u)' => /\ InFlight(u)
                                         /\ job'[u] = job[u]
                                         /\ pc'[u] = "posting" <=> pc[u] = "posting"
    BY <1>0, <2>1 DEF Finish, MarkDeliveredThrows
  <2>3. nextAttemptAt'[d] # NULL => posts[d] = attemptCount[d]
    <3>1. \/ nextAttemptAt'[d] = nextAttemptAt[d]
          \/ nextAttemptAt'[d] = NULL
          \/ pc[t] = "failing"
      BY <1>9, UpdatedStatus DEF recordFailure
    <3>2. pc[t] = "failing" => posts[d] = attemptCount[d]
      BY <2>1
    <3> QED
      BY <2>1, <3>1, <3>2
  <2> HIDE DEF d
  <2> QED
    BY <1>0, <2>1, <2>2, <2>3
<1>10. CASE Tick
  BY <1>10 DEF Tick
<1>11. CASE UNCHANGED vars
  BY <1>11
<1> QED
  BY StepCases, <1>1, <1>2, <1>3, <1>4, <1>5, <1>6, <1>7, <1>8, <1>9, <1>10, <1>11
     DEF Update

\* The endpoint gets at most one request per attempt, and never more than
\* MaxAttempts for a delivery, for any number of workers, jobs and crashes.
THEOREM PostedAtMostOnce == Spec => []PostedOncePerAttempt
<1>1. Init => PostedOncePerAttempt
  BY WebhookAssumption DEF Init, PostedOncePerAttempt, InFlight
<1> QED
  BY <1>1, TypeCorrect, ClaimInvariant, PostStep, PTL DEF Spec

-----------------------------------------------------------------------------
(* Final means final: only unsettled rows are updated.                     *)

\* What a step does to a row that is settled, and to the count of a row.
LEMMA SettledStep ==
    ASSUME TypeOK, ClaimInv, [Next]_vars, NEW d \in Deliveries
    PROVE  /\ status[d] \in {"DELIVERED", "FAILED"} =>
                UNCHANGED <<status[d], attemptCount[d], nextAttemptAt[d]>>
           /\ attemptCount'[d] \in {attemptCount[d], attemptCount[d] + 1}
<1> USE DEF vars, deliveryRow, TaskReads
<1>1. CASE UNCHANGED deliveryRow
  BY <1>1
<1>2. ASSUME NEW m \in Materializers, materializeDeliveries(m)
      PROVE  UNCHANGED attemptCount /\ UNCHANGED nextAttemptAt
             /\ (status'[d] = status[d] \/ status[d] = NULL)
  BY <1>2, Materializing DEF ClaimInv
<1>3. ASSUME NEW t \in Tasks, claimAttempt(t)
      PROVE  \/ /\ job[t].delivery # d
                /\ UNCHANGED <<status[d], attemptCount[d], nextAttemptAt[d]>>
             \/ /\ status[d] \in ClaimableStatuses
                /\ attemptCount'[d] = attemptCount[d] + 1
  <2>1. /\ attemptCount[job[t].delivery] = snapshot[t].attemptCount
        /\ attemptCount' = [attemptCount EXCEPT ![job[t].delivery] = AttemptNumber(t)]
        /\ nextAttemptAt' = [nextAttemptAt EXCEPT ![job[t].delivery] = NULL]
        /\ status' = status
        /\ status[job[t].delivery] \in ClaimableStatuses
    BY <1>3, Claiming DEF claimAttempt
  <2> QED
    BY <2>1 DEF TypeOK, AttemptNumber
<1>4. ASSUME NEW t \in Tasks, Update(t)
      PROVE  /\ attemptCount' = attemptCount
             /\ \/ status'[d] = status[d] /\ nextAttemptAt'[d] = nextAttemptAt[d]
                \/ status[d] \in ClaimableStatuses
  BY <1>4, Updating, UpdatedStatus
<1>5. status[d] \in ClaimableStatuses \cup {NULL} => status[d] \notin {"DELIVERED", "FAILED"}
  BY WebhookAssumption DEF ClaimableStatuses, WebhookDeliveryStatus
<1>6. \/ UNCHANGED deliveryRow
      \/ \E m \in Materializers : materializeDeliveries(m)
      \/ \E t \in Tasks : claimAttempt(t) \/ Update(t)
  BY StepCases DEF Update, create, setEnabled, FindSource, FindSubscriptions, FanoutFails,
                   StartJob, ClaimRead, post, Tick
<1> QED
  BY <1>1, <1>2, <1>3, <1>4, <1>5, <1>6

\* A settled delivery stays as it is, and a counted attempt stays counted.
THEOREM SettledDeliveriesAreFinal == Spec => SettledIsFinal
<1>1. TypeOK /\ ClaimInv /\ [Next]_vars =>
        [\A d \in Deliveries :
            /\ status[d] \in {"DELIVERED", "FAILED"} =>
                UNCHANGED <<status[d], attemptCount[d], nextAttemptAt[d]>>
            /\ attemptCount'[d] \in {attemptCount[d], attemptCount[d] + 1}]_vars
  BY SettledStep
<1> QED
  BY <1>1, TypeCorrect, ClaimInvariant, PTL DEF Spec, SettledIsFinal

-----------------------------------------------------------------------------
(* Retries. What a task in "failing" will write is fit to be claimed again *)
(* after the backoff, and so is a row once it is written, whose job has    *)
(* its outbox row.                                                         *)

ClocksInv ==
    /\ \A t \in Tasks : pc[t] # "idle" => job[t].claimedAt <= now
    /\ \A d \in Deliveries : answeredAt[d] <= now

\* The failure f of attempt n of delivery d leads to a retry or to the end.
FailureFits(f, d, n) ==
    /\ f.status = "RETRYING" =>
        /\ n + 1 <= MaxAttempts
        /\ f.nextAttemptAt \in Int
        /\ f.nextAttemptAt >= answeredAt[d] + calculateWebhookRetryDelay(n)
    /\ f.status = "FAILED" =>
        /\ n >= MaxAttempts
        /\ f.nextAttemptAt = NULL

FailuresFit ==
    \A t \in Tasks : pc[t] = "failing" =>
        FailureFits(failure[t], job[t].delivery, AttemptNumber(t))

Requested(d, n) == \E request \in outbox : request.delivery = d /\ request.attemptNumber = n

RetriesFit ==
    \A d \in Deliveries : nextAttemptAt[d] # NULL =>
        /\ status[d] = "RETRYING"
        /\ attemptCount[d] + 1 <= MaxAttempts
        /\ nextAttemptAt[d] >= answeredAt[d] + calculateWebhookRetryDelay(attemptCount[d])
        /\ Requested(d, attemptCount[d] + 1)

FirstRequested == \A d \in Deliveries : status[d] = "PENDING" => Requested(d, 1)

RetryInv == ClocksInv /\ FailuresFit /\ RetriesFit /\ FirstRequested

\* The failure of an attempt whose answer came before now.
LEMMA FailureOfFits ==
    ASSUME TypeOK, NEW t \in Tasks, pc[t] \notin {"idle", "claiming"},
           NEW before \in Nat, before <= now
    PROVE  /\ FailureOf(t).status = "RETRYING" =>
                /\ AttemptNumber(t) + 1 <= MaxAttempts
                /\ FailureOf(t).nextAttemptAt \in Int
                /\ FailureOf(t).nextAttemptAt >=
                        before + calculateWebhookRetryDelay(AttemptNumber(t))
           /\ FailureOf(t).status = "FAILED" =>
                AttemptNumber(t) >= MaxAttempts /\ FailureOf(t).nextAttemptAt = NULL
<1> DEFINE delay == calculateWebhookRetryDelay(AttemptNumber(t))
<1>1. AttemptNumber(t) \in Nat \ {0}
  BY AttemptNumberType
<1>2. delay \in Int
  BY <1>1, RetryDelayType
<1>3. now \in Nat /\ MaxAttempts \in Nat
  BY WebhookAssumption DEF TypeOK
<1> HIDE DEF delay
<1>4. now + delay \in Int /\ now + delay >= before + delay
  BY <1>2, <1>3
<1>5. FailureOf(t) = IF AttemptNumber(t) >= MaxAttempts
                     THEN [status |-> "FAILED", nextAttemptAt |-> NULL]
                     ELSE [status |-> "RETRYING", nextAttemptAt |-> now + delay]
  BY DEF FailureOf, delay
<1>6. CASE AttemptNumber(t) >= MaxAttempts
  BY <1>5, <1>6
<1>7. CASE ~(AttemptNumber(t) >= MaxAttempts)
  <2>1. AttemptNumber(t) + 1 <= MaxAttempts
    BY <1>1, <1>3, <1>7
  <2>2. FailureOf(t) = [status |-> "RETRYING", nextAttemptAt |-> now + delay]
    BY <1>5, <1>7
  <2>3. before + delay = before + calculateWebhookRetryDelay(AttemptNumber(t))
    BY DEF delay
  <2> QED
    BY <1>4, <2>1, <2>2, <2>3
<1> QED
  BY <1>6, <1>7

\* Outbox rows are only added.
LEMMA OutboxGrows ==
    ASSUME [Next]_vars
    PROVE  outbox \subseteq outbox'
BY StepCases DEF create, setEnabled, FindSource, FindSubscriptions, FanoutFails,
    materializeDeliveries, StartJob, TaskReads, ClaimRead, StopDisabled, claimAttempt, post,
    markDelivered, MarkDeliveredThrows, recordFailure, Tick, vars

\* The clocks: one part of RetryStep.
LEMMA ClocksStep == TypeOK /\ ClocksInv /\ [Next]_vars => ClocksInv'
<1> SUFFICES ASSUME TypeOK, ClocksInv, [Next]_vars PROVE ClocksInv'
  OBVIOUS
<1> USE DEF ClocksInv, TypeOK, vars, deliveryRow, local, endpoint, subscriptionVars, fanoutVars,
            TaskReads, TaskWrites
<1>1. ASSUME UNCHANGED <<job, pc, answeredAt, now>> PROVE ClocksInv'
  BY <1>1
<1>2. ASSUME NEW t \in Tasks, NEW request \in outbox, StartJob(t, request) PROVE ClocksInv'
  BY <1>2 DEF StartJob
<1>3. ASSUME NEW t \in Tasks, Finish(t), UNCHANGED <<answeredAt, now>> PROVE ClocksInv'
  BY <1>3 DEF Finish
<1>4. ASSUME NEW t \in Tasks, pc[t] # "idle", UNCHANGED <<job, answeredAt, now>>,
             \A u \in Tasks \ {t} : pc'[u] = pc[u]
      PROVE  ClocksInv'
  BY <1>4
<1>5. ASSUME NEW t \in Tasks, NEW success \in BOOLEAN, post(t, success) PROVE ClocksInv'
  BY <1>5 DEF post
<1>6. CASE Tick
  <2>1. UNCHANGED <<job, pc, answeredAt>> /\ now' = now + 1 /\ now \in Nat
    BY <1>6 DEF Tick
  <2>2. /\ \A t \in Tasks : pc[t] # "idle" => job[t].claimedAt \in Int
        /\ \A d \in Deliveries : answeredAt[d] \in Int
    BY DEF JobType
  <2> QED
    BY <2>1, <2>2
<1>7. ASSUME NEW t \in Tasks, ClaimRead(t) \/ claimAttempt(t) \/ MarkDeliveredThrows(t)
      PROVE  ClocksInv'
  <2>1. /\ pc[t] # "idle"
        /\ UNCHANGED <<job, answeredAt, now>>
        /\ \A u \in Tasks \ {t} : pc'[u] = pc[u]
    BY <1>7 DEF ClaimRead, claimAttempt, MarkDeliveredThrows
  <2> QED
    BY <1>4, <2>1
<1>8. ASSUME NEW t \in Tasks, StopDisabled(t) \/ markDelivered(t) \/ recordFailure(t)
      PROVE  ClocksInv'
  BY <1>3, <1>8 DEF StopDisabled, markDelivered, recordFailure
<1> QED
  BY StepCases, <1>1, <1>2, <1>3, <1>5, <1>6, <1>7, <1>8
     DEF create, setEnabled, FindSource, FindSubscriptions, FanoutFails, materializeDeliveries

\* What the tasks in "failing" will write.
LEMMA FailuresStep ==
    TypeOK /\ ClaimInv /\ ClocksInv /\ FailuresFit /\ [Next]_vars => FailuresFit'
<1> SUFFICES ASSUME TypeOK, ClaimInv, ClocksInv, FailuresFit, [Next]_vars,
                    NEW u \in Tasks, pc'[u] = "failing"
             PROVE  FailureFits(failure[u], job[u].delivery, AttemptNumber(u))'
  BY DEF FailuresFit
<1> USE DEF vars, local, endpoint, TaskReads, TaskWrites
\* A task that was there already still is, with the same plans and answers.
<1>1. ASSUME pc[u] = "failing", failure'[u] = failure[u], job'[u] = job[u],
             snapshot'[u] = snapshot[u],
             answeredAt'[job[u].delivery] = answeredAt[job[u].delivery]
      PROVE  FailureFits(failure[u], job[u].delivery, AttemptNumber(u))'
  BY <1>1 DEF FailuresFit, FailureFits, AttemptNumber
<1>2. ASSUME NEW t \in Tasks, NEW success \in BOOLEAN, post(t, success)
      PROVE  FailureFits(failure[u], job[u].delivery, AttemptNumber(u))'
  <2>1. CASE u = t
    <3>1. /\ UNCHANGED <<job, snapshot>>
          /\ pc[t] = "posting"
          /\ failure'[t] = FailureOf(t)
          /\ job[t].delivery \in Deliveries
          /\ answeredAt'[job[t].delivery] = now
      BY <1>2, <2>1 DEF post, TypeOK, JobType
    <3>2. now \in Nat
      BY DEF TypeOK
    <3> QED
      BY <2>1, <3>1, <3>2, FailureOfFits DEF FailureFits, AttemptNumber
  <2>2. CASE u # t
    <3>1. /\ pc[u] = "failing" /\ pc[t] = "posting"
          /\ failure'[u] = failure[u] /\ UNCHANGED <<job, snapshot>>
          /\ answeredAt' = [answeredAt EXCEPT ![job[t].delivery] = now]
      BY <1>2, <2>2 DEF post, TypeOK
    <3>2. job[u].delivery # job[t].delivery
      BY <2>2, <3>1, OthersElsewhere DEF ClaimInv, InFlight
    <3>3. answeredAt'[job[u].delivery] = answeredAt[job[u].delivery]
      BY <3>1, <3>2 DEF TypeOK, JobType
    <3> QED
      BY <1>1, <3>1, <3>3
  <2> QED
    BY <2>1, <2>2
<1>3. ASSUME NEW t \in Tasks, MarkDeliveredThrows(t)
      PROVE  FailureFits(failure[u], job[u].delivery, AttemptNumber(u))'
  <2>1. CASE u = t
    <3>1. /\ UNCHANGED <<job, snapshot, answeredAt>>
          /\ pc[t] = "delivered"
          /\ failure'[t] = FailureOf(t)
      BY <1>3, <2>1 DEF MarkDeliveredThrows, TypeOK
    <3>2. answeredAt[job[t].delivery] \in Nat /\ answeredAt[job[t].delivery] <= now
      BY <3>1 DEF TypeOK, JobType, ClocksInv
    <3> QED
      BY <2>1, <3>1, <3>2, FailureOfFits DEF FailureFits, AttemptNumber
  <2>2. CASE u # t
    BY <1>1, <1>3, <2>2 DEF MarkDeliveredThrows, TypeOK
  <2> QED
    BY <2>1, <2>2
<1>4. CASE UNCHANGED <<local, answeredAt>>
  BY <1>1, <1>4
<1>5. ASSUME NEW t \in Tasks, NEW request \in outbox, StartJob(t, request)
      PROVE  FailureFits(failure[u], job[u].delivery, AttemptNumber(u))'
  BY <1>1, <1>5 DEF StartJob, TypeOK
<1>6. ASSUME NEW t \in Tasks, Finish(t), UNCHANGED answeredAt
      PROVE  FailureFits(failure[u], job[u].delivery, AttemptNumber(u))'
  BY <1>1, <1>6 DEF Finish, TypeOK
<1>7. ASSUME NEW t \in Tasks, ClaimRead(t) \/ claimAttempt(t)
      PROVE  FailureFits(failure[u], job[u].delivery, AttemptNumber(u))'
  <2>1. /\ u # t
        /\ pc[u] = "failing" /\ snapshot'[u] = snapshot[u]
        /\ UNCHANGED <<failure, job, answeredAt>>
    BY <1>7 DEF ClaimRead, claimAttempt, TypeOK
  <2> QED
    BY <1>1, <2>1
<1>8. ASSUME NEW t \in Tasks, StopDisabled(t) \/ markDelivered(t) \/ recordFailure(t)
      PROVE  FailureFits(failure[u], job[u].delivery, AttemptNumber(u))'
  BY <1>6, <1>8 DEF StopDisabled, markDelivered, recordFailure
<1> QED
  BY StepCases, <1>2, <1>3, <1>4, <1>5, <1>6, <1>7, <1>8
     DEF create, setEnabled, FindSource, FindSubscriptions, FanoutFails,
         materializeDeliveries, Tick

\* The rows that wait for a retry.
LEMMA RetriesStep ==
    TypeOK /\ ClaimInv /\ FailuresFit /\ RetriesFit /\ [Next]_vars => RetriesFit'
<1> SUFFICES ASSUME TypeOK, ClaimInv, FailuresFit, RetriesFit, [Next]_vars,
                    NEW d \in Deliveries, nextAttemptAt'[d] # NULL
             PROVE  /\ status'[d] = "RETRYING"
                    /\ attemptCount'[d] + 1 <= MaxAttempts
                    /\ nextAttemptAt'[d] >=
                            answeredAt'[d] + calculateWebhookRetryDelay(attemptCount'[d])
                    /\ Requested(d, attemptCount[d] + 1)'
  BY DEF RetriesFit
<1> DEFINE Fits == /\ status'[d] = "RETRYING"
                   /\ attemptCount'[d] + 1 <= MaxAttempts
                   /\ nextAttemptAt'[d] >=
                            answeredAt'[d] + calculateWebhookRetryDelay(attemptCount'[d])
                   /\ Requested(d, attemptCount[d] + 1)'
<1> USE DEF vars, deliveryRow, local, endpoint, TaskReads, TaskWrites
\* A row that waited already is left as it was.
<1>1. ASSUME nextAttemptAt'[d] = nextAttemptAt[d], status'[d] = status[d],
             attemptCount'[d] = attemptCount[d], answeredAt'[d] = answeredAt[d]
      PROVE  Fits
  BY <1>1, OutboxGrows DEF RetriesFit, Requested
<1>2. CASE UNCHANGED <<deliveryRow, answeredAt>>
  BY <1>1, <1>2
<1>3. ASSUME NEW m \in Materializers, materializeDeliveries(m) PROVE Fits
  <2>1. UNCHANGED <<attemptCount, nextAttemptAt, answeredAt>>
    BY <1>3, Materializing DEF materializeDeliveries, ClaimInv
  <2>2. status[d] # NULL
    BY <2>1 DEF ClaimInv, NoRowNoAttempt
  <2>3. status'[d] = status[d]
    BY <1>3, <2>2, Materializing DEF ClaimInv
  <2> QED
    BY <1>1, <2>1, <2>3
<1>4. ASSUME NEW t \in Tasks, claimAttempt(t) PROVE Fits
  <2>1. /\ attemptCount' = [attemptCount EXCEPT ![job[t].delivery] = AttemptNumber(t)]
        /\ nextAttemptAt' = [nextAttemptAt EXCEPT ![job[t].delivery] = NULL]
        /\ UNCHANGED <<status, answeredAt>>
    BY <1>4, Claiming DEF claimAttempt
  <2>2. job[t].delivery # d
    BY <2>1 DEF TypeOK
  <2> QED
    BY <1>1, <2>1, <2>2 DEF TypeOK
<1>5. ASSUME NEW t \in Tasks, NEW success \in BOOLEAN, post(t, success) PROVE Fits
  <2>1. /\ pc[t] = "posting"
        /\ UNCHANGED deliveryRow
        /\ answeredAt' = [answeredAt EXCEPT ![job[t].delivery] = now]
    BY <1>5 DEF post
  <2>2. job[t].delivery # d
    BY <2>1 DEF ClaimInv, AttemptExclusive, InFlight
  <2> QED
    BY <1>1, <2>1, <2>2 DEF TypeOK
<1>6. ASSUME NEW t \in Tasks, Update(t) PROVE Fits
  <2>1. /\ UNCHANGED <<attemptCount, answeredAt>>
        /\ job[t].delivery # d =>
            status'[d] = status[d] /\ nextAttemptAt'[d] = nextAttemptAt[d]
    BY <1>6, Updating
  <2>2. CASE status'[d] = status[d] /\ nextAttemptAt'[d] = nextAttemptAt[d]
    BY <1>1, <2>1, <2>2
  <2>3. CASE ~(status'[d] = status[d] /\ nextAttemptAt'[d] = nextAttemptAt[d])
    <3>1. job[t].delivery = d
      BY <2>1, <2>3
    <3>2. /\ recordFailure(t)
          /\ status'[d] = failure[t].status
          /\ nextAttemptAt'[d] = failure[t].nextAttemptAt
          /\ attemptCount[d] = AttemptNumber(t)
      BY <1>6, <2>3, <3>1, UpdatedStatus
    <3>3. pc[t] = "failing" /\ failure[t].status \in {"RETRYING", "FAILED"}
      BY <3>2 DEF recordFailure, TypeOK, FailureType
    <3>4. FailureFits(failure[t], d, attemptCount[d])
      BY <3>1, <3>2, <3>3 DEF FailuresFit
    <3>5. failure[t].status = "RETRYING"
      BY <3>2, <3>3, <3>4 DEF FailureFits
    <3>6. /\ attemptCount[d] + 1 <= MaxAttempts
          /\ nextAttemptAt'[d] >= answeredAt[d] + calculateWebhookRetryDelay(attemptCount[d])
      BY <3>2, <3>4, <3>5 DEF FailureFits
    <3>7. ResultMatches(t)
      BY <2>3, <3>2 DEF recordFailure
    <3>8. DeliveryRequest(d, attemptCount[d] + 1, failure[t].nextAttemptAt) \in outbox'
      BY <3>1, <3>2, <3>5, <3>7 DEF recordFailure, RetryOf
    <3>9. Requested(d, attemptCount[d] + 1)'
      BY <2>1, <3>8 DEF Requested, DeliveryRequest
    <3> QED
      BY <2>1, <3>2, <3>5, <3>6, <3>9
  <2> QED
    BY <2>2, <2>3
<1>7. \/ UNCHANGED <<deliveryRow, answeredAt>>
      \/ \E m \in Materializers : materializeDeliveries(m)
      \/ \E t \in Tasks : claimAttempt(t) \/ Update(t)
      \/ \E t \in Tasks, success \in BOOLEAN : post(t, success)
  BY StepCases DEF Update, create, setEnabled, FindSource, FindSubscriptions, FanoutFails,
                   StartJob, ClaimRead, Tick
<1> QED
  BY <1>2, <1>3, <1>4, <1>5, <1>6, <1>7

\* The rows that wait for their first attempt.
LEMMA FirstStep == TypeOK /\ ClaimInv /\ FirstRequested /\ [Next]_vars => FirstRequested'
<1> SUFFICES ASSUME TypeOK, ClaimInv, FirstRequested, [Next]_vars,
                    NEW d \in Deliveries, status'[d] = "PENDING"
             PROVE  Requested(d, 1)'
  BY DEF FirstRequested
<1>1. CASE status[d] = "PENDING"
  BY <1>1, OutboxGrows DEF FirstRequested, Requested
<1>2. ASSUME NEW m \in Materializers, materializeDeliveries(m), status[d] # "PENDING"
      PROVE  Requested(d, 1)'
  <2>1. DeliveryRequest(d, 1, NULL) \in outbox'
    BY <1>2, Materializing DEF ClaimInv
  <2> QED
    BY <2>1 DEF Requested, DeliveryRequest
<1>3. ASSUME NEW t \in Tasks, Update(t) PROVE status[d] = "PENDING"
  <2>1. job[t].delivery # d => status'[d] = status[d]
    BY <1>3, Updating
  <2>2. recordFailure(t) => failure[t].status # "PENDING"
    BY DEF TypeOK, FailureType, recordFailure
  <2> QED
    BY <1>3, <2>1, <2>2, UpdatedStatus
<1>4. \/ UNCHANGED status
      \/ \E m \in Materializers : materializeDeliveries(m)
      \/ \E t \in Tasks : Update(t)
  BY StepCases DEF Update, create, setEnabled, FindSource, FindSubscriptions, FanoutFails,
                   StartJob, ClaimRead, claimAttempt, post, Tick, TaskReads, deliveryRow, vars
<1> QED
  BY <1>1, <1>2, <1>3, <1>4

\* The invariant of the retries holds in every reachable state.
LEMMA RetryInvariant == Spec => []RetryInv
<1>1. Init => RetryInv
  <2>1. NULL # "PENDING"
    BY WebhookAssumption DEF WebhookDeliveryStatus, ClaimableStatuses
  <2>2. Init => ClocksInv
    BY DEF Init, ClocksInv
  <2>3. Init => FailuresFit
    BY DEF Init, FailuresFit
  <2>4. Init => RetriesFit
    BY DEF Init, RetriesFit
  <2>5. Init => FirstRequested
    BY <2>1 DEF Init, FirstRequested
  <2> QED
    BY <2>2, <2>3, <2>4, <2>5 DEF RetryInv
<1>2. TypeOK /\ ClaimInv /\ RetryInv /\ [Next]_vars => RetryInv'
  BY ClocksStep, FailuresStep, RetriesStep, FirstStep DEF RetryInv
<1> QED
  BY <1>1, <1>2, TypeCorrect, ClaimInvariant, PTL DEF Spec

\* A delivery that waits is never without a row whose job can claim it.
THEOREM WaitingWorkIsNeverLost == Spec => []WaitingDeliveryHasTicket
<1>1. TypeOK /\ RetryInv => WaitingDeliveryHasTicket
  <2> SUFFICES ASSUME TypeOK, RetryInv, NEW d \in Deliveries,
                      (status[d] = "PENDING" /\ attemptCount[d] = 0) \/ nextAttemptAt[d] # NULL
               PROVE  \E request \in outbox :
                        /\ request.delivery = d
                        /\ \E at \in {now, nextAttemptAt[d]} \ {NULL} :
                            MayClaim(Row(d), [delivery |-> d,
                                              expectedAttemptNumber |-> request.attemptNumber,
                                              claimedAt |-> at])
    BY DEF WaitingDeliveryHasTicket
  <2>1. CASE nextAttemptAt[d] # NULL
    <3>1. PICK request \in outbox : /\ request.delivery = d
                                    /\ request.attemptNumber = attemptCount[d] + 1
      BY <2>1 DEF RetryInv, RetriesFit, Requested
    <3>2. /\ status[d] = "RETRYING" /\ attemptCount[d] + 1 <= MaxAttempts
          /\ nextAttemptAt[d] \in Int
      BY <2>1 DEF RetryInv, RetriesFit, TypeOK
    <3>3. MayClaim(Row(d), [delivery |-> d, expectedAttemptNumber |-> request.attemptNumber,
                            claimedAt |-> nextAttemptAt[d]])
      BY <2>1, <3>1, <3>2 DEF MayClaim, Row, IsDue
    <3> QED
      BY <2>1, <3>1, <3>3
  <2>2. CASE status[d] = "PENDING" /\ attemptCount[d] = 0
    <3>1. PICK request \in outbox : request.delivery = d /\ request.attemptNumber = 1
      BY <2>2 DEF RetryInv, FirstRequested, Requested
    <3>2. 1 <= MaxAttempts /\ now # NULL
      BY WebhookAssumption DEF TypeOK
    <3>3. MayClaim(Row(d), [delivery |-> d, expectedAttemptNumber |-> request.attemptNumber,
                            claimedAt |-> now])
      BY <2>2, <3>1, <3>2 DEF MayClaim, Row
    <3> QED
      BY <3>1, <3>2, <3>3
  <2> QED
    BY <2>1, <2>2
<1> QED
  BY <1>1, TypeCorrect, RetryInvariant, PTL

\* An attempt starts only for an enabled subscription, after the backoff.
THEOREM AttemptsWaitTheirTurn == Spec => AttemptsAreAllowed
<1>1. TypeOK /\ ClaimInv /\ RetryInv /\ [Next]_vars =>
        [\A d \in Deliveries : attemptCount'[d] > attemptCount[d] =>
            /\ enabled[d[1]] = TRUE
            /\ attemptCount[d] > 0 =>
                now >= answeredAt[d] + BaseDelay * 2^(attemptCount[d] - 1)]_vars
  <2> SUFFICES ASSUME TypeOK, ClaimInv, RetryInv, [Next]_vars,
                      NEW d \in Deliveries, attemptCount'[d] > attemptCount[d]
               PROVE  /\ enabled[d[1]] = TRUE
                      /\ attemptCount[d] > 0 =>
                          now >= answeredAt[d] + calculateWebhookRetryDelay(attemptCount[d])
    BY DEF calculateWebhookRetryDelay
  <2>1. attemptCount'[d] # attemptCount[d]
    BY DEF TypeOK
  <2>2. PICK t \in Tasks : claimAttempt(t)
    BY <2>1, StepCases, Materializing, Updating
       DEF ClaimInv, Update, create, setEnabled, FindSource, FindSubscriptions, FanoutFails,
           StartJob, ClaimRead, post, Tick, TaskReads, deliveryRow, vars
  <2>3. /\ attemptCount' = [attemptCount EXCEPT ![job[t].delivery] = AttemptNumber(t)]
        /\ status[job[t].delivery] \in {"PENDING", "RETRYING"}
        /\ status[job[t].delivery] = "PENDING" => attemptCount[job[t].delivery] = 0
    BY <2>2, Claiming DEF ClaimableStatuses
  <2>4. job[t].delivery = d
    BY <2>1, <2>3 DEF TypeOK
  <2>5. /\ enabled[d[1]] = TRUE
        /\ status[d] = "RETRYING" => /\ nextAttemptAt[d] # NULL
                                     /\ nextAttemptAt[d] <= job[t].claimedAt
    BY <2>2, <2>4 DEF claimAttempt, ClaimMatches, IsEnabled, IsDue, Row
  <2>6. ASSUME attemptCount[d] > 0
        PROVE  now >= answeredAt[d] + calculateWebhookRetryDelay(attemptCount[d])
    <3>1. nextAttemptAt[d] # NULL /\ nextAttemptAt[d] <= job[t].claimedAt
      BY <2>3, <2>4, <2>5, <2>6 DEF TypeOK
    <3>2. nextAttemptAt[d] >= answeredAt[d] + calculateWebhookRetryDelay(attemptCount[d])
      BY <3>1 DEF RetryInv, RetriesFit
    <3>3. pc[t] # "idle" /\ job[t].claimedAt <= now
      BY <2>2 DEF claimAttempt, RetryInv, ClocksInv
    <3>4. attemptCount[d] \in Nat \ {0}
      BY <2>6 DEF TypeOK
    <3>5. /\ answeredAt[d] \in Int /\ nextAttemptAt[d] \in Int
          /\ job[t].claimedAt \in Int /\ now \in Int
      BY <3>1, <3>3 DEF TypeOK, JobType
    <3>6. calculateWebhookRetryDelay(attemptCount[d]) \in Int
      BY <3>4, RetryDelayType
    <3> QED
      BY <3>1, <3>2, <3>3, <3>5, <3>6
  <2> QED
    BY <2>5, <2>6
<1> QED
  BY <1>1, TypeCorrect, ClaimInvariant, RetryInvariant, PTL DEF Spec, AttemptsAreAllowed

-----------------------------------------------------------------------------
(* Outcomes. Where a delivery exists its subscription does, so one that is *)
(* not enabled was disabled; and a worker says DELIVERED only with a 2xx.  *)

SubscriptionsExist ==
    /\ \A d \in Deliveries : status[d] # NULL => enabled[d[1]] # NULL
    /\ \A m \in Materializers : fanout[m] # NULL =>
        (fanout[m].subscriptions # NULL =>
            \A s \in fanout[m].subscriptions : enabled[s] # NULL)
    /\ \A s \in Subscriptions : enabled[s] = FALSE => s \in everDisabled

ReasonsHold ==
    \A t \in Tasks :
        /\ pc[t] = "delivered" => job[t].delivery \in acknowledged
        /\ pc[t] = "stopping" => job[t].delivery[1] \in everDisabled

OutcomeInv == SubscriptionsExist /\ ReasonsHold /\ OutcomeIsTruthful

\* Subscriptions are never removed, and what was once is remembered.
LEMMA HistoryGrows ==
    ASSUME TypeOK, [Next]_vars
    PROVE  /\ \A s \in Subscriptions : enabled[s] # NULL => enabled'[s] # NULL
           /\ everDisabled \subseteq everDisabled'
           /\ acknowledged \subseteq acknowledged'
<1> USE DEF TypeOK, vars, subscriptionVars, endpoint, TaskReads, TaskWrites
<1>1. NULL \notin BOOLEAN
  BY WebhookAssumption
<1>2. ASSUME NEW s \in Subscriptions, create(s) \/ \E value \in BOOLEAN : setEnabled(s, value)
      PROVE  /\ \A q \in Subscriptions : enabled[q] # NULL => enabled'[q] # NULL
             /\ everDisabled \subseteq everDisabled'
             /\ acknowledged \subseteq acknowledged'
  <2>1. CASE create(s)
    BY <2>1 DEF create
  <2>2. ASSUME NEW value \in BOOLEAN, setEnabled(s, value)
        PROVE  /\ \A q \in Subscriptions : enabled[q] # NULL => enabled'[q] # NULL
               /\ everDisabled \subseteq everDisabled'
               /\ acknowledged \subseteq acknowledged'
    <3>1. enabled' = [enabled EXCEPT ![s] = value] /\ value # NULL
      BY <1>1, <2>2 DEF setEnabled
    <3> QED
      BY <2>2, <3>1 DEF setEnabled
  <2> QED
    BY <1>2, <2>1, <2>2
<1>3. ASSUME NEW t \in Tasks, NEW success \in BOOLEAN, post(t, success)
      PROVE  UNCHANGED <<enabled, everDisabled>> /\ acknowledged \subseteq acknowledged'
  BY <1>3 DEF post
<1>4. ASSUME NEW t \in Tasks, Update(t) \/ claimAttempt(t)
      PROVE  UNCHANGED <<enabled, everDisabled, acknowledged>>
  BY <1>4, Updating DEF claimAttempt
<1> QED
  BY StepCases, <1>2, <1>3, <1>4
     DEF Update, FindSource, FindSubscriptions, FanoutFails, materializeDeliveries, StartJob,
         ClaimRead, Tick

\* Deliveries only of subscriptions that exist.
LEMMA SubscriptionsStep == TypeOK /\ ClaimInv /\ SubscriptionsExist /\ [Next]_vars
                               => SubscriptionsExist'
<1> SUFFICES ASSUME TypeOK, ClaimInv, SubscriptionsExist, [Next]_vars
             PROVE  SubscriptionsExist'
  OBVIOUS
<1>1. \A d \in Deliveries : status'[d] # NULL => enabled'[d[1]] # NULL
  <2> SUFFICES ASSUME NEW d \in Deliveries, status'[d] # NULL
               PROVE  d[1] \in Subscriptions /\ enabled[d[1]] # NULL
    BY HistoryGrows
  <2>1. d[1] \in Subscriptions
    BY DEF Deliveries
  <2>2. CASE status[d] # NULL
    BY <2>1, <2>2 DEF SubscriptionsExist
  <2>3. CASE status[d] = NULL
    <3>1. ASSUME NEW t \in Tasks, Update(t) PROVE FALSE
      <4>1. /\ job[t].delivery # d => status'[d] = status[d]
            /\ job[t].delivery = d => status[d] # NULL
        BY <3>1, Updating
           DEF ClaimInv, RowsExist, Update, StopDisabled, markDelivered, MarkDeliveredThrows,
               recordFailure
      <4> QED
        BY <2>3, <4>1
    <3>2. PICK m \in Materializers : materializeDeliveries(m)
      BY <2>3, <3>1, StepCases
         DEF Update, create, setEnabled, FindSource, FindSubscriptions, FanoutFails, StartJob,
             ClaimRead, claimAttempt, post, Tick, TaskReads, deliveryRow, vars
    <3>3. d \in CreatedDeliveries(m)
      BY <2>3, <3>2 DEF materializeDeliveries, TypeOK
    <3>4. PICK s \in fanout[m].subscriptions : d = <<s, fanout[m].event>>
      BY <3>3 DEF CreatedDeliveries
    <3>5. enabled[s] # NULL
      BY <3>2, <3>4 DEF materializeDeliveries, SubscriptionsExist
    <3> QED
      BY <2>1, <3>4, <3>5
  <2> QED
    BY <2>2, <2>3
<1>2. ASSUME NEW m \in Materializers, fanout'[m] # NULL, fanout'[m].subscriptions # NULL,
             NEW s \in fanout'[m].subscriptions
      PROVE  enabled'[s] # NULL
  <2>1. CASE fanout'[m] = fanout[m]
    <3>1. s \in Subscriptions /\ enabled[s] # NULL
      BY <1>2, <2>1 DEF TypeOK, SubscriptionsExist
    <3> QED
      BY <3>1, HistoryGrows
  <2>2. CASE fanout'[m] # fanout[m]
    <3>1. PICK n \in Materializers :
            (\E e \in Events : FindSource(n, e)) \/ FindSubscriptions(n)
      BY <1>2, <2>2, StepCases, Updating
         DEF Update, create, setEnabled, FanoutFails, materializeDeliveries, StartJob, ClaimRead,
             claimAttempt, post, Tick, TaskReads, TaskWrites, fanoutVars, vars, TypeOK
    <3>2. CASE \E e \in Events : FindSource(n, e)
      <4>1. fanout'[m] = fanout[m] \/ fanout'[m].subscriptions = NULL
        BY <3>2 DEF FindSource, TypeOK
      <4> QED
        BY <1>2, <2>2, <4>1
    <3>3. CASE FindSubscriptions(n)
      <4> DEFINE found == {q \in Subscriptions : enabled[q] = TRUE}
      <4> HIDE DEF found
      <4>1. fanout' = [fanout EXCEPT ![n].subscriptions = found] /\ UNCHANGED enabled
        BY <3>3 DEF FindSubscriptions, found, subscriptionVars
      <4>2. fanout[n] # NULL /\ n = m
        BY <2>2, <3>3, <4>1 DEF FindSubscriptions, TypeOK
      <4>3. fanout[m] \in [event: Events, subscriptions: (SUBSET Subscriptions) \cup {NULL}]
        BY <4>2 DEF TypeOK
      <4>4. fanout'[m].subscriptions = found
        BY <4>1, <4>2, <4>3 DEF TypeOK
      <4>5. enabled[s] = TRUE
        BY <1>2, <4>4 DEF found
      <4> QED
        BY <4>1, <4>5, WebhookAssumption
    <3> QED
      BY <3>1, <3>2, <3>3
  <2> QED
    BY <2>1, <2>2
<1>3. ASSUME NEW s \in Subscriptions, enabled'[s] = FALSE PROVE s \in everDisabled'
  <2>1. CASE enabled'[s] = enabled[s]
    BY <1>3, <2>1, HistoryGrows DEF SubscriptionsExist
  <2>2. CASE enabled'[s] # enabled[s]
    <3>1. PICK q \in Subscriptions : create(q) \/ \E value \in BOOLEAN : setEnabled(q, value)
      BY <2>2, StepCases, Updating
         DEF Update, FindSource, FindSubscriptions, FanoutFails, materializeDeliveries, StartJob,
             ClaimRead, claimAttempt, post, Tick, TaskReads, TaskWrites, subscriptionVars, vars
    <3>2. ~create(q)
      BY <1>3, <2>2 DEF create, TypeOK
    <3>3. PICK value \in BOOLEAN : setEnabled(q, value)
      BY <3>1, <3>2
    <3>4. q = s /\ value = FALSE
      BY <1>3, <2>2, <3>3 DEF setEnabled, TypeOK
    <3> QED
      BY <3>3, <3>4 DEF setEnabled
  <2> QED
    BY <2>1, <2>2
<1> QED
  BY <1>1, <1>2, <1>3 DEF SubscriptionsExist

\* Workers have their reasons: a 2xx for "delivered", a disabled subscription
\* for "stopping".
LEMMA ReasonsStep == TypeOK /\ SubscriptionsExist /\ ReasonsHold /\ [Next]_vars => ReasonsHold'
<1> SUFFICES ASSUME TypeOK, SubscriptionsExist, ReasonsHold, [Next]_vars, NEW u \in Tasks
             PROVE  /\ pc'[u] = "delivered" => job'[u].delivery \in acknowledged'
                    /\ pc'[u] = "stopping" => job'[u].delivery[1] \in everDisabled'
  BY DEF ReasonsHold
<1> DEFINE Reasons == /\ pc'[u] = "delivered" => job'[u].delivery \in acknowledged'
                      /\ pc'[u] = "stopping" => job'[u].delivery[1] \in everDisabled'
<1>1. ASSUME pc'[u] \notin {"delivered", "stopping"} \/ (pc'[u] = pc[u] /\ job'[u] = job[u])
      PROVE  Reasons
  BY <1>1, HistoryGrows DEF ReasonsHold
<1>2. ASSUME NEW t \in Tasks, ClaimRead(t) PROVE Reasons
  <2>1. CASE u = t /\ pc'[t] = "stopping"
    <3>1. /\ job[t].delivery \in Deliveries
          /\ status[job[t].delivery] \in ClaimableStatuses
          /\ enabled[job[t].delivery[1]] # TRUE
          /\ UNCHANGED <<job, everDisabled>>
      BY <1>2, <2>1 DEF ClaimRead, TypeOK, JobType, IsEnabled, Row, TaskReads, subscriptionVars
    <3>2. NULL \notin ClaimableStatuses
      BY WebhookAssumption DEF WebhookDeliveryStatus
    <3>3. job[t].delivery[1] \in Subscriptions
      BY <3>1 DEF Deliveries
    <3>4. enabled[job[t].delivery[1]] # NULL
      BY <3>1, <3>2 DEF SubscriptionsExist
    <3>5. job[t].delivery[1] \in everDisabled
      BY <3>1, <3>3, <3>4 DEF SubscriptionsExist, TypeOK
    <3> QED
      BY <2>1, <3>1, <3>5
  <2>2. CASE ~(u = t /\ pc'[t] = "stopping")
    <3>1. pc'[u] \notin {"delivered", "stopping"} \/ (pc'[u] = pc[u] /\ job'[u] = job[u])
      BY <1>2, <2>2 DEF ClaimRead, TypeOK
    <3> QED
      BY <1>1, <3>1
  <2> QED
    BY <2>1, <2>2
<1>3. ASSUME NEW t \in Tasks, NEW success \in BOOLEAN, post(t, success) PROVE Reasons
  <2>1. CASE u = t
    BY <1>3, <2>1 DEF post, TypeOK
  <2>2. CASE u # t
    BY <1>1, <1>3, <2>2 DEF post, TypeOK
  <2> QED
    BY <2>1, <2>2
<1>4. ASSUME NEW t \in Tasks, Finish(t) PROVE Reasons
  <2>1. pc'[u] \notin {"delivered", "stopping"} \/ (pc'[u] = pc[u] /\ job'[u] = job[u])
    BY <1>4 DEF Finish, TypeOK
  <2> QED
    BY <1>1, <2>1
<1>5. ASSUME NEW t \in Tasks, Update(t) PROVE Reasons
  <2>1. CASE Finish(t)
    BY <1>4, <2>1
  <2>2. CASE MarkDeliveredThrows(t)
    BY <1>1, <2>2 DEF MarkDeliveredThrows, TypeOK
  <2> QED
    BY <1>5, <2>1, <2>2, Updating
<1>6. ASSUME NEW t \in Tasks, \/ \E request \in outbox : StartJob(t, request)
                              \/ claimAttempt(t)
      PROVE  Reasons
  BY <1>1, <1>6 DEF StartJob, claimAttempt, TypeOK
<1>7. CASE UNCHANGED local
  BY <1>1, <1>7 DEF local
<1> QED
  BY StepCases, <1>2, <1>3, <1>4, <1>5, <1>6, <1>7
     DEF Update, create, setEnabled, FindSource, FindSubscriptions, FanoutFails,
         materializeDeliveries, Tick, vars

\* What is said of a delivery is true.
LEMMA OutcomeStep ==
    TypeOK /\ ClaimInv /\ PostedOncePerAttempt /\ RetryInv /\ OutcomeInv /\ [Next]_vars
        => OutcomeIsTruthful'
<1> SUFFICES ASSUME TypeOK, ClaimInv, PostedOncePerAttempt, RetryInv, OutcomeInv, [Next]_vars,
                    NEW d \in Deliveries
             PROVE  /\ status'[d] = "DELIVERED" => d \in acknowledged'
                    /\ status'[d] = "FAILED" =>
                        \/ attemptCount'[d] = MaxAttempts /\ posts'[d] = MaxAttempts
                        \/ d[1] \in everDisabled'
  BY DEF OutcomeIsTruthful
\* A row that was settled before.
<1>1. CASE status'[d] = status[d]
  <2>1. ASSUME status[d] = "FAILED", attemptCount[d] = MaxAttempts, posts[d] = MaxAttempts
        PROVE  attemptCount'[d] = MaxAttempts /\ posts'[d] = MaxAttempts
    <3>1. attemptCount'[d] = attemptCount[d]
      BY <2>1, SettledStep
    <3>2. ASSUME NEW t \in Tasks, NEW success \in BOOLEAN, post(t, success)
          PROVE  posts'[d] = posts[d]
      <4>1. pc[t] = "posting" /\ posts' = [posts EXCEPT ![job[t].delivery] = @ + 1]
        BY <3>2 DEF post
      <4>2. job[t].delivery # d
        BY <2>1, <4>1 DEF PostedOncePerAttempt, InFlight, TypeOK
      <4> QED
        BY <4>1, <4>2 DEF TypeOK
    <3>3. posts'[d] = posts[d]
      BY <3>2, StepCases, Updating
         DEF Update, create, setEnabled, FindSource, FindSubscriptions, FanoutFails,
             materializeDeliveries, StartJob, ClaimRead, claimAttempt, Tick, TaskReads,
             TaskWrites, endpoint, vars
    <3> QED
      BY <2>1, <3>1, <3>3
  <2> QED
    BY <1>1, <2>1, HistoryGrows DEF OutcomeInv, OutcomeIsTruthful
\* A row that is settled by this step.
<1>2. ASSUME NEW t \in Tasks, Update(t), status'[d] # status[d]
      PROVE  /\ status'[d] = "DELIVERED" => d \in acknowledged'
             /\ status'[d] = "FAILED" =>
                 \/ attemptCount'[d] = MaxAttempts /\ posts'[d] = MaxAttempts
                 \/ d[1] \in everDisabled'
  <2>1. /\ job[t].delivery = d
        /\ UNCHANGED <<attemptCount, posts, everDisabled, acknowledged>>
    BY <1>2, Updating DEF endpoint, subscriptionVars
  <2>2. CASE StopDisabled(t)
    <3>1. status'[d] = "FAILED" /\ d[1] \in everDisabled
      BY <1>2, <2>1, <2>2 DEF StopDisabled, TypeOK, OutcomeInv, ReasonsHold
    <3> QED
      BY <2>1, <3>1
  <2>3. CASE markDelivered(t) \/ MarkDeliveredThrows(t)
    <3>1. status'[d] = "DELIVERED" /\ d \in acknowledged
      BY <1>2, <2>1, <2>3
         DEF markDelivered, MarkDeliveredThrows, RecordDelivered, TypeOK, OutcomeInv, ReasonsHold
    <3> QED
      BY <2>1, <3>1
  <2>4. CASE recordFailure(t)
    <3>1. /\ pc[t] = "failing"
          /\ status'[d] = failure[t].status
          /\ failure[t].status # "DELIVERED"
          /\ attemptCount[d] = AttemptNumber(t)
      BY <1>2, <2>1, <2>4 DEF recordFailure, ResultMatches, TypeOK, FailureType
    <3>2. posts[d] = attemptCount[d] /\ attemptCount[d] <= MaxAttempts
      BY <2>1, <3>1 DEF PostedOncePerAttempt, InFlight
    <3>3. failure[t].status = "FAILED" => attemptCount[d] >= MaxAttempts
      BY <3>1 DEF RetryInv, FailuresFit, FailureFits
    <3>4. attemptCount[d] \in Nat /\ MaxAttempts \in Nat
      BY WebhookAssumption DEF TypeOK
    <3> QED
      BY <2>1, <3>1, <3>2, <3>3, <3>4
  <2> QED
    BY <1>2, <2>2, <2>3, <2>4 DEF Update
<1>3. ASSUME NEW m \in Materializers, materializeDeliveries(m)
      PROVE  status'[d] = status[d] \/ status'[d] = "PENDING"
  BY <1>3, Materializing DEF ClaimInv
<1>4. \/ status'[d] = status[d]
      \/ \E m \in Materializers : materializeDeliveries(m)
      \/ \E t \in Tasks : Update(t)
  BY StepCases DEF Update, create, setEnabled, FindSource, FindSubscriptions, FanoutFails,
                   StartJob, ClaimRead, claimAttempt, post, Tick, TaskReads, deliveryRow, vars
<1> QED
  BY <1>1, <1>2, <1>3, <1>4

LEMMA OutcomeInvariant == Spec => []OutcomeInv
<1>1. Init => OutcomeInv
  <2>1. Init => SubscriptionsExist
    BY WebhookAssumption DEF Init, SubscriptionsExist
  <2>2. Init => ReasonsHold
    BY DEF Init, ReasonsHold
  <2>3. Init => OutcomeIsTruthful
    BY WebhookAssumption DEF Init, OutcomeIsTruthful, WebhookDeliveryStatus
  <2> QED
    BY <2>1, <2>2, <2>3 DEF OutcomeInv
<1>2. TypeOK /\ ClaimInv /\ PostedOncePerAttempt /\ RetryInv /\ OutcomeInv /\ [Next]_vars
        => OutcomeInv'
  BY SubscriptionsStep, ReasonsStep, OutcomeStep DEF OutcomeInv
<1> QED
  BY <1>1, <1>2, TypeCorrect, ClaimInvariant, PostedAtMostOnce, RetryInvariant, PTL DEF Spec

\* DELIVERED and FAILED are only said with reason, whatever errors and
\* crashes come between a request and its record.
THEOREM OutcomesAreTrue == Spec => []OutcomeIsTruthful
BY OutcomeInvariant, PTL DEF OutcomeInv

-----------------------------------------------------------------------------
(* That WebhookDelivery implements WebhookLifecycle. Claiming is Begin,    *)
(* posting is Send, the updates that find their row are Record or Stop;    *)
(* steps that only move a task, a fan-out's reads or the clock stutter.    *)

\* The phases of all deliveries: what WebhookLifecycle sees of the rows.
Phases == [d \in Deliveries |-> Phase(d)]

LEMMA SameDeliveries == Lifecycle!Deliveries = Deliveries
BY DEF Lifecycle!Deliveries, Deliveries

\* A phase is that of its row alone.
LEMMA PhaseOfRow ==
    ASSUME NEW d \in Deliveries,
           status'[d] = status[d], attemptCount'[d] = attemptCount[d],
           nextAttemptAt'[d] = nextAttemptAt[d]
    PROVE  Phase(d)' = Phase(d)
BY DEF Phase

LEMMA PhasesSame ==
    ASSUME UNCHANGED deliveryRow
    PROVE  Phases' = Phases
BY PhaseOfRow DEF deliveryRow, Phases

\* One row changed.
LEMMA PhasesExcept ==
    ASSUME NEW x \in Deliveries, NEW p, Phase(x)' = p,
           \A d \in Deliveries \ {x} : /\ status'[d] = status[d]
                                       /\ attemptCount'[d] = attemptCount[d]
                                       /\ nextAttemptAt'[d] = nextAttemptAt[d]
    PROVE  Phases' = [Phases EXCEPT ![x] = p]
<1>1. \A d \in Deliveries \ {x} : Phase(d)' = Phase(d)
  BY PhaseOfRow
<1> QED
  BY <1>1 DEF Phases

\* The statuses are told apart.
LEMMA StatusesDiffer ==
    /\ NULL \notin {"PENDING", "RETRYING", "DELIVERED", "FAILED"}
    /\ ClaimableStatuses = {"PENDING", "RETRYING"}
BY WebhookAssumption DEF WebhookDeliveryStatus, ClaimableStatuses

\* The phase of an unsettled row.
LEMMA ClaimablePhase ==
    ASSUME NEW d \in Deliveries, status[d] \in ClaimableStatuses
    PROVE  Phase(d) = IF attemptCount[d] = 0 \/ nextAttemptAt[d] # NULL
                      THEN "waiting" ELSE "attempting"
BY StatusesDiffer DEF Phase

-----------------------------------------------------------------------------
(* The steps                                                               *)

\* A fan-out creates deliveries of its event, where there are none.
LEMMA MaterializingCreates ==
    ASSUME TypeOK, ClaimInv, NEW m \in Materializers, materializeDeliveries(m)
    PROVE  \E e \in Events : Lifecycle!Create(e)
<1>1. PICK e \in Events, found \in SUBSET Subscriptions :
            fanout[m].event = e /\ fanout[m].subscriptions = found
  BY DEF TypeOK, materializeDeliveries
<1>2. PICK created \in SUBSET Deliveries :
            /\ created = CreatedDeliveries(m)
            /\ \A d \in created : d[2] = e /\ status[d] = NULL
  <2>1. ASSUME NEW d \in CreatedDeliveries(m)
        PROVE  d \in Deliveries /\ d[2] = e /\ status[d] = NULL
    <3>1. PICK s \in found : d = <<s, e>> /\ status[<<s, e>>] = NULL
      BY <1>1 DEF CreatedDeliveries
    <3> QED
      BY <3>1 DEF Deliveries
  <2> QED
    BY <2>1
<1>3. /\ \A d \in Deliveries : status'[d] = IF d \in created THEN "PENDING" ELSE status[d]
      /\ \A d \in created : attemptCount'[d] = 0
      /\ UNCHANGED <<attemptCount, nextAttemptAt>>
  <2>1. NoRowNoAttempt
    BY DEF ClaimInv
  <2> QED
    BY <1>2, <2>1, Materializing DEF materializeDeliveries, NoRowNoAttempt
<1>4. Phases' = [d \in Deliveries |-> IF d \in created THEN "waiting" ELSE Phases[d]]
  <2>1. ASSUME NEW d \in Deliveries, d \in created PROVE Phase(d)' = "waiting"
    BY <1>3, <2>1, StatusesDiffer DEF Phase
  <2>2. ASSUME NEW d \in Deliveries, d \notin created PROVE Phase(d)' = Phases[d]
    BY <1>3, <2>2, PhaseOfRow DEF Phases
  <2> QED
    BY <2>1, <2>2 DEF Phases
<1>5. created \in SUBSET {d \in Deliveries : d[2] = e /\ Phases[d] = "none"}
  <2>1. \A d \in created : Phase(d) = "none"
    BY <1>2, StatusesDiffer DEF Phase
  <2> QED
    BY <1>2, <2>1 DEF Phases
<1>6. UNCHANGED <<attemptCount, posts, acknowledged, everDisabled>>
  BY <1>3 DEF materializeDeliveries, subscriptionVars, endpoint
<1>7. Lifecycle!Create(e)
  BY <1>4, <1>5, <1>6, SameDeliveries DEF Lifecycle!Create, Phases
<1> QED
  BY <1>7

\* A claim begins an attempt.
LEMMA ClaimingBegins ==
    ASSUME TypeOK, ClaimInv, NEW t \in Tasks, claimAttempt(t),
           NEW d \in Deliveries, d = job[t].delivery
    PROVE  Lifecycle!Begin(d)
<1>1. /\ attemptCount[d] = snapshot[t].attemptCount
      /\ attemptCount' = [attemptCount EXCEPT ![d] = AttemptNumber(t)]
      /\ status[d] \in ClaimableStatuses
      /\ status[d] = "PENDING" => attemptCount[d] = 0
      /\ status[d] = "RETRYING" => nextAttemptAt[d] # NULL
  BY Claiming
<1>2. attemptCount[d] \in Nat /\ AttemptNumber(t) = attemptCount[d] + 1
  BY <1>1 DEF TypeOK, AttemptNumber
<1>3. attemptCount[d] < MaxAttempts
  <2>1. AttemptNumber(t) <= MaxAttempts
    BY DEF ClaimInv, SnapshotsClaimable, claimAttempt
  <2> QED
    BY <1>2, <2>1, WebhookAssumption
<1>4. Phases[d] = "waiting"
  BY <1>1, ClaimablePhase, StatusesDiffer DEF Phases
<1>5. Phase(d)' = "attempting"
  <2>1. status'[d] \in ClaimableStatuses /\ nextAttemptAt'[d] = NULL /\ attemptCount'[d] # 0
    BY <1>1, <1>2 DEF claimAttempt, TypeOK
  <2> QED
    BY <2>1, StatusesDiffer DEF Phase
<1>6. \A x \in Deliveries \ {d} : /\ status'[x] = status[x]
                                 /\ attemptCount'[x] = attemptCount[x]
                                 /\ nextAttemptAt'[x] = nextAttemptAt[x]
  BY DEF claimAttempt, TypeOK
<1>7. Phases' = [Phases EXCEPT ![d] = "attempting"]
  BY <1>1, <1>5, <1>6, PhasesExcept
<1>8. UNCHANGED <<posts, acknowledged, everDisabled>>
  BY DEF claimAttempt, TaskWrites, endpoint, subscriptionVars
<1>9. attemptCount' = [attemptCount EXCEPT ![d] = @ + 1]
  BY <1>1, <1>2
<1> QED
  BY <1>3, <1>4, <1>7, <1>8, <1>9 DEF Lifecycle!Begin, Phases

\* A request is sent by the owner of an attempt that has none yet.
LEMMA PostingSends ==
    ASSUME TypeOK, PostedOncePerAttempt, NEW t \in Tasks, NEW success \in BOOLEAN,
           post(t, success)
    PROVE  job[t].delivery \in Deliveries /\ Lifecycle!Send(job[t].delivery)
<1> DEFINE d == job[t].delivery
<1>1. d \in Deliveries /\ attemptCount[d] \in Nat /\ posts[d] = attemptCount[d] - 1
  BY DEF TypeOK, JobType, post, PostedOncePerAttempt, InFlight
<1>2. Phases' = Phases
  BY PhasesSame DEF post
<1>3. /\ posts' = [posts EXCEPT ![d] = @ + 1]
      /\ acknowledged' \in {acknowledged, acknowledged \cup {d}}
      /\ UNCHANGED <<attemptCount, everDisabled>>
  BY DEF post, deliveryRow, subscriptionVars
<1> HIDE DEF d
<1>4. Lifecycle!Send(d)
  BY <1>1, <1>2, <1>3 DEF Lifecycle!Send, Phases
<1> QED
  BY <1>1, <1>4 DEF d

\* What an update that changes its row does, by its action.
LEMMA UpdateCases ==
    ASSUME TypeOK, ClaimInv, PostedOncePerAttempt, RetryInv, OutcomeInv,
           NEW t \in Tasks, Update(t), NEW d \in Deliveries, d = job[t].delivery,
           status'[d] # status[d] \/ nextAttemptAt'[d] # nextAttemptAt[d]
    PROVE  /\ status[d] \in ClaimableStatuses
           /\ \/ /\ d[1] \in everDisabled
                 /\ status'[d] = "FAILED"
              \/ /\ attemptCount[d] \in Nat \ {0}
                 /\ nextAttemptAt[d] = NULL
                 /\ posts[d] = attemptCount[d]
                 /\ \/ status'[d] = "DELIVERED" /\ d \in acknowledged
                    \/ /\ status'[d] = "FAILED"
                       /\ attemptCount[d] >= MaxAttempts
                    \/ /\ status'[d] = "RETRYING"
                       /\ nextAttemptAt'[d] # NULL
                       /\ attemptCount[d] < MaxAttempts
<1>1. status[d] \in ClaimableStatuses
  BY UpdatedStatus
<1>2. CASE StopDisabled(t)
  <2>1. d[1] \in everDisabled
    BY <1>2 DEF StopDisabled, OutcomeInv, ReasonsHold
  <2>2. status'[d] = "FAILED"
    BY <1>1, <1>2 DEF StopDisabled, TypeOK
  <2> QED
    BY <1>1, <2>1, <2>2
<1>3. ASSUME pc[t] \in {"delivered", "failing"}
      PROVE  /\ attemptCount[d] = AttemptNumber(t)
             /\ attemptCount[d] \in Nat \ {0}
             /\ nextAttemptAt[d] = NULL
             /\ posts[d] = attemptCount[d]
  <2>1. /\ attemptCount[d] = AttemptNumber(t)
        /\ nextAttemptAt[d] = NULL
    BY <1>3 DEF ClaimInv, AttemptExclusive, InFlight
  <2>2. posts[d] = attemptCount[d]
    BY <1>1, <1>3 DEF PostedOncePerAttempt, InFlight
  <2> QED
    BY <1>3, <2>1, <2>2, AttemptNumberType
<1>4. CASE markDelivered(t) \/ MarkDeliveredThrows(t)
  <2>1. pc[t] = "delivered" /\ d \in acknowledged
    BY <1>4 DEF markDelivered, MarkDeliveredThrows, OutcomeInv, ReasonsHold
  <2>2. status'[d] = "DELIVERED"
    BY <1>1, <1>4 DEF markDelivered, MarkDeliveredThrows, RecordDelivered, TypeOK
  <2> QED
    BY <1>1, <1>3, <2>1, <2>2
<1>5. CASE recordFailure(t)
  <2>1. /\ pc[t] = "failing"
        /\ failure[t] \in FailureType
        /\ status'[d] = failure[t].status
        /\ nextAttemptAt'[d] = failure[t].nextAttemptAt
    BY <1>1, <1>5 DEF recordFailure, TypeOK
  <2>2. FailureFits(failure[t], d, AttemptNumber(t))
    BY <2>1 DEF RetryInv, FailuresFit
  <2>3. failure[t].status = "FAILED" => attemptCount[d] >= MaxAttempts
    BY <1>3, <2>1, <2>2 DEF FailureFits
  <2>4. failure[t].status = "RETRYING" =>
            attemptCount[d] < MaxAttempts /\ failure[t].nextAttemptAt # NULL
    <3>1. ASSUME failure[t].status = "RETRYING"
          PROVE  attemptCount[d] + 1 <= MaxAttempts /\ failure[t].nextAttemptAt \in Int
      BY <1>3, <2>1, <2>2, <3>1 DEF FailureFits
    <3> QED
      BY <1>3, <2>1, <3>1, WebhookAssumption
  <2>5. failure[t].status \in {"RETRYING", "FAILED"}
    BY <2>1 DEF FailureType
  <2> QED
    BY <1>1, <1>3, <2>1, <2>3, <2>4, <2>5
<1> QED
  BY <1>2, <1>4, <1>5 DEF Update

\* An update records the result of its attempt, or stops the delivery, or
\* finds its row gone on.
LEMMA UpdatingRecords ==
    ASSUME TypeOK, ClaimInv, PostedOncePerAttempt, RetryInv, OutcomeInv,
           NEW t \in Tasks, Update(t), NEW d \in Deliveries, d = job[t].delivery
    PROVE  Lifecycle!Record(d) \/ Lifecycle!Stop(d) \/ UNCHANGED Lifecycle!vars
<1>1. /\ UNCHANGED <<attemptCount, posts, acknowledged, everDisabled>>
      /\ \A x \in Deliveries \ {d} : /\ status'[x] = status[x]
                                     /\ attemptCount'[x] = attemptCount[x]
                                     /\ nextAttemptAt'[x] = nextAttemptAt[x]
  BY Updating DEF subscriptionVars, endpoint
<1>2. CASE status'[d] = status[d] /\ nextAttemptAt'[d] = nextAttemptAt[d]
  <2>1. \A x \in Deliveries : Phase(x)' = Phase(x)
    BY <1>1, <1>2, PhaseOfRow
  <2>2. Phases' = Phases
    BY <2>1 DEF Phases
  <2>3. UNCHANGED Lifecycle!vars
    BY <1>1, <2>2 DEF Lifecycle!vars, Phases
  <2> QED
    BY <1>1, <2>3
<1>3. CASE status'[d] # status[d] \/ nextAttemptAt'[d] # nextAttemptAt[d]
  <2>1. \A p : Phase(d)' = p => Phases' = [Phases EXCEPT ![d] = p]
    BY <1>1, PhasesExcept
  <2>2. status[d] \in ClaimableStatuses /\ Phases[d] \in {"waiting", "attempting"}
    BY <1>1, <1>3, UpdateCases, ClaimablePhase DEF Phases
  <2>3. CASE d[1] \in everDisabled /\ status'[d] = "FAILED"
    <3>1. Phase(d)' = "failed"
      BY <2>3, StatusesDiffer DEF Phase
    <3>2. Lifecycle!Stop(d)
      BY <1>1, <2>1, <2>2, <2>3, <3>1 DEF Lifecycle!Stop, Phases
    <3> QED
      BY <1>1, <3>2
  <2>4. CASE /\ attemptCount[d] \in Nat \ {0} /\ nextAttemptAt[d] = NULL
             /\ posts[d] = attemptCount[d]
             /\ \/ status'[d] = "DELIVERED" /\ d \in acknowledged
                \/ status'[d] = "FAILED" /\ attemptCount[d] >= MaxAttempts
                \/ /\ status'[d] = "RETRYING" /\ nextAttemptAt'[d] # NULL
                   /\ attemptCount[d] < MaxAttempts
    <3>1. Phases[d] = "attempting"
      BY <1>1, <2>2, <2>4, ClaimablePhase DEF Phases
    <3>2. PICK result \in {"delivered", "waiting", "failed"} :
            /\ Phase(d)' = result
            /\ result = "delivered" => d \in acknowledged
            /\ result = "waiting" <=> attemptCount[d] < MaxAttempts /\ result # "delivered"
      <4>1. CASE status'[d] = "DELIVERED" /\ d \in acknowledged
        <5>1. Phase(d)' = "delivered"
          BY <4>1, StatusesDiffer DEF Phase
        <5> QED
          BY <4>1, <5>1
      <4>2. CASE status'[d] = "FAILED" /\ attemptCount[d] >= MaxAttempts
        <5>1. Phase(d)' = "failed"
          BY <4>2, StatusesDiffer DEF Phase
        <5>2. ~(attemptCount[d] < MaxAttempts)
          BY <2>4, <4>2, WebhookAssumption
        <5> QED
          BY <5>1, <5>2
      <4>3. CASE /\ status'[d] = "RETRYING" /\ nextAttemptAt'[d] # NULL
                 /\ attemptCount[d] < MaxAttempts
        <5>1. Phase(d)' = "waiting"
          BY <4>3, StatusesDiffer DEF Phase
        <5> QED
          BY <4>3, <5>1
      <4> QED
        BY <2>4, <4>1, <4>2, <4>3
    <3>3. Phases' = [Phases EXCEPT ![d] = result]
      BY <2>1, <3>2
    <3> QED
      BY <1>1, <2>4, <3>1, <3>2, <3>3 DEF Lifecycle!Record, Phases
  <2> QED
    BY <1>3, <2>3, <2>4, UpdateCases
<1> QED
  BY <1>2, <1>3

\* The step theorem of the refinement.
LEMMA LifecycleStep ==
    TypeOK /\ ClaimInv /\ PostedOncePerAttempt /\ RetryInv /\ OutcomeInv /\ [Next]_vars
        => [Lifecycle!Next]_(Lifecycle!vars)
<1> SUFFICES ASSUME TypeOK, ClaimInv, PostedOncePerAttempt, RetryInv, OutcomeInv, [Next]_vars
             PROVE  [Lifecycle!Next]_(Lifecycle!vars)
  OBVIOUS
<1>1. ASSUME UNCHANGED <<deliveryRow, posts, acknowledged, everDisabled>>
      PROVE  UNCHANGED Lifecycle!vars
  <2>1. Phases' = Phases /\ attemptCount' = attemptCount
    BY <1>1, PhasesSame DEF deliveryRow
  <2> QED
    BY <1>1, <2>1 DEF Lifecycle!vars, Phases
<1>2. ASSUME NEW s \in Subscriptions, NEW value \in BOOLEAN, setEnabled(s, value)
      PROVE  Lifecycle!Disable(s) \/ UNCHANGED Lifecycle!vars
  <2>1. UNCHANGED <<deliveryRow, posts, acknowledged>>
    BY <1>2 DEF setEnabled, endpoint
  <2>2. Phases' = Phases /\ attemptCount' = attemptCount
    BY <2>1, PhasesSame DEF deliveryRow
  <2>3. everDisabled' \in {everDisabled, everDisabled \cup {s}}
    BY <1>2 DEF setEnabled
  <2> QED
    BY <2>1, <2>2, <2>3 DEF Lifecycle!Disable, Lifecycle!vars, Phases
<1>3. ASSUME NEW s \in Subscriptions, create(s) PROVE UNCHANGED Lifecycle!vars
  BY <1>1, <1>3 DEF create, endpoint
<1>4. ASSUME NEW m \in Materializers,
             \/ \E e \in Events : FindSource(m, e)
             \/ FindSubscriptions(m)
             \/ FanoutFails(m)
      PROVE  UNCHANGED Lifecycle!vars
  BY <1>1, <1>4 DEF FindSource, FindSubscriptions, FanoutFails, subscriptionVars, endpoint
<1>5. ASSUME NEW t \in Tasks,
             \/ \E request \in outbox : StartJob(t, request)
             \/ Finish(t) /\ TaskReads
             \/ ClaimRead(t)
      PROVE  UNCHANGED Lifecycle!vars
  BY <1>1, <1>5 DEF StartJob, TaskReads, ClaimRead, subscriptionVars, endpoint
<1>6. ASSUME Tick \/ UNCHANGED vars PROVE UNCHANGED Lifecycle!vars
  BY <1>1, <1>6 DEF Tick, vars, subscriptionVars, endpoint
<1>7. ASSUME NEW m \in Materializers, materializeDeliveries(m) PROVE Lifecycle!Next
  BY <1>7, MaterializingCreates DEF Lifecycle!Next
<1>8. ASSUME NEW t \in Tasks, claimAttempt(t) PROVE Lifecycle!Next
  <2>1. PICK d \in Deliveries : d = job[t].delivery
    BY <1>8, Claiming
  <2> QED
    BY <1>8, <2>1, ClaimingBegins, SameDeliveries DEF Lifecycle!Next
<1>9. ASSUME NEW t \in Tasks, NEW success \in BOOLEAN, post(t, success) PROVE Lifecycle!Next
  BY <1>9, PostingSends, SameDeliveries DEF Lifecycle!Next
<1>10. ASSUME NEW t \in Tasks, Update(t) PROVE Lifecycle!Next \/ UNCHANGED Lifecycle!vars
  <2>1. PICK d \in Deliveries : d = job[t].delivery
    BY <1>10, Updating
  <2> QED
    BY <1>10, <2>1, UpdatingRecords, SameDeliveries DEF Lifecycle!Next
<1>11. ASSUME NEW s \in Subscriptions,
              create(s) \/ \E value \in BOOLEAN : setEnabled(s, value)
       PROVE  Lifecycle!Next \/ UNCHANGED Lifecycle!vars
  BY <1>2, <1>3, <1>11 DEF Lifecycle!Next
<1> QED
  BY StepCases, <1>4, <1>5, <1>6, <1>7, <1>8, <1>9, <1>10, <1>11 DEF Update

\* Whatever jobs are repeated, whichever dispatchers fan out at once and
\* whoever dies, the deliveries go through the lifecycle that is promised.
THEOREM DeliveryImplementsLifecycle == Spec => ImplementsLifecycle
<1>1. Init => Lifecycle!Init
  <2>1. ASSUME Init, NEW d \in Deliveries PROVE Phase(d) = "none"
    <3>1. status[d] = NULL
      BY <2>1 DEF Init
    <3> QED
      BY <3>1, StatusesDiffer DEF Phase
  <2> QED
    BY <2>1, SameDeliveries DEF Init, Lifecycle!Init
<1> QED
  BY <1>1, LifecycleStep, TypeCorrect, ClaimInvariant, PostedAtMostOnce, RetryInvariant,
     OutcomeInvariant, PTL DEF Spec, ImplementsLifecycle, Lifecycle!Spec
=============================================================================
