---------------------- MODULE PaymentProcessingProofs ------------------------
(* Theorems about PaymentProcessing, for any payments, tasks and attempts. *)
EXTENDS PaymentProcessing, TLAPS

-----------------------------------------------------------------------------
(* Operators                                                               *)

\* The settlement of an attempt is a status an attempt can end in.
LEMMA ResultingStatusType ==
    ASSUME NEW outcome \in BankOutcome, NEW attempt \in Nat
    PROVE  ResultingStatus(BankResult(outcome), attempt)
               \in {"COMPLETED", "FAILED", "RETRYING"}
BY DEF ResultingStatus, BankResult, BankOutcome, thrownBankErrorResult

\* The retry delay is a number (TLAPS knows no more about exponents).
LEMMA RetryDelayType ==
    ASSUME NEW n \in Nat \ {0}
    PROVE  calculateRetryDelay(n) \in Int
<1>1. 2^(n - 1) \in Int
  BY SMT
<1> QED
  BY <1>1, BaseDelayAssumption DEF calculateRetryDelay

\* What the bank may have executed stays a set of payments.
LEMMA MayHaveExecutedType ==
    ASSUME executed \subseteq Payments, NEW p \in Payments,
           NEW outcome \in BankOutcome, NEW e \in MayHaveExecuted(p, outcome)
    PROVE  e \subseteq Payments
BY DEF MayHaveExecuted, BankOutcome

\* The settlement has the type of a reply.
LEMMA SettlementType ==
    ASSUME TypeOK, NEW t \in Tasks, pc[t] = "calling", NEW outcome \in BankOutcome
    PROVE  Settlement(t, BankResult(outcome)) \in ReplyType
<1> DEFINE s == ResultingStatus(BankResult(outcome), AttemptNumber(t))
<1>1. snapshot[t].attemptCount \in Nat
  BY DEF TypeOK, RowType
<1>2. AttemptNumber(t) \in Nat \ {0}
  BY <1>1 DEF AttemptNumber
<1>3. s \in {"COMPLETED", "FAILED", "RETRYING"}
  BY <1>2, ResultingStatusType
<1>4. now + calculateRetryDelay(AttemptNumber(t)) \in Int
  BY <1>2, RetryDelayType DEF TypeOK
<1> QED
  BY <1>3, <1>4 DEF Settlement, ReplyType

-----------------------------------------------------------------------------
(* Type correctness                                                        *)

\* The initial state has the types of TypeOK.
LEMMA TypeInit == Init => TypeOK
BY DEF Init, TypeOK

\* Each step keeps them; one step of the proof per action.
LEMMA TypeStep == TypeOK /\ [Next]_vars => TypeOK'
<1> SUFFICES ASSUME TypeOK, [Next]_vars PROVE TypeOK'
  OBVIOUS
<1> USE DEF TypeOK, vars, stored, paymentRow, local, bank
<1>1. ASSUME NEW p \in Payments, createPaymentSubmission(p) PROVE TypeOK'
  <2>1. Len(events[p]) + 1 \in Int
    OBVIOUS
  <2>2. {createWebhookDeliveriesOutboxEvent(p), ProcessRequest(p)} \subseteq OutboxRow(Payments)
    BY <2>1 DEF createWebhookDeliveriesOutboxEvent, WebhookRequest, ProcessRequest,
                OutboxRow, OutboxTypes, PaymentJobTypes
  <2>3. PaymentEvent(NULL, "PENDING") \in EventType
    BY DEF PaymentEvent, EventType, PaymentStatus
  <2>4. events' \in [Payments -> Seq(EventType)]
    BY <1>1, <2>3 DEF createPaymentSubmission, RecordEvent
  <2>5. outbox' \subseteq OutboxRow(Payments)
    BY <1>1, <2>2 DEF createPaymentSubmission
  <2> QED
    BY <1>1, <2>4, <2>5 DEF createPaymentSubmission, PaymentStatus
<1>2. ASSUME NEW t \in Tasks, NEW request \in outbox, StartJob(t, request) PROVE TypeOK'
  <2>1. [payment |-> request.payment, expectedAttemptNumber |-> request.number,
         claimedAt |-> now] \in JobType
    BY DEF JobType, OutboxRow
  <2> QED
    BY <1>2, <2>1 DEF StartJob
<1>3. ASSUME NEW t \in Tasks, Finish(t), UNCHANGED <<stored, bank, now>> PROVE TypeOK'
  BY <1>3 DEF Finish
<1>4. ASSUME NEW t \in Tasks, ClaimRead(t) PROVE TypeOK'
  <2>1. job[t].payment \in Payments
    BY <1>4 DEF ClaimRead, JobType
  <2>2. Row(job[t].payment) \in RowType
    BY <2>1 DEF Row, RowType
  <2> QED
    BY <1>4, <2>2 DEF ClaimRead
<1>5. ASSUME NEW t \in Tasks, claimPaymentAttempt(t) PROVE TypeOK'
  <2> DEFINE p == job[t].payment
  <2>1. p \in Payments
    BY <1>5 DEF claimPaymentAttempt, JobType
  <2>2. PaymentEvent(snapshot[t].status, "PROCESSING") \in EventType
    BY <1>5 DEF claimPaymentAttempt, PaymentEvent, EventType, PaymentStatus, RowType
  <2>3. events' \in [Payments -> Seq(EventType)]
    BY <1>5, <2>1, <2>2 DEF claimPaymentAttempt, RecordEvent
  <2>4. createWebhookDeliveriesOutboxEvent(p) \in OutboxRow(Payments)
    BY <2>1 DEF createWebhookDeliveriesOutboxEvent, WebhookRequest, OutboxRow, OutboxTypes
  <2>5. outbox' \subseteq OutboxRow(Payments)
    BY <1>5, <2>4 DEF claimPaymentAttempt
  <2>6. /\ status' \in [Payments -> PaymentStatus \cup {NULL}]
        /\ attemptCount' \in [Payments -> Nat]
        /\ nextRetryAt' \in [Payments -> Int \cup {NULL}]
    BY <1>5, <2>1 DEF claimPaymentAttempt, PaymentStatus
  <2>7. /\ pc' \in [Tasks -> {"idle", "claiming", "claimable", "calling", "recording"}]
        /\ \A u \in Tasks :
            /\ pc'[u] # "idle" => job'[u] \in JobType
            /\ pc'[u] \in {"claimable", "calling", "recording"} => snapshot'[u] \in RowType
            /\ pc'[u] = "recording" => reply'[u] \in ReplyType
    BY <1>5 DEF claimPaymentAttempt
  <2> QED
    BY <1>5, <2>3, <2>5, <2>6, <2>7 DEF claimPaymentAttempt
<1>6. ASSUME NEW t \in Tasks, NEW outcome \in BankOutcome, executePayment(t, outcome)
      PROVE  TypeOK'
  <2> DEFINE p == job[t].payment
  <2>1. p \in Payments
    BY <1>6 DEF executePayment, JobType
  <2>2. Settlement(t, BankResult(outcome)) \in ReplyType
    BY <1>6, SettlementType DEF executePayment
  <2>3. executed' \subseteq Payments
    BY <1>6, <2>1, MayHaveExecutedType DEF executePayment
  <2> QED
    BY <1>6, <2>1, <2>2, <2>3 DEF executePayment
<1>7. ASSUME NEW t \in Tasks, transitionProcessingPayment(t) PROVE TypeOK'
  <2> DEFINE p == job[t].payment
  <2>1. /\ p \in Payments
        /\ reply[t] \in ReplyType
        /\ snapshot[t] \in RowType
    BY <1>7 DEF transitionProcessingPayment, JobType
  <2>2. PaymentEvent("PROCESSING", reply[t].toStatus) \in EventType
    BY <2>1 DEF PaymentEvent, EventType, PaymentStatus, ReplyType
  <2>3. createWebhookDeliveriesOutboxEvent(p) \in OutboxRow(Payments)
    BY <2>1 DEF createWebhookDeliveriesOutboxEvent, WebhookRequest, OutboxRow, OutboxTypes
  <2>4. RetrySchedule(t) \subseteq OutboxRow(Payments)
    BY <2>1 DEF RetrySchedule, RetryRequest, AttemptNumber, RowType, ReplyType,
                OutboxRow, OutboxTypes, PaymentJobTypes
  <2>5. events' \in [Payments -> Seq(EventType)]
    <3>1. CASE TransitionMatches(t)
      <4>1. RecordEvent(p, "PROCESSING", reply[t].toStatus)
        BY <1>7, <3>1 DEF transitionProcessingPayment
      <4>2. QED
        BY <2>1, <2>2, <4>1 DEF RecordEvent
    <3>2. CASE ~TransitionMatches(t)
      BY <1>7, <3>2 DEF transitionProcessingPayment
    <3> QED
      BY <3>1, <3>2
  <2>6. outbox' \subseteq OutboxRow(Payments)
    BY <1>7, <2>3, <2>4 DEF transitionProcessingPayment
  <2>7. /\ status' \in [Payments -> PaymentStatus \cup {NULL}]
        /\ nextRetryAt' \in [Payments -> Int \cup {NULL}]
    BY <1>7, <2>1 DEF transitionProcessingPayment, ReplyType, PaymentStatus
  <2> QED
    BY <1>7, <2>5, <2>6, <2>7 DEF transitionProcessingPayment, Finish
<1>8. CASE Tick
  BY <1>8 DEF Tick
<1>9. CASE UNCHANGED vars
  BY <1>9
<1> QED
  BY <1>1, <1>2, <1>3, <1>4, <1>5, <1>6, <1>7, <1>8, <1>9
     DEF Next, TaskStep, ClaimRefused, ClaimNotDue, ClaimLost, Abandon

\* The variables always have their types, and a task has the local
\* variables of the await it is suspended at.
THEOREM TypeCorrect == Spec => []TypeOK
BY TypeInit, TypeStep, PTL DEF Spec

-----------------------------------------------------------------------------
(* The steps of the specification, by what they change: the four ways a    *)
(* task ends without a write are one case.                                 *)
LEMMA StepCases ==
    ASSUME [Next]_vars
    PROVE  \/ \E p \in Payments : createPaymentSubmission(p)
           \/ \E t \in Tasks, request \in outbox : StartJob(t, request)
           \/ \E t \in Tasks : Finish(t) /\ UNCHANGED <<stored, bank, now>>
           \/ \E t \in Tasks : ClaimRead(t)
           \/ \E t \in Tasks : claimPaymentAttempt(t)
           \/ \E t \in Tasks, outcome \in BankOutcome : executePayment(t, outcome)
           \/ \E t \in Tasks : transitionProcessingPayment(t)
           \/ Tick
           \/ UNCHANGED vars
BY DEF Next, TaskStep, ClaimRefused, ClaimNotDue, ClaimLost, Abandon

-----------------------------------------------------------------------------
(* Exclusive claims. The compare-and-set compares the row with the         *)
(* snapshot, so what makes it exclusive is what a snapshot may hold: a     *)
(* status a claim may start from, never PROCESSING.                        *)

SnapshotClaimable ==
    \A t \in Tasks : pc[t] \in {"claimable", "calling", "recording"} =>
        /\ snapshot[t].status \in {"PENDING", "RETRYING"}
        /\ snapshot[t].status = "PENDING" => snapshot[t].attemptCount = 0
        /\ AttemptNumber(t) <= MaxAttempts

ClaimInv == ClaimExclusive /\ SnapshotClaimable

\* The invariant is kept by every step.
LEMMA ClaimStep == TypeOK /\ ClaimInv /\ [Next]_vars => ClaimInv'
<1> SUFFICES ASSUME TypeOK, ClaimInv, [Next]_vars PROVE ClaimInv'
  OBVIOUS
<1> USE DEF ClaimInv, ClaimExclusive, SnapshotClaimable, HoldsClaim, AttemptNumber,
            TypeOK, vars, stored, paymentRow, local, bank
<1>1. ASSUME NEW p \in Payments, createPaymentSubmission(p) PROVE ClaimInv'
  <2>1. \A u \in Tasks : HoldsClaim(u) => job[u].payment # p
    BY <1>1, NullAssumption DEF createPaymentSubmission, PaymentStatus
  <2>2. \A q \in Payments : q # p => status'[q] = status[q]
    BY <1>1 DEF createPaymentSubmission
  <2>3. \A u \in Tasks : HoldsClaim(u) => job[u].payment \in Payments
    BY DEF JobType
  <2>4. ClaimExclusive'
    BY <1>1, <2>1, <2>2, <2>3 DEF createPaymentSubmission
  <2>5. SnapshotClaimable'
    BY <1>1 DEF createPaymentSubmission
  <2> QED
    BY <2>4, <2>5
<1>2. ASSUME NEW t \in Tasks, NEW request \in outbox, StartJob(t, request) PROVE ClaimInv'
  BY <1>2 DEF StartJob
<1>3. ASSUME NEW t \in Tasks, Finish(t), UNCHANGED <<stored, bank, now>> PROVE ClaimInv'
  BY <1>3 DEF Finish
<1>4. ASSUME NEW t \in Tasks, ClaimRead(t) PROVE ClaimInv'
  <2>1. SnapshotClaimable'
    BY <1>4 DEF ClaimRead, MayClaim, IsInitialAttempt, IsDueRetry, Row, JobType
  <2>2. ClaimExclusive'
    BY <1>4 DEF ClaimRead
  <2> QED
    BY <2>1, <2>2
<1>5. ASSUME NEW t \in Tasks, claimPaymentAttempt(t) PROVE ClaimInv'
  <2> DEFINE p == job[t].payment
  <2>1. /\ p \in Payments
        /\ snapshot[t] \in RowType
        /\ status[p] \in {"PENDING", "RETRYING"}
        /\ attemptCount[p] = snapshot[t].attemptCount
    BY <1>5 DEF claimPaymentAttempt, ClaimMatches, Row, JobType
  <2>2. \A u \in Tasks : HoldsClaim(u) => job[u].payment # p
    BY <2>1
  <2>3. \A u \in Tasks : HoldsClaim(u) => job[u].payment \in Payments
    BY DEF JobType
  <2>4. ClaimExclusive'
    BY <1>5, <2>1, <2>2, <2>3 DEF claimPaymentAttempt
  <2>5. SnapshotClaimable'
    BY <1>5 DEF claimPaymentAttempt
  <2> QED
    BY <2>4, <2>5
<1>6. ASSUME NEW t \in Tasks, NEW outcome \in BankOutcome, executePayment(t, outcome)
      PROVE  ClaimInv'
  BY <1>6 DEF executePayment
<1>7. ASSUME NEW t \in Tasks, transitionProcessingPayment(t) PROVE ClaimInv'
  <2> DEFINE p == job[t].payment
  <2>1. \A u \in Tasks : HoldsClaim(u) /\ u # t => job[u].payment # p
    BY <1>7 DEF transitionProcessingPayment
  <2>2. \A u \in Tasks : HoldsClaim(u) => job[u].payment \in Payments
    BY DEF JobType
  <2>3. /\ attemptCount' = attemptCount
        /\ \A q \in Payments : q # p => status'[q] = status[q]
    BY <1>7 DEF transitionProcessingPayment
  <2>4. \A u \in Tasks : HoldsClaim(u)' => /\ u # t
                                           /\ HoldsClaim(u)
                                           /\ job'[u] = job[u]
                                           /\ snapshot'[u] = snapshot[u]
    BY <1>7 DEF transitionProcessingPayment, Finish
  <2>5. ClaimExclusive'
    <3> SUFFICES ASSUME NEW u \in Tasks, HoldsClaim(u)'
                 PROVE  /\ status'[job'[u].payment] = "PROCESSING"
                        /\ attemptCount'[job'[u].payment] = AttemptNumber(u)'
                        /\ \A v \in Tasks :
                            HoldsClaim(v)' /\ job'[v].payment = job'[u].payment => v = u
      OBVIOUS
    <3>1. /\ HoldsClaim(u)
          /\ job'[u].payment = job[u].payment
          /\ job[u].payment \in Payments
          /\ job[u].payment # p
          /\ AttemptNumber(u)' = AttemptNumber(u)
      BY <2>1, <2>2, <2>4
    <3>2. status'[job[u].payment] = "PROCESSING"
      BY <2>3, <3>1
    <3>3. attemptCount'[job[u].payment] = AttemptNumber(u)
      BY <2>3, <3>1
    <3>4. \A v \in Tasks : HoldsClaim(v)' => HoldsClaim(v) /\ job'[v] = job[v]
      BY <2>4
    <3> QED
      BY <3>1, <3>2, <3>3, <3>4
  <2>6. SnapshotClaimable'
    BY <1>7 DEF transitionProcessingPayment, Finish
  <2> QED
    BY <2>5, <2>6
<1>8. CASE Tick
  BY <1>8 DEF Tick
<1>9. CASE UNCHANGED vars
  BY <1>9
<1> QED
  BY StepCases, <1>1, <1>2, <1>3, <1>4, <1>5, <1>6, <1>7, <1>8, <1>9

\* It holds in every reachable state.
LEMMA ClaimInvariant == Spec => []ClaimInv
<1>1. Init => ClaimInv
  BY DEF Init, ClaimInv, ClaimExclusive, SnapshotClaimable, HoldsClaim
<1> QED
  BY <1>1, TypeCorrect, ClaimStep, PTL DEF Spec

\* At any time at most one task is between its claim and its result for a
\* payment; the payment is PROCESSING and the task works on its latest attempt.
THEOREM ClaimsAreExclusive == Spec => []ClaimExclusive
BY ClaimInvariant, PTL DEF ClaimInv

-----------------------------------------------------------------------------
(* Calls of the bank. The count of calls follows the count of attempts     *)
(* because a claim is exclusive: nobody else calls for the same attempt.   *)

\* A step that ends a task or leaves tasks and rows alone keeps the relation.
LEMMA BankStep == TypeOK /\ ClaimInv /\ BankCalledOncePerAttempt /\ [Next]_vars
                     => BankCalledOncePerAttempt'
<1> SUFFICES ASSUME TypeOK, ClaimInv, BankCalledOncePerAttempt, [Next]_vars
             PROVE  BankCalledOncePerAttempt'
  OBVIOUS
<1> USE DEF BankCalledOncePerAttempt, HoldsClaim, TypeOK,
            vars, stored, paymentRow, local, bank
<1>1. ASSUME NEW p \in Payments, createPaymentSubmission(p)
      PROVE  BankCalledOncePerAttempt'
  <2>1. status[p] # "PROCESSING"
    BY <1>1, NullAssumption DEF createPaymentSubmission, PaymentStatus
  <2> QED
    BY <1>1, <2>1 DEF createPaymentSubmission
<1>2. ASSUME NEW t \in Tasks, NEW request \in outbox, StartJob(t, request)
      PROVE  BankCalledOncePerAttempt'
  BY <1>2 DEF StartJob
<1>3. ASSUME NEW t \in Tasks, Finish(t), UNCHANGED <<stored, bank, now>>
      PROVE  BankCalledOncePerAttempt'
  BY <1>3 DEF Finish
<1>4. ASSUME NEW t \in Tasks, ClaimRead(t) PROVE BankCalledOncePerAttempt'
  BY <1>4 DEF ClaimRead
<1>5. ASSUME NEW t \in Tasks, claimPaymentAttempt(t) PROVE BankCalledOncePerAttempt'
  <2> DEFINE p == job[t].payment
  <2>1. /\ p \in Payments
        /\ snapshot[t] \in RowType
        /\ status[p] \in {"PENDING", "RETRYING"}
        /\ attemptCount[p] = snapshot[t].attemptCount
        /\ AttemptNumber(t) <= MaxAttempts
    BY <1>5 DEF claimPaymentAttempt, ClaimMatches, Row, JobType, ClaimInv, SnapshotClaimable
  <2>2. calls[p] = attemptCount[p] /\ attemptCount[p] + 1 <= MaxAttempts
    BY <2>1 DEF AttemptNumber
  <2>3. \A u \in Tasks : u # t /\ HoldsClaim(u) => job[u].payment # p
    BY <2>1 DEF ClaimInv, ClaimExclusive
  <2> QED
    BY <1>5, <2>1, <2>2, <2>3 DEF claimPaymentAttempt
<1>6. ASSUME NEW t \in Tasks, NEW outcome \in BankOutcome, executePayment(t, outcome)
      PROVE  BankCalledOncePerAttempt'
  <2> DEFINE p == job[t].payment
  <2>1. /\ p \in Payments
        /\ status[p] = "PROCESSING"
        /\ calls[p] = attemptCount[p] - 1
    BY <1>6 DEF executePayment, JobType, ClaimInv, ClaimExclusive
  <2>2. \A u \in Tasks : u # t /\ HoldsClaim(u) => job[u].payment # p
    BY <1>6 DEF executePayment, ClaimInv, ClaimExclusive
  <2> QED
    BY <1>6, <2>1, <2>2 DEF executePayment
<1>7. ASSUME NEW t \in Tasks, transitionProcessingPayment(t) PROVE BankCalledOncePerAttempt'
  <2> DEFINE p == job[t].payment
  <2>1. /\ p \in Payments
        /\ calls[p] = attemptCount[p]
    BY <1>7 DEF transitionProcessingPayment, JobType
  <2>2. /\ attemptCount' = attemptCount
        /\ calls' = calls
        /\ \A q \in Payments : q # p => status'[q] = status[q]
    BY <1>7 DEF transitionProcessingPayment
  <2>3. \A u \in Tasks : HoldsClaim(u)' => HoldsClaim(u) /\ pc'[u] = pc[u] /\ job'[u] = job[u]
    BY <1>7 DEF transitionProcessingPayment, Finish
  <2> QED
    BY <2>1, <2>2, <2>3
<1>8. CASE Tick
  BY <1>8 DEF Tick
<1>9. CASE UNCHANGED vars
  BY <1>9
<1> QED
  BY StepCases, <1>1, <1>2, <1>3, <1>4, <1>5, <1>6, <1>7, <1>8, <1>9

\* The bank is called once for each settled attempt, at most once for the one
\* under way, and for no more than MaxAttempts attempts.
THEOREM BankCalledOnce == Spec => []BankCalledOncePerAttempt
<1>1. Init => BankCalledOncePerAttempt
  BY MaxAttemptsAssumption DEF Init, BankCalledOncePerAttempt, HoldsClaim
<1> QED
  BY <1>1, TypeCorrect, ClaimInvariant, BankStep, PTL DEF Spec

-----------------------------------------------------------------------------
(* Waiting payments. A payment that waits to be claimed has its outbox row, *)
(* and a retry time that lies the backoff delay after the bank's answer.    *)

ReplyInv ==
    \A t \in Tasks :
        /\ pc[t] # "idle" => job[t].claimedAt <= now
        /\ pc[t] = "recording" /\ reply[t].toStatus = "COMPLETED" =>
            job[t].payment \in executed
        /\ pc[t] = "recording" /\ reply[t].toStatus = "RETRYING" =>
            /\ AttemptNumber(t) < MaxAttempts
            /\ reply[t].nextRetryAt =
                   answeredAt[job[t].payment] + calculateRetryDelay(AttemptNumber(t))

WaitingInv ==
    \A p \in Payments :
        /\ status[p] \in {NULL, "PENDING"} => attemptCount[p] = 0
        /\ status[p] = "PENDING" => ProcessRequest(p) \in outbox
        /\ status[p] = "RETRYING" =>
            /\ attemptCount[p] \in 1..(MaxAttempts - 1)
            /\ nextRetryAt[p] = answeredAt[p] + calculateRetryDelay(attemptCount[p])
            /\ RetryRequest(p, attemptCount[p] + 1, nextRetryAt[p]) \in outbox

\* What a task has heard from the bank stays true until it is recorded.
LEMMA ReplyStep == TypeOK /\ ClaimInv /\ ReplyInv /\ [Next]_vars => ReplyInv'
<1> SUFFICES ASSUME TypeOK, ClaimInv, ReplyInv, [Next]_vars PROVE ReplyInv'
  OBVIOUS
<1> USE DEF ReplyInv, AttemptNumber, TypeOK, vars, stored, paymentRow, local, bank
<1>1. ASSUME NEW p \in Payments, createPaymentSubmission(p) PROVE ReplyInv'
  BY <1>1 DEF createPaymentSubmission
<1>2. ASSUME NEW t \in Tasks, NEW request \in outbox, StartJob(t, request) PROVE ReplyInv'
  BY <1>2 DEF StartJob
<1>3. ASSUME NEW t \in Tasks, Finish(t), UNCHANGED <<stored, bank, now>> PROVE ReplyInv'
  BY <1>3 DEF Finish
<1>4. ASSUME NEW t \in Tasks, ClaimRead(t) PROVE ReplyInv'
  BY <1>4 DEF ClaimRead
<1>5. ASSUME NEW t \in Tasks, claimPaymentAttempt(t) PROVE ReplyInv'
  BY <1>5 DEF claimPaymentAttempt
<1>6. ASSUME NEW t \in Tasks, NEW outcome \in BankOutcome, executePayment(t, outcome)
      PROVE  ReplyInv'
  <2> DEFINE p == job[t].payment
             r == Settlement(t, BankResult(outcome))
  <2>1. p \in Payments /\ snapshot[t].attemptCount \in Nat
    BY <1>6 DEF executePayment, JobType, RowType
  <2>2. \A u \in Tasks : u # t /\ pc[u] = "recording" => job[u].payment # p
    BY <1>6 DEF executePayment, ClaimInv, ClaimExclusive, HoldsClaim
  <2>3. r.toStatus = "RETRYING" =>
            /\ AttemptNumber(t) < MaxAttempts
            /\ r.nextRetryAt = now + calculateRetryDelay(AttemptNumber(t))
    BY <2>1, MaxAttemptsAssumption DEF Settlement, ResultingStatus
  <2>4. answeredAt' = [answeredAt EXCEPT ![p] = now] /\ reply' = [reply EXCEPT ![t] = r]
    BY <1>6 DEF executePayment
  <2>5. /\ UNCHANGED <<job, snapshot, now>>
        /\ pc' = [pc EXCEPT ![t] = "recording"]
        /\ pc[t] = "calling"
    BY <1>6 DEF executePayment
  <2>7. executed \subseteq executed' /\ (r.toStatus = "COMPLETED" => p \in executed')
    <3>1. executed' \in MayHaveExecuted(p, outcome)
      BY <1>6 DEF executePayment
    <3>2. r.toStatus = "COMPLETED" => outcome = "SUCCESS"
      BY DEF Settlement, ResultingStatus, BankResult, thrownBankErrorResult
    <3> HIDE DEF r
    <3> QED
      BY <3>1, <3>2 DEF MayHaveExecuted
  <2> HIDE DEF r
  <2>6. \A u \in Tasks : u # t /\ pc[u] = "recording" => job[u].payment \in Payments
    BY DEF JobType
  <2> QED
    BY <2>1, <2>2, <2>3, <2>4, <2>5, <2>6, <2>7
<1>7. ASSUME NEW t \in Tasks, transitionProcessingPayment(t) PROVE ReplyInv'
  BY <1>7 DEF transitionProcessingPayment, Finish
<1>8. CASE Tick
  BY <1>8 DEF Tick, JobType
<1>9. CASE UNCHANGED vars
  BY <1>9
<1> QED
  BY StepCases, <1>1, <1>2, <1>3, <1>4, <1>5, <1>6, <1>7, <1>8, <1>9

\* A payment enters PENDING or RETRYING together with its outbox row.
LEMMA WaitingStep == TypeOK /\ ClaimInv /\ ReplyInv /\ WaitingInv /\ [Next]_vars => WaitingInv'
<1> SUFFICES ASSUME TypeOK, ClaimInv, ReplyInv, WaitingInv, [Next]_vars PROVE WaitingInv'
  OBVIOUS
<1> USE DEF WaitingInv, TypeOK, vars, stored, paymentRow, local, bank
<1>1. ASSUME NEW p \in Payments, createPaymentSubmission(p) PROVE WaitingInv'
  <2>1. outbox \subseteq outbox' /\ ProcessRequest(p) \in outbox'
    BY <1>1 DEF createPaymentSubmission
  <2>2. status' = [status EXCEPT ![p] = "PENDING"] /\ status[p] = NULL
    BY <1>1 DEF createPaymentSubmission
  <2>3. UNCHANGED <<attemptCount, nextRetryAt, answeredAt>>
    BY <1>1 DEF createPaymentSubmission
  <2> QED
    BY <2>1, <2>2, <2>3
<1>2. ASSUME NEW t \in Tasks, NEW request \in outbox, StartJob(t, request) PROVE WaitingInv'
  BY <1>2 DEF StartJob
<1>3. ASSUME NEW t \in Tasks, Finish(t), UNCHANGED <<stored, bank, now>> PROVE WaitingInv'
  BY <1>3
<1>4. ASSUME NEW t \in Tasks, ClaimRead(t) PROVE WaitingInv'
  BY <1>4 DEF ClaimRead
<1>5. ASSUME NEW t \in Tasks, claimPaymentAttempt(t) PROVE WaitingInv'
  <2>1. /\ job[t].payment \in Payments
        /\ outbox \subseteq outbox'
        /\ UNCHANGED answeredAt
    BY <1>5 DEF claimPaymentAttempt, JobType
  <2>2. /\ status' = [status EXCEPT ![job[t].payment] = "PROCESSING"]
        /\ attemptCount' = [attemptCount EXCEPT ![job[t].payment] = @ + 1]
        /\ nextRetryAt' = [nextRetryAt EXCEPT ![job[t].payment] = NULL]
    BY <1>5 DEF claimPaymentAttempt
  <2> QED
    BY <2>1, <2>2, NullAssumption DEF PaymentStatus
<1>6. ASSUME NEW t \in Tasks, NEW outcome \in BankOutcome, executePayment(t, outcome)
      PROVE  WaitingInv'
  <2>1. /\ job[t].payment \in Payments
        /\ status[job[t].payment] = "PROCESSING"
    BY <1>6 DEF executePayment, JobType, ClaimInv, ClaimExclusive, HoldsClaim
  <2>2. /\ answeredAt' = [answeredAt EXCEPT ![job[t].payment] = now]
        /\ UNCHANGED <<status, attemptCount, nextRetryAt, outbox>>
    BY <1>6 DEF executePayment
  <2> QED
    BY <2>1, <2>2, NullAssumption DEF PaymentStatus
<1>7. ASSUME NEW t \in Tasks, transitionProcessingPayment(t) PROVE WaitingInv'
  <2> DEFINE p == job[t].payment
  <2>1. /\ p \in Payments
        /\ reply[t] \in ReplyType
        /\ status[p] = "PROCESSING"
        /\ attemptCount[p] = AttemptNumber(t)
        /\ attemptCount[p] \in Nat \ {0}
    BY <1>7 DEF transitionProcessingPayment, JobType, RowType, AttemptNumber,
                ClaimInv, ClaimExclusive, HoldsClaim
  <2>2. TransitionMatches(t)
    BY <2>1 DEF TransitionMatches, isPaymentTransitionAllowed, allowedTransitions, ReplyType
  <2>3. /\ status' = [status EXCEPT ![p] = reply[t].toStatus]
        /\ nextRetryAt' = [nextRetryAt EXCEPT ![p] = reply[t].nextRetryAt]
        /\ outbox \subseteq outbox'
        /\ RetrySchedule(t) \subseteq outbox'
        /\ UNCHANGED <<attemptCount, answeredAt>>
    BY <1>7, <2>2 DEF transitionProcessingPayment
  <2>4. reply[t].toStatus = "RETRYING" =>
            /\ AttemptNumber(t) < MaxAttempts
            /\ reply[t].nextRetryAt = answeredAt[p] + calculateRetryDelay(AttemptNumber(t))
            /\ RetryRequest(p, AttemptNumber(t) + 1, reply[t].nextRetryAt) \in outbox'
    BY <1>7, <2>3 DEF transitionProcessingPayment, ReplyInv, RetrySchedule
  <2>5. /\ reply[t].toStatus \in {"COMPLETED", "FAILED", "RETRYING"}
        /\ reply[t].toStatus # NULL
    BY <2>1, NullAssumption DEF ReplyType, PaymentStatus
  <2>6. reply[t].toStatus = "RETRYING" => attemptCount[p] \in 1..(MaxAttempts - 1)
    BY <2>1, <2>4, MaxAttemptsAssumption
  <2>7. ASSUME NEW q \in Payments, q # p
        PROVE  /\ status'[q] = status[q]
               /\ attemptCount'[q] = attemptCount[q]
               /\ nextRetryAt'[q] = nextRetryAt[q]
               /\ answeredAt'[q] = answeredAt[q]
    BY <2>3, <2>7
  <2>8. /\ status'[p] = reply[t].toStatus
        /\ attemptCount'[p] = attemptCount[p]
        /\ nextRetryAt'[p] = reply[t].nextRetryAt
        /\ answeredAt'[p] = answeredAt[p]
    BY <2>1, <2>3
  <2> QED
    BY <2>1, <2>3, <2>4, <2>5, <2>6, <2>7, <2>8
<1>8. CASE Tick
  BY <1>8 DEF Tick
<1>9. CASE UNCHANGED vars
  BY <1>9
<1> QED
  BY StepCases, <1>1, <1>2, <1>3, <1>4, <1>5, <1>6, <1>7, <1>8, <1>9

\* Both hold in every reachable state.
LEMMA WaitingInvariant == Spec => [](ReplyInv /\ WaitingInv)
<1>1. Init => ReplyInv /\ WaitingInv
  BY NullAssumption DEF Init, ReplyInv, WaitingInv, PaymentStatus
<1> QED
  BY <1>1, TypeCorrect, ClaimInvariant, ReplyStep, WaitingStep, PTL DEF Spec

\* A payment that waits to be claimed always has an outbox row whose job,
\* once the retry time has come, passes every condition of the claim.
THEOREM WorkIsNeverLost == Spec => []WaitingPaymentHasTicket
<1>1. TypeOK /\ WaitingInv => WaitingPaymentHasTicket
  <2> SUFFICES ASSUME TypeOK, WaitingInv,
                      NEW p \in Payments, status[p] \in {"PENDING", "RETRYING"}
               PROVE  \E request \in outbox :
                        /\ request.type \in PaymentJobTypes
                        /\ request.payment = p
                        /\ \E at \in {now, nextRetryAt[p]} \ {NULL} :
                            MayClaim(Row(p), [payment |-> p,
                                              expectedAttemptNumber |-> request.number,
                                              claimedAt |-> at])
    BY DEF WaitingPaymentHasTicket
  <2> USE DEF MayClaim, IsInitialAttempt, IsDueRetry, Row, isPaymentTransitionAllowed,
              allowedTransitions, PaymentJobTypes, ProcessRequest, RetryRequest
  <2>1. CASE status[p] = "PENDING"
    <3> DEFINE request == ProcessRequest(p)
    <3>1. request \in outbox /\ attemptCount[p] = 0
      BY <2>1 DEF WaitingInv
    <3>2. now \in {now, nextRetryAt[p]} \ {NULL}
      <4>1. now \in Int
        BY DEF TypeOK
      <4> QED
        BY <4>1, NullAssumption
    <3>3. /\ request.type \in PaymentJobTypes
          /\ request.payment = p
          /\ request.number = NULL
      OBVIOUS
    <3>4. MayClaim(Row(p), [payment |-> p,
                            expectedAttemptNumber |-> request.number,
                            claimedAt |-> now])
      BY <2>1, <3>1, <3>3, MaxAttemptsAssumption
    <3> QED
      BY <3>1, <3>2, <3>3, <3>4
  <2>2. CASE status[p] = "RETRYING"
    <3> DEFINE request == RetryRequest(p, attemptCount[p] + 1, nextRetryAt[p])
    <3>1. /\ request \in outbox
          /\ attemptCount[p] \in 1..(MaxAttempts - 1)
          /\ nextRetryAt[p] = answeredAt[p] + calculateRetryDelay(attemptCount[p])
      BY <2>2 DEF WaitingInv
    <3>2. nextRetryAt[p] \in Int
      BY <3>1, RetryDelayType, MaxAttemptsAssumption DEF TypeOK
    <3>3. nextRetryAt[p] \in {now, nextRetryAt[p]} \ {NULL}
      BY <3>2, NullAssumption
    <3>4. MayClaim(Row(p), [payment |-> p,
                            expectedAttemptNumber |-> request.number,
                            claimedAt |-> nextRetryAt[p]])
      <4>1. request.number = attemptCount[p] + 1
        OBVIOUS
      <4>2. attemptCount[p] + 1 \in Int /\ attemptCount[p] + 1 <= MaxAttempts
        BY <3>1, MaxAttemptsAssumption
      <4> HIDE DEF request
      <4> QED
        BY <2>2, <3>2, <3>3, <4>1, <4>2
    <3>5. request.type \in PaymentJobTypes /\ request.payment = p
      OBVIOUS
    <3> QED
      BY <3>1, <3>3, <3>4, <3>5
  <2> QED
    BY <2>1, <2>2
<1> QED
  BY <1>1, TypeCorrect, WaitingInvariant, PTL

-----------------------------------------------------------------------------
(* What a step may never do                                                *)

\* Only a claim begins an attempt, and it found the retry time reached.
LEMMA RetryStep ==
    ASSUME TypeOK, ReplyInv, WaitingInv, [Next]_vars, NEW p \in Payments,
           status[p] = "RETRYING", status'[p] = "PROCESSING"
    PROVE  now >= answeredAt[p] + BaseDelay * 2^(attemptCount[p] - 1)
<1> USE DEF TypeOK, vars, stored, paymentRow, local, bank
<1>1. ASSUME NEW t \in Tasks, claimPaymentAttempt(t)
      PROVE  now >= nextRetryAt[p]
  <2>1. job[t].payment = p
    BY <1>1 DEF claimPaymentAttempt, JobType
  <2>2. nextRetryAt[p] # NULL /\ nextRetryAt[p] <= job[t].claimedAt
    BY <1>1, <2>1 DEF claimPaymentAttempt, ClaimMatches, Row
  <2>3. job[t].claimedAt <= now /\ job[t].claimedAt \in Int
    BY <1>1 DEF claimPaymentAttempt, ReplyInv, JobType
  <2> QED
    BY <2>2, <2>3
<1>2. ASSUME NEW t \in Tasks, transitionProcessingPayment(t) PROVE FALSE
  <2>1. reply[t] \in ReplyType
    BY <1>2 DEF transitionProcessingPayment
  <2>2. status' = status \/ status' = [status EXCEPT ![job[t].payment] = reply[t].toStatus]
    BY <1>2 DEF transitionProcessingPayment
  <2> QED
    BY <2>1, <2>2 DEF ReplyType
<1>3. \E t \in Tasks : claimPaymentAttempt(t)
  BY StepCases, <1>2 DEF createPaymentSubmission, StartJob, ClaimRead, executePayment, Tick
<1>4. now >= nextRetryAt[p]
  BY <1>1, <1>3
<1> QED
  BY <1>4 DEF WaitingInv, calculateRetryDelay

\* After the bank's answer to attempt n the next attempt begins only when the
\* backoff delay has passed.
THEOREM BackoffIsRespected == Spec => RetryWaitsForDelay
<1>1. TypeOK /\ ReplyInv /\ WaitingInv /\ [Next]_vars =>
        [\A p \in Payments : status[p] = "RETRYING" /\ status'[p] = "PROCESSING" =>
            now >= answeredAt[p] + BaseDelay * 2^(attemptCount[p] - 1)]_vars
  BY RetryStep
<1> QED
  BY <1>1, TypeCorrect, WaitingInvariant, PTL DEF Spec, RetryWaitsForDelay

\* No step touches a settled payment.
LEMMA TerminalStep ==
    ASSUME TypeOK, ClaimInv, [Next]_vars, NEW p \in Payments, status[p] \in Terminal
    PROVE  /\ UNCHANGED <<status[p], attemptCount[p], nextRetryAt[p], events[p]>>
           /\ calls'[p] = calls[p]
<1> USE DEF TypeOK, Terminal, vars, stored, paymentRow, local, bank
<1>1. ASSUME NEW q \in Payments, createPaymentSubmission(q)
      PROVE  /\ UNCHANGED <<status[p], attemptCount[p], nextRetryAt[p], events[p]>>
             /\ calls'[p] = calls[p]
  <2>1. q # p
    BY <1>1, NullAssumption DEF createPaymentSubmission, PaymentStatus
  <2> QED
    BY <1>1, <2>1 DEF createPaymentSubmission, RecordEvent
<1>2. ASSUME NEW t \in Tasks, claimPaymentAttempt(t)
      PROVE  /\ UNCHANGED <<status[p], attemptCount[p], nextRetryAt[p], events[p]>>
             /\ calls'[p] = calls[p]
  <2>1. job[t].payment # p
    BY <1>2 DEF claimPaymentAttempt, ClaimMatches, Row, ClaimInv, SnapshotClaimable
  <2> QED
    BY <1>2, <2>1 DEF claimPaymentAttempt, RecordEvent
<1>3. ASSUME NEW t \in Tasks, NEW outcome \in BankOutcome, executePayment(t, outcome)
      PROVE  /\ UNCHANGED <<status[p], attemptCount[p], nextRetryAt[p], events[p]>>
             /\ calls'[p] = calls[p]
  <2>1. job[t].payment # p
    BY <1>3 DEF executePayment, ClaimInv, ClaimExclusive, HoldsClaim
  <2> QED
    BY <1>3, <2>1 DEF executePayment
<1>4. ASSUME NEW t \in Tasks, transitionProcessingPayment(t)
      PROVE  /\ UNCHANGED <<status[p], attemptCount[p], nextRetryAt[p], events[p]>>
             /\ calls'[p] = calls[p]
  <2>1. job[t].payment # p
    BY <1>4 DEF transitionProcessingPayment, ClaimInv, ClaimExclusive, HoldsClaim
  <2> QED
    BY <1>4, <2>1 DEF transitionProcessingPayment, RecordEvent
<1> QED
  BY StepCases, <1>1, <1>2, <1>3, <1>4 DEF StartJob, ClaimRead, Tick

\* A settled payment never changes again and the bank is not called for it.
THEOREM SettledIsFinal == Spec => TerminalIsFinal
<1>1. TypeOK /\ ClaimInv /\ [Next]_vars =>
        [\A p \in Payments : status[p] \in Terminal =>
            /\ UNCHANGED <<status[p], attemptCount[p], nextRetryAt[p], events[p]>>
            /\ calls'[p] = calls[p]]_vars
  BY TerminalStep
<1> QED
  BY <1>1, TypeCorrect, ClaimInvariant, PTL DEF Spec, TerminalIsFinal

-----------------------------------------------------------------------------
(* The processor implements PaymentLifecycle. Claiming is Begin, calling   *)
(* the bank is Instruct, recording the result is Settle; the steps that    *)
(* only move a task or the clock are stuttering.                           *)

\* The step theorem of the refinement.
LEMMA LifecycleStep ==
    TypeOK /\ ClaimInv /\ BankCalledOncePerAttempt /\ ReplyInv /\ [Next]_vars
        => [Lifecycle!Next]_(Lifecycle!vars)
<1> SUFFICES ASSUME TypeOK, ClaimInv, BankCalledOncePerAttempt, ReplyInv, [Next]_vars
             PROVE  [Lifecycle!Next]_(Lifecycle!vars)
  OBVIOUS
<1> USE DEF vars, stored, paymentRow, local, bank, Lifecycle!vars
<1>1. ASSUME NEW p \in Payments, createPaymentSubmission(p) PROVE Lifecycle!Submit(p)
  BY <1>1 DEF createPaymentSubmission, Lifecycle!Submit
<1>2. ASSUME NEW t \in Tasks, claimPaymentAttempt(t)
      PROVE  job[t].payment \in Payments /\ Lifecycle!Begin(job[t].payment)
  <2>1. /\ job[t].payment \in Payments
        /\ snapshot[t].attemptCount \in Nat
    BY <1>2 DEF claimPaymentAttempt, TypeOK, JobType, RowType
  <2>2. /\ status[job[t].payment] \in {"PENDING", "RETRYING"}
        /\ attemptCount[job[t].payment] = snapshot[t].attemptCount
        /\ snapshot[t].attemptCount + 1 <= MaxAttempts
    BY <1>2 DEF claimPaymentAttempt, ClaimMatches, Row, ClaimInv, SnapshotClaimable,
                AttemptNumber
  <2> QED
    BY <1>2, <2>1, <2>2, MaxAttemptsAssumption DEF claimPaymentAttempt, Lifecycle!Begin
<1>3. ASSUME NEW t \in Tasks, NEW outcome \in BankOutcome, executePayment(t, outcome)
      PROVE  job[t].payment \in Payments /\ Lifecycle!Instruct(job[t].payment)
  <2> DEFINE p == job[t].payment
  <2>1. /\ p \in Payments
        /\ status[p] = "PROCESSING"
        /\ calls[p] = attemptCount[p] - 1
        /\ attemptCount[p] \in Nat
    BY <1>3 DEF executePayment, TypeOK, JobType, ClaimInv, ClaimExclusive, HoldsClaim,
                BankCalledOncePerAttempt
  <2>2. executed' \in {executed, executed \cup {p}}
    BY <1>3 DEF executePayment, MayHaveExecuted
  <2> QED
    BY <1>3, <2>1, <2>2 DEF executePayment, Lifecycle!Instruct
<1>4. ASSUME NEW t \in Tasks, transitionProcessingPayment(t)
      PROVE  job[t].payment \in Payments /\ Lifecycle!Settle(job[t].payment)
  <2> DEFINE p == job[t].payment
             to == reply[t].toStatus
  <2>1. /\ p \in Payments
        /\ to \in {"COMPLETED", "FAILED", "RETRYING"}
        /\ snapshot[t].attemptCount \in Nat
    BY <1>4 DEF transitionProcessingPayment, TypeOK, JobType, ReplyType, RowType
  <2>2. /\ status[p] = "PROCESSING"
        /\ attemptCount[p] = AttemptNumber(t)
        /\ calls[p] = attemptCount[p]
    BY <1>4, <2>1 DEF transitionProcessingPayment, ClaimInv, ClaimExclusive, HoldsClaim,
                      BankCalledOncePerAttempt
  <2>3. /\ to = "COMPLETED" => p \in executed
        /\ to = "RETRYING" => attemptCount[p] < MaxAttempts
    BY <1>4, <2>2 DEF transitionProcessingPayment, ReplyInv
  <2>4. TransitionMatches(t)
    BY <2>1, <2>2 DEF TransitionMatches, isPaymentTransitionAllowed, allowedTransitions
  <2>5. /\ status' = [status EXCEPT ![p] = to]
        /\ UNCHANGED <<attemptCount, calls, executed>>
    BY <1>4, <2>4 DEF transitionProcessingPayment
  <2>6. calls[p] = attemptCount[p] /\ status[p] = "PROCESSING"
    BY <2>2
  <2> HIDE DEF to
  <2> QED
    BY <2>1, <2>3, <2>5, <2>6 DEF Lifecycle!Settle
<1> QED
  BY StepCases, <1>1, <1>2, <1>3, <1>4
     DEF Lifecycle!Next, StartJob, ClaimRead, Tick

\* Whatever the queue delivers and whatever crashes, the payments go through
\* the lifecycle the service promises.
THEOREM ProcessorImplementsLifecycle == Spec => ImplementsLifecycle
<1>1. Init => Lifecycle!Init
  BY DEF Init, Lifecycle!Init
<1>2. TypeOK /\ ClaimInv /\ BankCalledOncePerAttempt /\ ReplyInv /\ [Next]_vars
        => [Lifecycle!Next]_(Lifecycle!vars)
  BY LifecycleStep
<1> QED
  BY <1>1, <1>2, TypeCorrect, ClaimInvariant, BankCalledOnce, WaitingInvariant, PTL
     DEF Spec, ImplementsLifecycle, Lifecycle!Spec

-----------------------------------------------------------------------------
(* Completion and the audit trail                                          *)

\* Only a task that heard of success writes COMPLETED.
LEMMA CompletedStep ==
    TypeOK /\ ReplyInv /\ CompletedMeansExecuted /\ [Next]_vars => CompletedMeansExecuted'
<1> SUFFICES ASSUME TypeOK, ReplyInv, CompletedMeansExecuted, [Next]_vars,
                    NEW p \in Payments, status'[p] = "COMPLETED"
             PROVE  p \in executed'
  BY DEF CompletedMeansExecuted
<1> USE DEF TypeOK, vars, stored, paymentRow, local, bank
<1>1. executed \subseteq executed'
  BY StepCases DEF createPaymentSubmission, StartJob, ClaimRead, claimPaymentAttempt,
       executePayment, MayHaveExecuted, transitionProcessingPayment, Tick
<1>2. CASE status[p] = "COMPLETED"
  BY <1>1, <1>2 DEF CompletedMeansExecuted
<1>3. CASE status[p] # "COMPLETED"
  <2>1. PICK t \in Tasks : transitionProcessingPayment(t)
    BY <1>3, StepCases DEF createPaymentSubmission, StartJob, ClaimRead,
         claimPaymentAttempt, executePayment, Tick
  <2>2. job[t].payment = p /\ reply[t].toStatus = "COMPLETED" /\ pc[t] = "recording"
    BY <1>3, <2>1 DEF transitionProcessingPayment
  <2> QED
    BY <1>1, <2>2 DEF ReplyInv
<1> QED
  BY <1>2, <1>3

\* A payment is COMPLETED only if the bank executed it.
THEOREM CompletionIsTruthful == Spec => []CompletedMeansExecuted
<1>1. Init => CompletedMeansExecuted
  BY NullAssumption DEF Init, CompletedMeansExecuted, PaymentStatus
<1> QED
  BY <1>1, TypeCorrect, WaitingInvariant, CompletedStep, PTL DEF Spec

\* One payment's part of the audit trail invariant.
Trail(p) ==
    /\ events[p] = <<>> <=> status[p] = NULL
    /\ events[p] # <<>> => /\ events[p][1] = PaymentEvent(NULL, "PENDING")
                           /\ events[p][Len(events[p])].toStatus = status[p]
    /\ \A i \in 2..Len(events[p]) :
        /\ events[p][i].fromStatus = events[p][i - 1].toStatus
        /\ isPaymentTransitionAllowed(events[p][i].fromStatus, events[p][i].toStatus)
    /\ \A i \in 1..Len(events[p]) : WebhookRequest(p, i) \in outbox

\* A transition the state machine allows, recorded with its webhook request,
\* prolongs the trail.
LEMMA TrailExtended ==
    ASSUME TypeOK, NEW p \in Payments, Trail(p), status[p] # NULL, NEW to \in PaymentStatus,
           isPaymentTransitionAllowed(status[p], to),
           events'[p] = Append(events[p], PaymentEvent(status[p], to)),
           status'[p] = to, outbox \subseteq outbox',
           WebhookRequest(p, Len(events[p]) + 1) \in outbox'
    PROVE  Trail(p)'
<1> DEFINE old == events[p]
           new == events'[p]
<1>1. old \in Seq(EventType) /\ old # <<>> /\ Len(old) \in Nat \ {0}
  BY DEF TypeOK, Trail
<1>2. PaymentEvent(status[p], to) \in EventType
  BY DEF PaymentEvent, EventType, TypeOK
<1>3. /\ new \in Seq(EventType)
      /\ Len(new) = Len(old) + 1
      /\ \A i \in 1..Len(old) : new[i] = old[i]
      /\ new[Len(old) + 1] = PaymentEvent(status[p], to)
  BY <1>1, <1>2
<1>4. to # NULL /\ new # <<>>
  BY <1>1, <1>3, NullAssumption
<1>5. new[1] = PaymentEvent(NULL, "PENDING") /\ new[Len(new)].toStatus = to
  BY <1>1, <1>3 DEF Trail, PaymentEvent
<1>6. ASSUME NEW i \in 2..Len(new)
      PROVE  /\ new[i].fromStatus = new[i - 1].toStatus
             /\ isPaymentTransitionAllowed(new[i].fromStatus, new[i].toStatus)
  <2>1. CASE i \in 2..Len(old)
    BY <1>1, <1>3, <2>1 DEF Trail
  <2>2. CASE i = Len(old) + 1
    <3>1. new[i] = PaymentEvent(status[p], to) /\ new[i - 1] = old[Len(old)]
      BY <1>1, <1>3, <2>2
    <3> QED
      BY <1>1, <3>1 DEF Trail, PaymentEvent
  <2> QED
    BY <1>1, <1>3, <2>1, <2>2
<1>7. ASSUME NEW i \in 1..Len(new) PROVE WebhookRequest(p, i) \in outbox'
  <2>1. CASE i \in 1..Len(old)
    BY <2>1 DEF Trail
  <2>2. CASE i = Len(old) + 1
    BY <2>2
  <2> QED
    BY <1>1, <1>3, <2>1, <2>2
<1> QED
  BY <1>4, <1>5, <1>6, <1>7 DEF Trail, WebhookRequest, PaymentEvent,
     isPaymentTransitionAllowed, allowedTransitions

\* Every step keeps every payment's trail.
LEMMA TrailStep ==
    ASSUME TypeOK, ClaimInv, [Next]_vars, NEW p \in Payments, Trail(p)
    PROVE  Trail(p)'
<1> USE DEF vars, stored, paymentRow, local, bank
<1>1. ASSUME events'[p] = events[p], status'[p] = status[p], outbox \subseteq outbox'
      PROVE  Trail(p)'
  BY <1>1 DEF Trail, WebhookRequest, PaymentEvent, isPaymentTransitionAllowed,
              allowedTransitions
<1>2. ASSUME NEW q \in Payments, createPaymentSubmission(q) PROVE Trail(p)'
  <2>1. CASE q = p
    <3>1. events[p] = <<>>
      BY <1>2, <2>1 DEF createPaymentSubmission, Trail
    <3>2. /\ events'[p] = <<PaymentEvent(NULL, "PENDING")>>
          /\ status'[p] = "PENDING"
          /\ WebhookRequest(p, 1) \in outbox'
      BY <1>2, <2>1, <3>1 DEF createPaymentSubmission, RecordEvent, TypeOK,
           createWebhookDeliveriesOutboxEvent
    <3>3. status'[p] # NULL
      BY <3>2, NullAssumption DEF PaymentStatus
    <3> QED
      BY <3>2, <3>3 DEF Trail, PaymentEvent, WebhookRequest
  <2>2. CASE q # p
    BY <1>1, <1>2, <2>2 DEF createPaymentSubmission, RecordEvent, TypeOK
  <2> QED
    BY <2>1, <2>2
<1>3. ASSUME NEW t \in Tasks, claimPaymentAttempt(t) PROVE Trail(p)'
  <2>1. CASE job[t].payment = p
    <3>1. /\ status[p] = snapshot[t].status
          /\ status[p] \in {"PENDING", "RETRYING"}
      BY <1>3, <2>1 DEF claimPaymentAttempt, ClaimMatches, Row, ClaimInv, SnapshotClaimable
    <3>2. /\ status'[p] = "PROCESSING"
          /\ events'[p] = Append(events[p], PaymentEvent(status[p], "PROCESSING"))
          /\ outbox \subseteq outbox'
          /\ WebhookRequest(p, Len(events[p]) + 1) \in outbox'
      BY <1>3, <2>1, <3>1 DEF claimPaymentAttempt, RecordEvent, TypeOK,
           createWebhookDeliveriesOutboxEvent
    <3>3. /\ status[p] # NULL
          /\ "PROCESSING" \in PaymentStatus
          /\ isPaymentTransitionAllowed(status[p], "PROCESSING")
      BY <3>1, NullAssumption DEF PaymentStatus, isPaymentTransitionAllowed, allowedTransitions
    <3> QED
      BY <3>2, <3>3, TrailExtended
  <2>2. CASE job[t].payment # p
    BY <1>1, <1>3, <2>2 DEF claimPaymentAttempt, RecordEvent, TypeOK
  <2> QED
    BY <2>1, <2>2
<1>4. ASSUME NEW t \in Tasks, transitionProcessingPayment(t) PROVE Trail(p)'
  <2>1. CASE job[t].payment = p /\ TransitionMatches(t)
    <3> DEFINE to == reply[t].toStatus
    <3>1. /\ status[p] = "PROCESSING"
          /\ isPaymentTransitionAllowed(status[p], to)
      BY <2>1 DEF TransitionMatches
    <3>2. to \in PaymentStatus
      BY <1>4 DEF transitionProcessingPayment, TypeOK, ReplyType, PaymentStatus
    <3>3. /\ status'[p] = to
          /\ events'[p] = Append(events[p], PaymentEvent(status[p], to))
          /\ outbox \subseteq outbox'
          /\ WebhookRequest(p, Len(events[p]) + 1) \in outbox'
      BY <1>4, <2>1, <3>1 DEF transitionProcessingPayment, RecordEvent, TypeOK,
           createWebhookDeliveriesOutboxEvent
    <3>4. status[p] # NULL
      BY <3>1, NullAssumption DEF PaymentStatus
    <3> HIDE DEF to
    <3> QED
      BY <3>1, <3>2, <3>3, <3>4, TrailExtended
  <2>2. CASE job[t].payment # p \/ ~TransitionMatches(t)
    <3>1. /\ events'[p] = events[p]
          /\ status'[p] = status[p]
          /\ outbox \subseteq outbox'
      <4>1. CASE ~TransitionMatches(t)
        BY <1>4, <4>1 DEF transitionProcessingPayment
      <4>2. CASE TransitionMatches(t) /\ job[t].payment # p
        BY <1>4, <4>2 DEF transitionProcessingPayment, RecordEvent, TypeOK
      <4> QED
        BY <2>2, <4>1, <4>2
    <3> QED
      BY <1>1, <3>1
  <2> QED
    BY <2>1, <2>2
<1> QED
  BY StepCases, <1>1, <1>2, <1>3, <1>4 DEF StartJob, ClaimRead, executePayment, Tick

\* The audit trail tells every payment's whole history, and every event has
\* its webhook request.
THEOREM AuditTrailIsComplete == Spec => []AuditTrailComplete
<1>1. AuditTrailComplete <=> \A p \in Payments : Trail(p)
  BY DEF AuditTrailComplete, Trail
<1>2. Init => \A p \in Payments : Trail(p)
  BY DEF Init, Trail
<1>3. TypeOK /\ ClaimInv /\ (\A p \in Payments : Trail(p)) /\ [Next]_vars
        => (\A p \in Payments : Trail(p))'
  BY TrailStep
<1> QED
  BY <1>1, <1>2, <1>3, TypeCorrect, ClaimInvariant, PTL DEF Spec

-----------------------------------------------------------------------------
(* Requests and stale reads: which attempts the outbox may ask for, and    *)
(* what the row a task has read tells about the row as it is now. A job    *)
(* that finds nothing to claim is then not the one its payment waits for.  *)

RequestFits(r) ==
    /\ r.type = "PAYMENT_PROCESS_REQUESTED" =>
        r.number = NULL /\ status[r.payment] # NULL
    /\ r.type = "PAYMENT_RETRY_REQUESTED" =>
        /\ r.number \in 2..MaxAttempts
        /\ r.number <= attemptCount[r.payment] + 1
        /\ r.number = attemptCount[r.payment] + 1 => status[r.payment] = "RETRYING"

RequestsInv == \A r \in outbox : RequestFits(r)

\* A retry row read by a claim is still the row, or its attempt was begun.
SnapshotFits(t) ==
    /\ job[t].expectedAttemptNumber \in {NULL, AttemptNumber(t)}
    /\ snapshot[t].status = "RETRYING" =>
        /\ job[t].expectedAttemptNumber = AttemptNumber(t)
        /\ snapshot[t].nextRetryAt # NULL
        /\ snapshot[t].nextRetryAt <= job[t].claimedAt
        /\ attemptCount[job[t].payment] >= snapshot[t].attemptCount
        /\ attemptCount[job[t].payment] = snapshot[t].attemptCount =>
            /\ status[job[t].payment] = "RETRYING"
            /\ nextRetryAt[job[t].payment] = snapshot[t].nextRetryAt

SnapshotsInv == \A t \in Tasks : pc[t] = "claimable" => SnapshotFits(t)

\* The rows of a transition: the event's, and a retry's.
LEMMA TransitionEffect ==
    ASSUME TypeOK, ClaimInv, ReplyInv, NEW t \in Tasks, transitionProcessingPayment(t)
    PROVE  /\ job[t].payment \in Payments
           /\ reply[t].toStatus \in {"COMPLETED", "FAILED", "RETRYING"}
           /\ status[job[t].payment] = "PROCESSING"
           /\ attemptCount[job[t].payment] = AttemptNumber(t)
           /\ AttemptNumber(t) \in Nat \ {0}
           /\ status' = [status EXCEPT ![job[t].payment] = reply[t].toStatus]
           /\ nextRetryAt' = [nextRetryAt EXCEPT ![job[t].payment] = reply[t].nextRetryAt]
           /\ events' = [events EXCEPT ![job[t].payment] =
                            Append(@, PaymentEvent("PROCESSING", reply[t].toStatus))]
           /\ outbox' = outbox \cup {createWebhookDeliveriesOutboxEvent(job[t].payment)}
                               \cup RetrySchedule(t)
           /\ UNCHANGED <<attemptCount, calls, answeredAt>>
           /\ reply[t].toStatus = "RETRYING" => AttemptNumber(t) < MaxAttempts
<1>1. /\ job[t].payment \in Payments
      /\ reply[t] \in ReplyType
      /\ status[job[t].payment] = "PROCESSING"
      /\ attemptCount[job[t].payment] = AttemptNumber(t)
      /\ AttemptNumber(t) \in Nat \ {0}
  BY DEF transitionProcessingPayment, TypeOK, JobType, RowType, AttemptNumber, ClaimInv,
         ClaimExclusive, HoldsClaim
<1>2. TransitionMatches(t)
  BY <1>1 DEF TransitionMatches, isPaymentTransitionAllowed, allowedTransitions, ReplyType
<1>3. reply[t].toStatus = "RETRYING" => AttemptNumber(t) < MaxAttempts
  BY DEF transitionProcessingPayment, ReplyInv
<1> QED
  BY <1>1, <1>2, <1>3 DEF transitionProcessingPayment, ReplyType, RecordEvent, bank

\* A request that fits goes on fitting.
LEMMA RequestKept ==
    ASSUME TypeOK, ClaimInv, ReplyInv, [Next]_vars, NEW r \in outbox, RequestFits(r)
    PROVE  RequestFits(r)'
<1> USE DEF TypeOK, RequestFits, vars, stored, paymentRow, local, bank
<1>0. r.payment \in Payments
  BY DEF OutboxRow
<1>1. ASSUME NEW p \in Payments, createPaymentSubmission(p) PROVE RequestFits(r)'
  <2>1. /\ status' = [status EXCEPT ![p] = "PENDING"] /\ status[p] = NULL
        /\ UNCHANGED attemptCount
    BY <1>1 DEF createPaymentSubmission
  <2> QED
    BY <1>0, <2>1, NullAssumption DEF PaymentStatus
<1>2. ASSUME NEW t \in Tasks, claimPaymentAttempt(t) PROVE RequestFits(r)'
  <2>1. /\ job[t].payment \in Payments
        /\ status' = [status EXCEPT ![job[t].payment] = "PROCESSING"]
        /\ attemptCount' = [attemptCount EXCEPT ![job[t].payment] = @ + 1]
    BY <1>2 DEF claimPaymentAttempt, JobType
  <2>2. status'[r.payment] # NULL <=> r.payment = job[t].payment \/ status[r.payment] # NULL
    BY <1>0, <2>1, NullAssumption DEF PaymentStatus
  <2>3. ASSUME r.number \in 2..MaxAttempts, r.number <= attemptCount[r.payment] + 1,
               r.payment = job[t].payment
        PROVE  /\ r.number <= attemptCount'[r.payment] + 1
               /\ r.number # attemptCount'[r.payment] + 1
    BY <1>0, <2>1, <2>3, MaxAttemptsAssumption
  <2>4. CASE r.payment = job[t].payment
    BY <2>2, <2>3, <2>4
  <2>5. CASE r.payment # job[t].payment
    BY <1>0, <2>1, <2>5
  <2> QED
    BY <2>4, <2>5
<1>3. ASSUME NEW t \in Tasks, transitionProcessingPayment(t) PROVE RequestFits(r)'
  <2>1. /\ job[t].payment \in Payments
        /\ reply[t].toStatus \in PaymentStatus
        /\ status[job[t].payment] = "PROCESSING"
        /\ status' = [status EXCEPT ![job[t].payment] = reply[t].toStatus]
        /\ UNCHANGED attemptCount
    BY <1>3, TransitionEffect DEF PaymentStatus
  <2>2. CASE r.payment = job[t].payment
    BY <1>0, <2>1, <2>2, NullAssumption
  <2>3. CASE r.payment # job[t].payment
    BY <1>0, <2>1, <2>3
  <2> QED
    BY <2>2, <2>3
<1>4. ASSUME UNCHANGED <<status, attemptCount>> PROVE RequestFits(r)'
  BY <1>4
<1> QED
  BY StepCases, <1>1, <1>2, <1>3, <1>4 DEF StartJob, ClaimRead, executePayment, Tick

\* Each request fits when it is written, and from then on.
LEMMA RequestsStep ==
    TypeOK /\ ClaimInv /\ ReplyInv /\ RequestsInv /\ [Next]_vars => RequestsInv'
<1> SUFFICES ASSUME TypeOK, ClaimInv, ReplyInv, RequestsInv, [Next]_vars,
                    NEW r \in outbox'
             PROVE  RequestFits(r)'
  BY DEF RequestsInv
<1>1. CASE r \in outbox
  BY <1>1, RequestKept DEF RequestsInv
<1>2. ASSUME r \notin outbox, NEW p \in Payments, createPaymentSubmission(p)
      PROVE  RequestFits(r)'
  <2>1. r \in {createWebhookDeliveriesOutboxEvent(p), ProcessRequest(p)}
    BY <1>2 DEF createPaymentSubmission
  <2>2. status'[p] = "PENDING"
    BY <1>2 DEF createPaymentSubmission, TypeOK
  <2> QED
    BY <2>1, <2>2, NullAssumption
       DEF RequestFits, createWebhookDeliveriesOutboxEvent, WebhookRequest, ProcessRequest,
           PaymentStatus
<1>3. ASSUME r \notin outbox, NEW t \in Tasks, claimPaymentAttempt(t) PROVE RequestFits(r)'
  BY <1>3 DEF claimPaymentAttempt, RequestFits, createWebhookDeliveriesOutboxEvent,
              WebhookRequest
<1>4. ASSUME r \notin outbox, NEW t \in Tasks, transitionProcessingPayment(t)
      PROVE  RequestFits(r)'
  <2> DEFINE p == job[t].payment
  <2>1. r = createWebhookDeliveriesOutboxEvent(p) \/ r \in RetrySchedule(t)
    BY <1>4, TransitionEffect
  <2>2. CASE r = createWebhookDeliveriesOutboxEvent(p)
    BY <2>2 DEF RequestFits, createWebhookDeliveriesOutboxEvent, WebhookRequest
  <2>3. CASE r \in RetrySchedule(t)
    <3>1. /\ reply[t].toStatus = "RETRYING"
          /\ r = RetryRequest(p, AttemptNumber(t) + 1, reply[t].nextRetryAt)
      BY <2>3 DEF RetrySchedule
    <3>2. /\ p \in Payments
          /\ AttemptNumber(t) \in Nat \ {0} /\ AttemptNumber(t) < MaxAttempts
          /\ attemptCount'[p] = AttemptNumber(t)
          /\ status'[p] = "RETRYING"
      BY <1>4, <3>1, TransitionEffect DEF TypeOK
    <3>3. /\ r.type = "PAYMENT_RETRY_REQUESTED"
          /\ r.payment = p
          /\ r.number = AttemptNumber(t) + 1
      BY <3>1 DEF RetryRequest
    <3> QED
      BY <3>2, <3>3, MaxAttemptsAssumption DEF RequestFits
  <2> QED
    BY <2>1, <2>2, <2>3
<1>5. ASSUME UNCHANGED outbox PROVE r \in outbox
  BY <1>5
<1> QED
  BY StepCases, <1>1, <1>2, <1>3, <1>4, <1>5
     DEF StartJob, ClaimRead, executePayment, Tick, vars, stored

\* What was read goes stale only by a claim of the attempt it is about.
LEMMA SnapshotsStep ==
    TypeOK /\ ClaimInv /\ ReplyInv /\ SnapshotsInv /\ [Next]_vars => SnapshotsInv'
<1> SUFFICES ASSUME TypeOK, ClaimInv, ReplyInv, SnapshotsInv, [Next]_vars,
                    NEW u \in Tasks, pc'[u] = "claimable"
             PROVE  SnapshotFits(u)'
  BY DEF SnapshotsInv
<1> USE DEF TypeOK, SnapshotFits, AttemptNumber, vars, stored, paymentRow, local, bank
<1> DEFINE q == job[u].payment
\* A task that stays where it is keeps what it has read.
<1>0. ASSUME pc[u] = "claimable", job'[u] = job[u], snapshot'[u] = snapshot[u],
             \/ attemptCount'[q] = attemptCount[q] /\ status'[q] = status[q]
                    /\ nextRetryAt'[q] = nextRetryAt[q]
             \/ attemptCount'[q] = attemptCount[q] + 1
             \/ attemptCount'[q] = attemptCount[q] /\ status[q] # "RETRYING"
      PROVE  SnapshotFits(u)'
  <2>1. /\ SnapshotFits(u)
        /\ q \in Payments
        /\ snapshot[u].attemptCount \in Nat
        /\ attemptCount[q] \in Nat
    BY <1>0 DEF SnapshotsInv, JobType, RowType
  <2> QED
    BY <1>0, <2>1
<1>1. ASSUME NEW p \in Payments, createPaymentSubmission(p) PROVE SnapshotFits(u)'
  <2>1. /\ pc[u] = "claimable" /\ job'[u] = job[u] /\ snapshot'[u] = snapshot[u]
        /\ attemptCount' = attemptCount /\ nextRetryAt' = nextRetryAt
        /\ status' = [status EXCEPT ![p] = "PENDING"] /\ status[p] = NULL
    BY <1>1 DEF createPaymentSubmission
  <2>2. q \in Payments
    BY <2>1 DEF JobType
  <2> QED
    BY <1>0, <2>1, <2>2, NullAssumption DEF PaymentStatus
<1>2. ASSUME NEW t \in Tasks, NEW request \in outbox, StartJob(t, request)
      PROVE  SnapshotFits(u)'
  BY <1>0, <1>2 DEF StartJob
<1>3. ASSUME NEW t \in Tasks, Finish(t), UNCHANGED <<stored, bank, now>>
      PROVE  SnapshotFits(u)'
  BY <1>0, <1>3 DEF Finish
<1>4. ASSUME NEW t \in Tasks, ClaimRead(t) PROVE SnapshotFits(u)'
  <2>1. CASE u = t
    <3>1. /\ q \in Payments
          /\ job' = job
          /\ snapshot'[u] = Row(q)
          /\ MayClaim(Row(q), job[u])
          /\ UNCHANGED <<status, attemptCount, nextRetryAt>>
      BY <1>4, <2>1 DEF ClaimRead, JobType
    <3>2. /\ Row(q).status = status[q]
          /\ Row(q).attemptCount = attemptCount[q]
          /\ Row(q).nextRetryAt = nextRetryAt[q]
          /\ attemptCount[q] \in Nat
      BY <3>1 DEF Row
    <3>3. /\ job[u].expectedAttemptNumber \in {NULL, attemptCount[q] + 1}
          /\ status[q] = "RETRYING" =>
                /\ job[u].expectedAttemptNumber = attemptCount[q] + 1
                /\ nextRetryAt[q] # NULL
                /\ nextRetryAt[q] <= job[u].claimedAt
      BY <3>1, <3>2 DEF MayClaim, IsInitialAttempt, IsDueRetry
    <3> QED
      BY <3>1, <3>2, <3>3
  <2>2. CASE u # t
    BY <1>0, <1>4, <2>2 DEF ClaimRead
  <2> QED
    BY <2>1, <2>2
<1>5. ASSUME NEW t \in Tasks, claimPaymentAttempt(t) PROVE SnapshotFits(u)'
  <2>1. /\ u # t /\ pc[u] = "claimable" /\ job'[u] = job[u] /\ snapshot'[u] = snapshot[u]
        /\ job[t].payment \in Payments
        /\ attemptCount' = [attemptCount EXCEPT ![job[t].payment] = @ + 1]
        /\ status' = [status EXCEPT ![job[t].payment] = "PROCESSING"]
        /\ nextRetryAt' = [nextRetryAt EXCEPT ![job[t].payment] = NULL]
    BY <1>5 DEF claimPaymentAttempt, JobType
  <2>2. q \in Payments
    BY <2>1 DEF JobType
  <2> QED
    BY <1>0, <2>1, <2>2
<1>6. ASSUME NEW t \in Tasks, NEW outcome \in BankOutcome, executePayment(t, outcome)
      PROVE  SnapshotFits(u)'
  BY <1>0, <1>6 DEF executePayment
<1>7. ASSUME NEW t \in Tasks, transitionProcessingPayment(t) PROVE SnapshotFits(u)'
  <2>1. /\ job[t].payment \in Payments
        /\ status[job[t].payment] = "PROCESSING"
        /\ status' = [status EXCEPT ![job[t].payment] = reply[t].toStatus]
        /\ nextRetryAt' = [nextRetryAt EXCEPT ![job[t].payment] = reply[t].nextRetryAt]
        /\ UNCHANGED attemptCount
    BY <1>7, TransitionEffect
  <2>2. u # t /\ pc[u] = "claimable" /\ job'[u] = job[u] /\ snapshot'[u] = snapshot[u]
    BY <1>7 DEF transitionProcessingPayment, Finish
  <2>3. q \in Payments
    BY <2>2 DEF JobType
  <2> QED
    BY <1>0, <2>1, <2>2, <2>3
<1>8. CASE Tick
  BY <1>0, <1>8 DEF Tick
<1>9. CASE UNCHANGED vars
  BY <1>0, <1>9
<1> QED
  BY StepCases, <1>1, <1>2, <1>3, <1>4, <1>5, <1>6, <1>7, <1>8, <1>9

\* Both hold in every reachable state.
LEMMA RequestsInvariant == Spec => [](RequestsInv /\ SnapshotsInv)
<1>1. Init => RequestsInv /\ SnapshotsInv
  BY DEF Init, RequestsInv, SnapshotsInv
<1> QED
  BY <1>1, TypeCorrect, ClaimInvariant, WaitingInvariant, RequestsStep, SnapshotsStep, PTL
     DEF Spec

\* The number of the job that a waiting payment waits for.
TicketNumber(p) == IF status[p] = "PENDING" THEN NULL ELSE attemptCount[p] + 1

\* The job a payment waits for is neither refused nor, once it has read the
\* row, too late: it claims the attempt or finds that its time is still to come.
LEMMA TicketClaims ==
    ASSUME TypeOK, ClaimInv, WaitingInv, SnapshotsInv, NEW t \in Tasks,
           status[job[t].payment] \in {"PENDING", "RETRYING"},
           job[t].expectedAttemptNumber = TicketNumber(job[t].payment)
    PROVE  ~ClaimRefused(t) /\ ~ClaimLost(t)
<1> DEFINE p == job[t].payment
<1>1. ASSUME pc[t] \in {"claiming", "claimable"}
      PROVE  /\ p \in Payments
             /\ attemptCount[p] \in Nat
             /\ status[p] = "PENDING" => attemptCount[p] = 0
             /\ status[p] = "RETRYING" =>
                    /\ attemptCount[p] \in 1..(MaxAttempts - 1)
                    /\ nextRetryAt[p] \in Int
             /\ job[t].claimedAt \in Int
  <2>1. p \in Payments /\ job[t].claimedAt \in Int
    BY <1>1 DEF TypeOK, JobType
  <2>2. status[p] = "RETRYING" =>
            /\ attemptCount[p] \in 1..(MaxAttempts - 1)
            /\ nextRetryAt[p] = answeredAt[p] + calculateRetryDelay(attemptCount[p])
    BY <2>1 DEF WaitingInv
  <2>3. status[p] = "RETRYING" => nextRetryAt[p] \in Int
    BY <2>1, <2>2, RetryDelayType, MaxAttemptsAssumption DEF TypeOK
  <2> QED
    BY <2>1, <2>2, <2>3 DEF TypeOK, WaitingInv
<1>2. ASSUME ClaimRefused(t) PROVE FALSE
  <2>1. /\ pc[t] = "claiming"
        /\ ~IsNotDue(Row(p), job[t])
        /\ ~MayClaim(Row(p), job[t])
    BY <1>2 DEF ClaimRefused
  <2>2. /\ Row(p).status = status[p]
        /\ Row(p).attemptCount = attemptCount[p]
        /\ Row(p).nextRetryAt = nextRetryAt[p]
    BY DEF Row
  <2>3. isPaymentTransitionAllowed(status[p], "PROCESSING")
    BY DEF isPaymentTransitionAllowed, allowedTransitions
  <2>4. CASE status[p] = "PENDING"
    <3>1. job[t].expectedAttemptNumber = NULL
      BY <2>4 DEF TicketNumber
    <3>2. MayClaim(Row(p), job[t])
      BY <1>1, <2>1, <2>2, <2>3, <2>4, <3>1, MaxAttemptsAssumption
         DEF MayClaim, IsInitialAttempt
    <3> QED
      BY <2>1, <3>2
  <2>5. CASE status[p] = "RETRYING"
    <3>1. /\ job[t].expectedAttemptNumber = attemptCount[p] + 1
          /\ nextRetryAt[p] # NULL
          /\ attemptCount[p] + 1 <= MaxAttempts /\ attemptCount[p] < MaxAttempts
      BY <1>1, <2>1, <2>5, NullAssumption, MaxAttemptsAssumption DEF TicketNumber
    <3>2. CASE nextRetryAt[p] <= job[t].claimedAt
      BY <2>1, <2>2, <2>3, <2>5, <3>1, <3>2 DEF MayClaim, IsDueRetry
    <3>3. CASE nextRetryAt[p] > job[t].claimedAt
      BY <2>1, <2>2, <2>5, <3>1, <3>3 DEF IsNotDue
    <3> QED
      BY <1>1, <2>1, <2>5, <3>2, <3>3
  <2> QED
    BY <2>4, <2>5
<1>3. ASSUME ClaimLost(t) PROVE FALSE
  <2>1. /\ pc[t] = "claimable"
        /\ ~ClaimMatches(t)
    BY <1>3 DEF ClaimLost
  <2>2. /\ SnapshotFits(t)
        /\ snapshot[t].attemptCount \in Nat
        /\ snapshot[t].status \in {"PENDING", "RETRYING"}
        /\ snapshot[t].status = "PENDING" => snapshot[t].attemptCount = 0
    BY <2>1 DEF SnapshotsInv, TypeOK, RowType, ClaimInv, SnapshotClaimable
  <2>3. AttemptNumber(t) = snapshot[t].attemptCount + 1 /\ AttemptNumber(t) # NULL
    BY <2>2, NullAssumption DEF AttemptNumber
  <2>4. CASE status[p] = "PENDING"
    <3>1. snapshot[t].status = "PENDING"
      BY <2>2, <2>3, <2>4 DEF TicketNumber, SnapshotFits
    <3> QED
      BY <1>1, <2>1, <2>2, <2>4, <3>1 DEF ClaimMatches, Row
  <2>5. CASE status[p] = "RETRYING"
    <3>1. job[t].expectedAttemptNumber = attemptCount[p] + 1
      BY <2>5 DEF TicketNumber
    <3>2. attemptCount[p] \in Nat \ {0} /\ attemptCount[p] + 1 # NULL
      BY <1>1, <2>1, <2>5, NullAssumption, MaxAttemptsAssumption
    <3>3. attemptCount[p] = snapshot[t].attemptCount
      BY <2>2, <2>3, <3>1, <3>2 DEF SnapshotFits
    <3>4. snapshot[t].status = "RETRYING"
      BY <2>2, <3>2, <3>3
    <3> QED
      BY <2>1, <2>2, <2>5, <3>3, <3>4 DEF SnapshotFits, ClaimMatches, Row
  <2> QED
    BY <2>4, <2>5
<1> QED
  BY <1>2, <1>3
=============================================================================
