-------------------------- MODULE PaymentProcessing --------------------------
(***************************************************************************)
(* PaymentProcessor.processPayment over PrismaPaymentProcessingRepository. *)
(*                                                                         *)
(* A task is one call of processPayment: several workers, and several jobs *)
(* in one worker, run such calls at the same time. Each await is a point   *)
(* where other tasks run, so a call is split there: it reads the payment,  *)
(* claims an attempt with a compare-and-set, calls the bank, and records   *)
(* the result. A database transaction that starts with a successful        *)
(* compare-and-set holds the row's lock to its end and is one action.      *)
(*                                                                         *)
(* A job is any payment row of the outbox, delivered at any time and any   *)
(* number of times: what the queue may do at worst. PaymentPipeline        *)
(* replaces this environment by the dispatcher and the queue.              *)
(***************************************************************************)
EXTENDS PaymentDomain, Sequences

CONSTANTS
    Payments,       \* payment identifiers
    Tasks           \* concurrent calls of processPayment

VARIABLES
    \* The payment table, one function per column; status NULL: no such row
    status, attemptCount, nextRetryAt,
    events,         \* [Payments -> Seq(PaymentEvent)], by sequenceNumber
    outbox,         \* the set of outbox rows ever committed
    \* Tasks: the await a call is suspended at and its local variables
    pc, job, snapshot, reply,
    \* The bank: the payments it executed, how often it was called for each
    \* and when the last of these calls ended
    executed, calls, answeredAt,
    now             \* the clock all processes read

paymentRow == <<status, attemptCount, nextRetryAt>>
stored == <<paymentRow, events, outbox>>
local == <<pc, job, snapshot, reply>>
bank == <<executed, calls, answeredAt>>
vars == <<stored, local, bank, now>>

Init ==
    /\ status = [p \in Payments |-> NULL]
    /\ attemptCount = [p \in Payments |-> 0]
    /\ nextRetryAt = [p \in Payments |-> NULL]
    /\ events = [p \in Payments |-> <<>>]
    /\ outbox = {}
    /\ pc = [t \in Tasks |-> "idle"]
    /\ job = [t \in Tasks |-> NULL]
    /\ snapshot = [t \in Tasks |-> NULL]
    /\ reply = [t \in Tasks |-> NULL]
    /\ executed = {}
    /\ calls = [p \in Payments |-> 0]
    /\ answeredAt = [p \in Payments |-> 0]
    /\ now = 0

-----------------------------------------------------------------------------
(* Writing an event: the next sequence number of the payment is one more   *)
(* than the largest, and an outbox row asks for its webhooks.              *)

PaymentEvent(from, to) == [fromStatus |-> from, toStatus |-> to]

RecordEvent(p, from, to) ==
    events' = [events EXCEPT ![p] = Append(@, PaymentEvent(from, to))]

createWebhookDeliveriesOutboxEvent(p) == WebhookRequest(p, Len(events[p]) + 1)

(* The transaction of the API that accepts a payment. Idempotency of the   *)
(* request is the subject of PaymentSubmission.                            *)
createPaymentSubmission(p) ==
    /\ status[p] = NULL
    /\ status' = [status EXCEPT ![p] = "PENDING"]
    /\ RecordEvent(p, NULL, "PENDING")
    /\ outbox' = outbox \cup {createWebhookDeliveriesOutboxEvent(p), ProcessRequest(p)}
    /\ UNCHANGED <<attemptCount, nextRetryAt, local, bank, now>>

-----------------------------------------------------------------------------
(* Tasks                                                                   *)

Finish(t) ==
    /\ pc' = [pc EXCEPT ![t] = "idle"]
    /\ job' = [job EXCEPT ![t] = NULL]
    /\ snapshot' = [snapshot EXCEPT ![t] = NULL]
    /\ reply' = [reply EXCEPT ![t] = NULL]

\* The job handler calls processPayment, which takes the claim's time here.
StartJob(t, request) ==
    /\ pc[t] = "idle"
    /\ request.type \in PaymentJobTypes
    /\ pc' = [pc EXCEPT ![t] = "claiming"]
    /\ job' = [job EXCEPT ![t] = [payment |-> request.payment,
                                  expectedAttemptNumber |-> request.number,
                                  claimedAt |-> now]]
    /\ UNCHANGED <<snapshot, reply, stored, bank, now>>

(* The decision of claimPaymentAttempt on the row r it read, for job j     *)

Row(p) == [status |-> status[p], attemptCount |-> attemptCount[p],
           nextRetryAt |-> nextRetryAt[p]]

IsInitialAttempt(r) == r.status = "PENDING" /\ r.attemptCount = 0

IsDueRetry(r, j) ==
    /\ r.status = "RETRYING"
    /\ j.expectedAttemptNumber = r.attemptCount + 1
    /\ r.nextRetryAt # NULL
    /\ r.nextRetryAt <= j.claimedAt

IsNotDue(r, j) ==
    /\ r.status = "RETRYING"
    /\ j.expectedAttemptNumber = r.attemptCount + 1
    /\ r.attemptCount < MaxAttempts
    /\ r.nextRetryAt # NULL
    /\ r.nextRetryAt > j.claimedAt

MayClaim(r, j) ==
    /\ IsInitialAttempt(r) \/ IsDueRetry(r, j)
    /\ r.attemptCount + 1 <= MaxAttempts
    /\ j.expectedAttemptNumber \in {NULL, r.attemptCount + 1}
    /\ isPaymentTransitionAllowed(r.status, "PROCESSING")

\* NOT_FOUND and SKIPPED: processPayment returns and the job is done.
ClaimRefused(t) ==
    /\ pc[t] = "claiming"
    /\ LET r == Row(job[t].payment) IN ~IsNotDue(r, job[t]) /\ ~MayClaim(r, job[t])
    /\ Finish(t)
    /\ UNCHANGED <<stored, bank, now>>

\* NOT_DUE: the job is to come back at the payment's nextRetryAt.
ClaimNotDue(t) ==
    /\ pc[t] = "claiming"
    /\ IsNotDue(Row(job[t].payment), job[t])
    /\ Finish(t)
    /\ UNCHANGED <<stored, bank, now>>

\* The row allows the claim; the update that makes it is still to come.
ClaimRead(t) ==
    /\ pc[t] = "claiming"
    /\ MayClaim(Row(job[t].payment), job[t])
    /\ snapshot' = [snapshot EXCEPT ![t] = Row(job[t].payment)]
    /\ pc' = [pc EXCEPT ![t] = "claimable"]
    /\ UNCHANGED <<job, reply, stored, bank, now>>

\* Mutant: the update names the row by its id alone.
ClaimMatchesWithoutCompare(t) == status[job[t].payment] # NULL

\* The where clause of updateMany, evaluated on the row as it is now.
ClaimMatches(t) ==
    LET r == Row(job[t].payment) IN
    /\ r.status = snapshot[t].status
    /\ r.attemptCount = snapshot[t].attemptCount
    /\ r.status = "RETRYING" => /\ r.nextRetryAt # NULL
                                /\ r.nextRetryAt <= job[t].claimedAt

claimPaymentAttempt(t) ==
    LET p == job[t].payment IN
    /\ pc[t] = "claimable"
    /\ ClaimMatches(t)
    /\ status' = [status EXCEPT ![p] = "PROCESSING"]
    /\ attemptCount' = [attemptCount EXCEPT ![p] = @ + 1]
    /\ nextRetryAt' = [nextRetryAt EXCEPT ![p] = NULL]
    /\ RecordEvent(p, snapshot[t].status, "PROCESSING")
    /\ outbox' = outbox \cup {createWebhookDeliveriesOutboxEvent(p)}
    /\ pc' = [pc EXCEPT ![t] = "calling"]
    /\ UNCHANGED <<job, snapshot, reply, bank, now>>

\* count = 0: another task was faster. SKIPPED.
ClaimLost(t) ==
    /\ pc[t] = "claimable"
    /\ ~ClaimMatches(t)
    /\ Finish(t)
    /\ UNCHANGED <<stored, bank, now>>

AttemptNumber(t) == snapshot[t].attemptCount + 1

-----------------------------------------------------------------------------
(* The bank call and its result                                            *)

(* "THROWN" stands for a call that rejected: a timeout, a lost connection. *)
(* The bank may or may not have executed the payment.                      *)
BankOutcome == {"SUCCESS", "PERMANENT_FAILURE", "TEMPORARY_FAILURE", "THROWN"}

MayHaveExecuted(p, outcome) ==
    {after \in {executed, executed \cup {p}} :
        /\ outcome = "SUCCESS" => p \in after
        /\ outcome \in {"PERMANENT_FAILURE", "TEMPORARY_FAILURE"} => after = executed}

\* Mutant: no answer is taken for a good one.
thrownBankErrorResultAsSuccess == "SUCCESS"

thrownBankErrorResult == "TEMPORARY_FAILURE"

BankResult(outcome) == IF outcome = "THROWN" THEN thrownBankErrorResult ELSE outcome

\* Mutant: the last attempt is one too late.
ResultingStatusOffByOne(result, attempt) ==
    IF result = "SUCCESS" THEN "COMPLETED"
    ELSE IF result = "PERMANENT_FAILURE" \/ attempt > MaxAttempts THEN "FAILED"
    ELSE "RETRYING"

\* The status processPayment settles the attempt with.
ResultingStatus(result, attempt) ==
    IF result = "SUCCESS" THEN "COMPLETED"
    ELSE IF result = "PERMANENT_FAILURE" \/ attempt >= MaxAttempts THEN "FAILED"
    ELSE "RETRYING"

Settlement(t, result) ==
    LET s == ResultingStatus(result, AttemptNumber(t)) IN
    [toStatus |-> s,
     nextRetryAt |-> IF s = "RETRYING" THEN now + calculateRetryDelay(AttemptNumber(t))
                                       ELSE NULL]

executePayment(t, outcome) ==
    LET p == job[t].payment IN
    /\ pc[t] = "calling"
    /\ calls' = [calls EXCEPT ![p] = @ + 1]
    /\ answeredAt' = [answeredAt EXCEPT ![p] = now]
    /\ executed' \in MayHaveExecuted(p, outcome)
    /\ reply' = [reply EXCEPT ![t] = Settlement(t, BankResult(outcome))]
    /\ pc' = [pc EXCEPT ![t] = "recording"]
    /\ UNCHANGED <<job, snapshot, stored, now>>

\* Mutant: the retry names the attempt that just failed.
RetryScheduleSameAttempt(t) ==
    IF reply[t].toStatus = "RETRYING"
    THEN {RetryRequest(job[t].payment, AttemptNumber(t), reply[t].nextRetryAt)}
    ELSE {}

RetrySchedule(t) ==
    IF reply[t].toStatus = "RETRYING"
    THEN {RetryRequest(job[t].payment, AttemptNumber(t) + 1, reply[t].nextRetryAt)}
    ELSE {}

\* The compare-and-set of the transition is on the status alone.
TransitionMatches(t) ==
    /\ isPaymentTransitionAllowed("PROCESSING", reply[t].toStatus)
    /\ status[job[t].payment] = "PROCESSING"

transitionProcessingPayment(t) ==
    LET p == job[t].payment
        to == reply[t].toStatus
    IN
    /\ pc[t] = "recording"
    /\ IF TransitionMatches(t)
       THEN /\ status' = [status EXCEPT ![p] = to]
            /\ nextRetryAt' = [nextRetryAt EXCEPT ![p] = reply[t].nextRetryAt]
            /\ RecordEvent(p, "PROCESSING", to)
            /\ outbox' = outbox \cup {createWebhookDeliveriesOutboxEvent(p)}
                                \cup RetrySchedule(t)
       ELSE UNCHANGED <<status, nextRetryAt, events, outbox>>
    /\ Finish(t)
    /\ UNCHANGED <<attemptCount, bank, now>>

-----------------------------------------------------------------------------
(* A database error is thrown out of processPayment, or the worker's       *)
(* process dies; nothing in the code picks the call up again. An error     *)
(* reported after the commit is the commit followed by this.               *)
Abandon(t) ==
    /\ pc[t] # "idle"
    /\ Finish(t)
    /\ UNCHANGED <<stored, bank, now>>

(* Time passes while a retry time lies ahead; where none does, no          *)
(* comparison of the code depends on the clock.                            *)
TimerPending ==
    \/ \E p \in Payments : nextRetryAt[p] # NULL /\ nextRetryAt[p] > now
    \/ \E t \in Tasks : /\ pc[t] = "recording"
                        /\ reply[t].nextRetryAt # NULL
                        /\ reply[t].nextRetryAt > now

Tick ==
    /\ TimerPending
    /\ now' = now + 1
    /\ UNCHANGED <<stored, local, bank>>

-----------------------------------------------------------------------------
\* The steps of a task once it has a job.
TaskStep(t) ==
    \/ ClaimRefused(t)
    \/ ClaimNotDue(t)
    \/ ClaimRead(t)
    \/ claimPaymentAttempt(t)
    \/ ClaimLost(t)
    \/ \E outcome \in BankOutcome : executePayment(t, outcome)
    \/ transitionProcessingPayment(t)

Next ==
    \/ \E p \in Payments : createPaymentSubmission(p)
    \/ \E t \in Tasks, request \in outbox : StartJob(t, request)
    \/ \E t \in Tasks : TaskStep(t) \/ Abandon(t)
    \/ Tick

Spec == Init /\ [][Next]_vars

-----------------------------------------------------------------------------
(* Types                                                                   *)

RowType == [status: PaymentStatus \cup {NULL}, attemptCount: Nat,
            nextRetryAt: Int \cup {NULL}]

JobType == [payment: Payments, expectedAttemptNumber: Int \cup {NULL},
            claimedAt: Int]

ReplyType == [toStatus: {"COMPLETED", "FAILED", "RETRYING"},
              nextRetryAt: Int \cup {NULL}]

EventType == [fromStatus: PaymentStatus \cup {NULL}, toStatus: PaymentStatus]

(* The variables have their types; in particular a task that reached an    *)
(* await has the local variables it will use after it.                     *)
TypeOK ==
    /\ status \in [Payments -> PaymentStatus \cup {NULL}]
    /\ attemptCount \in [Payments -> Nat]
    /\ nextRetryAt \in [Payments -> Int \cup {NULL}]
    /\ events \in [Payments -> Seq(EventType)]
    /\ outbox \subseteq OutboxRow(Payments)
    /\ pc \in [Tasks -> {"idle", "claiming", "claimable", "calling", "recording"}]
    /\ job \in [Tasks -> JobType \cup {NULL}]
    /\ snapshot \in [Tasks -> RowType \cup {NULL}]
    /\ reply \in [Tasks -> ReplyType \cup {NULL}]
    /\ \A t \in Tasks :
        /\ pc[t] # "idle" => job[t] \in JobType
        /\ pc[t] \in {"claimable", "calling", "recording"} => snapshot[t] \in RowType
        /\ pc[t] = "recording" => reply[t] \in ReplyType
    /\ executed \subseteq Payments
    /\ calls \in [Payments -> Nat]
    /\ answeredAt \in [Payments -> Nat]
    /\ now \in Nat
-----------------------------------------------------------------------------
(* Safety                                                                  *)

HoldsClaim(t) == pc[t] \in {"calling", "recording"}

(* A claim is exclusive. A task between its claim and its result works on  *)
(* the latest attempt of a payment that is PROCESSING, and no other task   *)
(* is there for the same payment: the transition's compare-and-set, which  *)
(* checks neither the attempt number nor who claimed it, relies on this    *)
(* when duplicated or late jobs run at several workers.                    *)
ClaimExclusive ==
    \A t \in Tasks : HoldsClaim(t) =>
        /\ status[job[t].payment] = "PROCESSING"
        /\ attemptCount[job[t].payment] = AttemptNumber(t)
        /\ \A u \in Tasks :
            HoldsClaim(u) /\ job[u].payment = job[t].payment => u = t

(* The bank is called exactly once for every attempt that was settled, at  *)
(* most once for the one under way, and never before it is claimed: no job *)
(* delivered twice, no late job and no crash makes it called twice for one *)
(* attempt number, nor more than MaxAttempts times for a payment.          *)
BankCalledOncePerAttempt ==
    \A p \in Payments :
        /\ attemptCount[p] <= MaxAttempts
        /\ status[p] # "PROCESSING" => calls[p] = attemptCount[p]
        /\ status[p] = "PROCESSING" => calls[p] \in {attemptCount[p] - 1, attemptCount[p]}
        /\ \A t \in Tasks : HoldsClaim(t) /\ job[t].payment = p =>
            /\ pc[t] = "calling" => calls[p] = attemptCount[p] - 1
            /\ pc[t] = "recording" => calls[p] = attemptCount[p]

(* The audit trail tells the payment's whole history: it starts with the   *)
(* submission, each event leaves the status the one before it entered, by  *)
(* a transition the state machine allows, and the last one entered the     *)
(* status in the row. Every event has its webhook request in the outbox.   *)
AuditTrailComplete ==
    \A p \in Payments :
        LET trail == events[p] IN
        /\ trail = <<>> <=> status[p] = NULL
        /\ trail # <<>> => /\ trail[1] = PaymentEvent(NULL, "PENDING")
                           /\ trail[Len(trail)].toStatus = status[p]
        /\ \A i \in 2..Len(trail) :
            /\ trail[i].fromStatus = trail[i - 1].toStatus
            /\ isPaymentTransitionAllowed(trail[i].fromStatus, trail[i].toStatus)
        /\ \A i \in 1..Len(trail) : WebhookRequest(p, i) \in outbox

(* Waiting work is never lost from the outbox: for a payment that waits to *)
(* be claimed there is a row whose job, run once the retry time has come,  *)
(* passes every condition of the claim.                                    *)
WaitingPaymentHasTicket ==
    \A p \in Payments : status[p] \in {"PENDING", "RETRYING"} =>
        \E request \in outbox :
            /\ request.type \in PaymentJobTypes
            /\ request.payment = p
            /\ \E at \in {now, nextRetryAt[p]} \ {NULL} :
                MayClaim(Row(p), [payment |-> p,
                                  expectedAttemptNumber |-> request.number,
                                  claimedAt |-> at])

(* A payment is COMPLETED only when the bank has executed it: a call that  *)
(* threw is never taken for a success.                                     *)
CompletedMeansExecuted ==
    \A p \in Payments : status[p] = "COMPLETED" => p \in executed

(* COMPLETED and FAILED are final: whatever jobs are still around, nothing *)
(* about the payment changes any more and the bank is not called again.    *)
TerminalIsFinal ==
    [][\A p \in Payments : status[p] \in Terminal =>
          /\ UNCHANGED <<status[p], attemptCount[p], nextRetryAt[p], events[p]>>
          /\ calls'[p] = calls[p]]_vars

(* The bank is given time: after its answer to attempt n, the next attempt *)
(* begins only when BaseDelay * 2^(n-1) has passed, whichever job begins   *)
(* it and however old the time and the row are that its task acts on.      *)
RetryWaitsForDelay ==
    [][\A p \in Payments : status[p] = "RETRYING" /\ status'[p] = "PROCESSING" =>
          now >= answeredAt[p] + BaseDelay * 2^(attemptCount[p] - 1)]_vars

(* The processor implements the lifecycle the service promises.            *)
Lifecycle == INSTANCE PaymentLifecycle WITH
    attempts <- attemptCount, instructed <- calls

ImplementsLifecycle == Lifecycle!Spec
=============================================================================
