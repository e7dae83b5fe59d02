---------------------------- MODULE PaymentDomain ----------------------------
(***************************************************************************)
(* The vocabulary every payment component shares: the status enumeration,  *)
(* the state machine over it, the retry delay, and the rows of the outbox  *)
(* that connect the API, the dispatcher and the workers.                   *)
(***************************************************************************)
EXTENDS Integers

CONSTANTS
    NULL,           \* SQL NULL / undefined: an absent value or an absent row
    MaxAttempts,    \* Payment.maxAttempts (the schema's default is 5)
    BaseDelay       \* PAYMENT_RETRY_BASE_DELAY_MS, in clock ticks

ASSUME MaxAttemptsAssumption == MaxAttempts \in Nat \ {0}
ASSUME BaseDelayAssumption == BaseDelay \in Nat \ {0}

-----------------------------------------------------------------------------
(* The payment state machine                                               *)

PaymentStatus == {"PENDING", "PROCESSING", "COMPLETED", "FAILED", "RETRYING"}

\* An absent status or number is told apart from every present one.
ASSUME NullAssumption == NULL \notin Int \cup PaymentStatus

allowedTransitions ==
    {<<"PENDING", "PROCESSING">>, <<"RETRYING", "PROCESSING">>,
     <<"PROCESSING", "COMPLETED">>, <<"PROCESSING", "FAILED">>,
     <<"PROCESSING", "RETRYING">>}

isPaymentTransitionAllowed(from, to) == <<from, to>> \in allowedTransitions

Terminal == {"COMPLETED", "FAILED"}

-----------------------------------------------------------------------------
(* Exponential backoff after the failure of attempt number n               *)

\* Mutant: the same delay after every failure.
calculateRetryDelayConstant(n) == BaseDelay

calculateRetryDelay(n) == BaseDelay * 2^(n - 1)

-----------------------------------------------------------------------------
(* Outbox rows. Each kind of row is determined by the payment and one      *)
(* number: the attempt a retry is for, or the sequence number of the       *)
(* PaymentEvent whose webhooks are to be delivered. A process request      *)
(* carries no attempt number.                                              *)

ProcessRequest(p) ==
    [type |-> "PAYMENT_PROCESS_REQUESTED", payment |-> p,
     number |-> NULL, nextRetryAt |-> NULL]

RetryRequest(p, nextAttemptNumber, at) ==
    [type |-> "PAYMENT_RETRY_REQUESTED", payment |-> p,
     number |-> nextAttemptNumber, nextRetryAt |-> at]

WebhookRequest(p, sequenceNumber) ==
    [type |-> "WEBHOOK_DELIVERIES_REQUESTED", payment |-> p,
     number |-> sequenceNumber, nextRetryAt |-> NULL]

PaymentJobTypes == {"PAYMENT_PROCESS_REQUESTED", "PAYMENT_RETRY_REQUESTED"}

OutboxTypes == PaymentJobTypes \cup {"WEBHOOK_DELIVERIES_REQUESTED"}

OutboxRow(Payments) ==
    [type: OutboxTypes, payment: Payments,
     number: Int \cup {NULL}, nextRetryAt: Int \cup {NULL}]
=============================================================================
