--------------------------- MODULE PaymentLifecycle --------------------------
(***************************************************************************)
(* What the service promises about one payment, whoever processes it and   *)
(* however often its job is delivered. There are no workers, no queue and  *)
(* no clock here: a payment is attempted at most MaxAttempts times, each   *)
(* attempt instructs the bank at most once and before it is settled, and   *)
(* a payment is completed only if the bank moved the money.                *)
(***************************************************************************)
EXTENDS PaymentDomain

CONSTANT Payments

VARIABLES
    status,         \* NULL until submitted, then a PaymentStatus
    attempts,       \* attempts begun
    instructed,     \* calls made to the bank
    executed        \* payments the bank has executed

vars == <<status, attempts, instructed, executed>>

Init ==
    /\ status = [p \in Payments |-> NULL]
    /\ attempts = [p \in Payments |-> 0]
    /\ instructed = [p \in Payments |-> 0]
    /\ executed = {}

Submit(p) ==
    /\ status[p] = NULL
    /\ status' = [status EXCEPT ![p] = "PENDING"]
    /\ UNCHANGED <<attempts, instructed, executed>>

Begin(p) ==
    /\ status[p] \in {"PENDING", "RETRYING"}
    /\ attempts[p] < MaxAttempts
    /\ status' = [status EXCEPT ![p] = "PROCESSING"]
    /\ attempts' = [attempts EXCEPT ![p] = @ + 1]
    /\ UNCHANGED <<instructed, executed>>

\* The bank may execute the payment whatever the caller gets to hear of it.
Instruct(p) ==
    /\ status[p] = "PROCESSING"
    /\ instructed[p] < attempts[p]
    /\ instructed' = [instructed EXCEPT ![p] = @ + 1]
    /\ executed' \in {executed, executed \cup {p}}
    /\ UNCHANGED <<status, attempts>>

Settle(p) ==
    /\ status[p] = "PROCESSING"
    /\ instructed[p] = attempts[p]
    /\ \E s \in {"COMPLETED", "FAILED", "RETRYING"} :
        /\ s = "COMPLETED" => p \in executed
        /\ s = "RETRYING" => attempts[p] < MaxAttempts
        /\ status' = [status EXCEPT ![p] = s]
    /\ UNCHANGED <<attempts, instructed, executed>>

Next == \E p \in Payments : Submit(p) \/ Begin(p) \/ Instruct(p) \/ Settle(p)

Spec == Init /\ [][Next]_vars
=============================================================================
