-------------------------- MODULE PaymentSubmission --------------------------
(***************************************************************************)
(* POST /v1/payments: PaymentService.submitPayment over                    *)
(* PrismaPaymentRepository. Several handlers serve requests at the same    *)
(* time, in one API process or in several; a client repeats a request as   *)
(* often as it likes, changed or unchanged, while the first is still being *)
(* served or long after. Each database call is a step of its own.          *)
(*                                                                         *)
(* A body is a content and a format: how amount and spaces are written.    *)
(* Normalisation leaves the content, and the request hash is one to one    *)
(* with what is hashed. Bodies normalisation rejects never reach a         *)
(* database and are left out.                                              *)
(***************************************************************************)
EXTENDS PaymentDomain

CONSTANTS
    Handlers,       \* concurrent executions of the route handler
    Customers,
    Keys,           \* values of the Idempotency-Key header
    Contents,       \* what a normalised body says
    Formats,        \* ways to write it
    PaymentIds      \* identifiers the database may generate

PaymentRow == [customer: Customers, content: Contents, status: {"PENDING"}]

\* An absent payment is told apart from every present one.
ASSUME SubmissionAssumption == NULL \notin PaymentRow

VARIABLES
    payments,       \* [PaymentIds -> NULL or the row: customer, content, status]
    records,        \* the IdempotencyRecord rows
    outbox,         \* outbox rows
    pc, call,       \* per handler: the await it is at, the normalised request
    answers         \* every answer ever sent

vars == <<payments, records, outbox, pc, call, answers>>
stored == <<payments, records, outbox>>

Init ==
    /\ payments = [p \in PaymentIds |-> NULL]
    /\ records = {}
    /\ outbox = {}
    /\ pc = [h \in Handlers |-> "idle"]
    /\ call = [h \in Handlers |-> NULL]
    /\ answers = {}

-----------------------------------------------------------------------------
(* Requests and answers                                                    *)

\* Mutant: the body is hashed as it was written.
normalizePaymentSubmissionVerbatim(body) == body

normalizePaymentSubmission(body) == body.content

hashPaymentSubmission(normalized) == <<"sha256", normalized>>

Receive(h, customer, key, body) ==
    /\ pc[h] = "idle"
    /\ pc' = [pc EXCEPT ![h] = "finding"]
    /\ call' = [call EXCEPT ![h] =
            [customer |-> customer, key |-> key, content |-> body.content,
             requestHash |-> hashPaymentSubmission(normalizePaymentSubmission(body))]]
    /\ UNCHANGED <<stored, answers>>

Answer(c, code, payment) ==
    [customer |-> c.customer, key |-> c.key, content |-> c.content,
     code |-> code, payment |-> payment]

\* The client may be gone, or the process dies, before the answer is sent.
Respond(h, code, payment) ==
    /\ answers' \in {answers, answers \cup {Answer(call[h], code, payment)}}
    /\ pc' = [pc EXCEPT ![h] = "idle"]
    /\ call' = [call EXCEPT ![h] = NULL]

-----------------------------------------------------------------------------
(* Idempotency                                                             *)

\* Mutant: keys of different customers are taken for the same.
findByIdempotencyKeyAnyCustomer(c) == {r \in records : r.key = c.key}

findByIdempotencyKey(c) == {r \in records : r.customer = c.customer /\ r.key = c.key}

resolveExistingPayment(h, existing) ==
    IF existing.requestHash = call[h].requestHash
    THEN Respond(h, 200, existing.payment)
    ELSE Respond(h, 409, NULL)

FindExisting(h) ==
    LET found == findByIdempotencyKey(call[h]) IN
    /\ pc[h] = "finding"
    /\ IF found = {}
       THEN pc' = [pc EXCEPT ![h] = "creating"] /\ UNCHANGED <<call, answers>>
       ELSE \E existing \in found : resolveExistingPayment(h, existing)
    /\ UNCHANGED stored

\* Mutant: the schema lacks the unique index.
NoUniqueIndex(c) == FALSE

\* @@unique([customerId, idempotencyKey])
KeyTaken(c) == \E r \in records : r.customer = c.customer /\ r.key = c.key

\* One transaction: payment, idempotency record and outbox rows (and the
\* first PaymentEvent). The payment's identifier is a fresh UUID.
createPaymentSubmission(h) ==
    /\ pc[h] = "creating"
    /\ ~KeyTaken(call[h])
    /\ \E p \in PaymentIds :
        /\ payments[p] = NULL
        /\ payments' = [payments EXCEPT ![p] = [customer |-> call[h].customer,
                                                content |-> call[h].content,
                                                status |-> "PENDING"]]
        /\ records' = records \cup {[customer |-> call[h].customer, key |-> call[h].key,
                                     requestHash |-> call[h].requestHash, payment |-> p]}
        /\ outbox' = outbox \cup {WebhookRequest(p, 1), ProcessRequest(p)}
        /\ Respond(h, 202, p)

\* Mutant: any database error is taken for the violated index.
AnyErrorIsKeyViolation(c) == TRUE

IsKeyViolation(c) == KeyTaken(c)

\* P2002: the transaction is rolled back, IdempotencyKeyAlreadyExistsError.
CreateLost(h) ==
    /\ pc[h] = "creating"
    /\ IsKeyViolation(call[h])
    /\ pc' = [pc EXCEPT ![h] = "refinding"]
    /\ UNCHANGED <<call, stored, answers>>

FindConcurrent(h) ==
    LET found == findByIdempotencyKey(call[h]) IN
    /\ pc[h] = "refinding"
    /\ IF found = {}
       THEN Respond(h, 500, NULL)
       ELSE \E existing \in found : resolveExistingPayment(h, existing)
    /\ UNCHANGED stored

\* Any other database error, or the death of the process.
Fail(h) ==
    /\ pc[h] # "idle"
    /\ Respond(h, 500, NULL)
    /\ UNCHANGED stored

-----------------------------------------------------------------------------
Next ==
    \E h \in Handlers :
        \/ \E customer \in Customers, key \in Keys, content \in Contents, format \in Formats :
            Receive(h, customer, key, [content |-> content, format |-> format])
        \/ FindExisting(h)
        \/ createPaymentSubmission(h)
        \/ CreateLost(h)
        \/ FindConcurrent(h)
        \/ Fail(h)

Spec == Init /\ [][Next]_vars

-----------------------------------------------------------------------------
(* Properties                                                              *)

CallType == [customer: Customers, key: Keys, content: Contents,
             requestHash: {"sha256"} \X Contents]

TypeOK ==
    /\ payments \in [PaymentIds -> PaymentRow \cup {NULL}]
    /\ records \subseteq [customer: Customers, key: Keys,
                          requestHash: {"sha256"} \X Contents, payment: PaymentIds]
    /\ outbox \subseteq OutboxRow(PaymentIds)
    /\ pc \in [Handlers -> {"idle", "finding", "creating", "refinding"}]
    /\ call \in [Handlers -> CallType \cup {NULL}]
    /\ \A h \in Handlers : pc[h] # "idle" => call[h] \in CallType
    /\ answers \subseteq [customer: Customers, key: Keys, content: Contents,
                          code: {200, 202, 409, 500}, payment: PaymentIds \cup {NULL}]

Accepted == {a \in answers : a.code \in {200, 202}}

(* However often and however concurrently a customer uses a key, every     *)
(* answer that accepts the request names the same payment, and all of them *)
(* answered the same content.                                              *)
AnswersAgree ==
    \A a, b \in Accepted :
        a.customer = b.customer /\ a.key = b.key =>
            a.payment = b.payment /\ a.content = b.content

(* What was accepted exists: the payment named in an answer is the one of  *)
(* that customer with that content, and its processing is requested.       *)
AcceptedIsDurable ==
    \A a \in Accepted :
        /\ payments[a.payment] = [customer |-> a.customer, content |-> a.content,
                                  status |-> "PENDING"]
        /\ ProcessRequest(a.payment) \in outbox

(* 409 is answered only when the customer really used the key for another  *)
(* content: writing the same payment differently is no conflict.           *)
ConflictIsGenuine ==
    \A a \in answers : a.code = 409 =>
        \E r \in records :
            /\ r.customer = a.customer /\ r.key = a.key
            /\ payments[r.payment].content # a.content

(* Every payment belongs to exactly one use of a key: no request that lost *)
(* the race or failed leaves a payment, or work for one, behind.           *)
EveryPaymentHasItsKey ==
    \A p \in PaymentIds :
        /\ payments[p] # NULL <=> ProcessRequest(p) \in outbox
        /\ payments[p] # NULL =>
            \E r \in records :
                /\ r.payment = p
                /\ \A other \in records :
                    other.customer = r.customer /\ other.key = r.key => other = r

(* A request that lost the race finds the winner's record: the client gets *)
(* its answer and not the error of the unique index.                       *)
LoserFindsWinner ==
    \A h \in Handlers : pc[h] = "refinding" => findByIdempotencyKey(call[h]) # {}
=============================================================================
