----------------------- MODULE PaymentSubmissionProofs -----------------------
(***************************************************************************)
(* Proofs of the safety properties of PaymentSubmission, for any number of *)
(* handlers, customers, keys, contents and formats.                        *)
(*                                                                         *)
(* The argument: records are only added, one per customer and key, and     *)
(* each is sound, that is, it names a payment of its customer whose        *)
(* content has the record's hash and whose processing is requested. Every  *)
(* accepting answer is vouched for by a record, so two answers for one key *)
(* are vouched for by the same one.                                        *)
(***************************************************************************)
EXTENDS PaymentSubmission, TLAPS

UniqueKeys ==
    \A r, s \in records : r.customer = s.customer /\ r.key = s.key => r = s

Sound(r) ==
    /\ payments[r.payment] # NULL
    /\ payments[r.payment].customer = r.customer
    /\ r.requestHash = hashPaymentSubmission(payments[r.payment].content)
    /\ ProcessRequest(r.payment) \in outbox

RecordsSound == \A r \in records : Sound(r)

\* The record answers the request of c, be c a call or an answer.
Vouches(r, c) ==
    /\ r.customer = c.customer
    /\ r.key = c.key
    /\ r.requestHash = hashPaymentSubmission(c.content)

AnswersVouched ==
    \A a \in Accepted : \E r \in records : r.payment = a.payment /\ Vouches(r, a)

CallsHashed ==
    \A h \in Handlers : pc[h] # "idle" =>
        call[h].requestHash = hashPaymentSubmission(call[h].content)

Core == TypeOK /\ UniqueKeys /\ RecordsSound /\ CallsHashed

SubmissionInv ==
    Core /\ AnswersVouched /\ ConflictIsGenuine /\ EveryPaymentHasItsKey /\ LoserFindsWinner

-----------------------------------------------------------------------------
\* What a response adds to the answers and does to its handler.
LEMMA Responding ==
    ASSUME TypeOK, NEW h \in Handlers, pc[h] # "idle",
           NEW code \in {200, 202, 409, 500}, NEW payment \in PaymentIds \cup {NULL},
           Respond(h, code, payment)
    PROVE  /\ Answer(call[h], code, payment) \in
                [customer: Customers, key: Keys, content: Contents,
                 code: {200, 202, 409, 500}, payment: PaymentIds \cup {NULL}]
           /\ \A a \in answers' : a \in answers \/ a = Answer(call[h], code, payment)
           /\ pc' = [pc EXCEPT ![h] = "idle"]
           /\ call' = [call EXCEPT ![h] = NULL]
BY DEF TypeOK, CallType, Respond, Answer

\* The service starts with an empty database and idle handlers.
LEMMA InitInv == Init => SubmissionInv
<1> SUFFICES ASSUME Init PROVE SubmissionInv
  OBVIOUS
<1>1. TypeOK
  BY DEF Init, TypeOK
<1>2. UniqueKeys /\ RecordsSound /\ CallsHashed /\ AnswersVouched
  BY DEF Init, UniqueKeys, RecordsSound, CallsHashed, AnswersVouched, Accepted
<1>3. ConflictIsGenuine /\ EveryPaymentHasItsKey /\ LoserFindsWinner
  BY DEF Init, ConflictIsGenuine, EveryPaymentHasItsKey, LoserFindsWinner
<1> QED
  BY <1>1, <1>2, <1>3 DEF SubmissionInv, Core

\* The shape of a step: it changes one handler; either the database is
\* unchanged and an answer it gives is justified by a record or is an error,
\* or a payment is created.
Moves(h) ==
    /\ UNCHANGED <<stored, answers>>
    /\ pc[h] # "idle"
    /\ UNCHANGED call
    /\ \/ pc' = [pc EXCEPT ![h] = "creating"]
       \/ pc' = [pc EXCEPT ![h] = "refinding"] /\ findByIdempotencyKey(call[h]) # {}

Replies(h, code, payment) ==
    /\ UNCHANGED stored
    /\ pc[h] # "idle"
    /\ Respond(h, code, payment)
    /\ \/ code = 500 /\ payment = NULL
       \/ code = 409 /\ payment = NULL /\ \E r \in findByIdempotencyKey(call[h]) :
            r.requestHash # call[h].requestHash
       \/ code = 200 /\ \E r \in findByIdempotencyKey(call[h]) :
            r.payment = payment /\ r.requestHash = call[h].requestHash

Starts(h) ==
    /\ UNCHANGED <<stored, answers>>
    /\ pc' = [pc EXCEPT ![h] = "finding"]
    /\ \E c \in CallType : /\ c.requestHash = hashPaymentSubmission(c.content)
                           /\ call' = [call EXCEPT ![h] = c]

Ends(h) ==
    \E code \in {200, 202, 409, 500}, payment \in PaymentIds \cup {NULL} :
        Replies(h, code, payment)

\* resolveExistingPayment answers 200 when the record has the hash of the
\* request, and 409 when it has another.
LEMMA Resolving ==
    ASSUME TypeOK, NEW h \in Handlers, pc[h] # "idle", UNCHANGED stored,
           NEW existing \in findByIdempotencyKey(call[h]),
           resolveExistingPayment(h, existing)
    PROVE  Ends(h)
<1>1. existing.payment \in PaymentIds
  BY DEF TypeOK, findByIdempotencyKey
<1>2. CASE existing.requestHash = call[h].requestHash
  <2>1. Replies(h, 200, existing.payment)
    BY <1>2 DEF resolveExistingPayment, Replies
  <2> QED
    BY <1>1, <2>1 DEF Ends
<1>3. CASE existing.requestHash # call[h].requestHash
  <2>1. Replies(h, 409, NULL)
    BY <1>3 DEF resolveExistingPayment, Replies
  <2> QED
    BY <2>1 DEF Ends
<1> QED
  BY <1>2, <1>3

\* Every step has one of the four shapes.
LEMMA StepShape ==
    ASSUME TypeOK, Next
    PROVE  \E h \in Handlers :
            Starts(h) \/ Moves(h) \/ createPaymentSubmission(h) \/ Ends(h)
<1>1. ASSUME NEW h \in Handlers, NEW customer \in Customers, NEW key \in Keys,
             NEW content \in Contents, NEW format \in Formats,
             Receive(h, customer, key, [content |-> content, format |-> format])
      PROVE  Starts(h)
  <2> DEFINE c == [customer |-> customer, key |-> key, content |-> content,
                   requestHash |-> <<"sha256", content>>]
  <2>1. c \in CallType /\ c.requestHash = hashPaymentSubmission(c.content)
    BY DEF CallType, hashPaymentSubmission
  <2>2. call' = [call EXCEPT ![h] = c]
    BY <1>1 DEF Receive, hashPaymentSubmission, normalizePaymentSubmission
  <2> QED
    BY <1>1, <2>1, <2>2 DEF Receive, Starts
<1>2. ASSUME NEW h \in Handlers, FindExisting(h)
      PROVE  Moves(h) \/ Ends(h)
  BY <1>2, Resolving DEF FindExisting, Moves
<1>3. ASSUME NEW h \in Handlers, CreateLost(h) PROVE Moves(h)
  BY <1>3 DEF CreateLost, IsKeyViolation, KeyTaken, findByIdempotencyKey, Moves
<1>4. ASSUME NEW h \in Handlers, FindConcurrent(h)
      PROVE  Ends(h)
  BY <1>4, Resolving DEF FindConcurrent, Replies, Ends
<1>5. ASSUME NEW h \in Handlers, Fail(h) PROVE Ends(h)
  BY <1>5 DEF Fail, Replies, Ends
<1>6. PICK h \in Handlers :
        \/ \E customer \in Customers, key \in Keys, content \in Contents, format \in Formats :
            Receive(h, customer, key, [content |-> content, format |-> format])
        \/ FindExisting(h)
        \/ createPaymentSubmission(h)
        \/ CreateLost(h)
        \/ FindConcurrent(h)
        \/ Fail(h)
  BY DEF Next
<1> QED
  BY <1>1, <1>2, <1>3, <1>4, <1>5, <1>6

-----------------------------------------------------------------------------
\* Preservation, one lemma per kind of step.

\* A call that arrives is hashed before anything is read.
LEMMA StartInv ==
    ASSUME SubmissionInv, NEW h \in Handlers, Starts(h)
    PROVE  SubmissionInv'
<1> USE DEF SubmissionInv, Core, Starts, stored
<1>1. TypeOK'
  BY DEF TypeOK
<1>2. UniqueKeys' /\ RecordsSound' /\ CallsHashed'
  BY DEF TypeOK, UniqueKeys, RecordsSound, Sound, CallsHashed
<1>3. AnswersVouched' /\ ConflictIsGenuine' /\ EveryPaymentHasItsKey'
  BY DEF AnswersVouched, Accepted, Vouches, ConflictIsGenuine, EveryPaymentHasItsKey
<1>4. LoserFindsWinner'
  BY DEF TypeOK, LoserFindsWinner, findByIdempotencyKey
<1> QED
  BY <1>1, <1>2, <1>3, <1>4

\* A handler that goes to its next await changes nothing that is shared; one
\* that lost the race goes there only because the winner's record exists.
LEMMA MoveInv ==
    ASSUME SubmissionInv, NEW h \in Handlers, Moves(h)
    PROVE  SubmissionInv'
<1> USE DEF SubmissionInv, Core, Moves, stored
<1>1. TypeOK'
  BY DEF TypeOK
<1>2. UniqueKeys' /\ RecordsSound' /\ CallsHashed'
  BY DEF TypeOK, UniqueKeys, RecordsSound, Sound, CallsHashed
<1>3. AnswersVouched' /\ ConflictIsGenuine' /\ EveryPaymentHasItsKey'
  BY DEF AnswersVouched, Accepted, Vouches, ConflictIsGenuine, EveryPaymentHasItsKey
<1>4. LoserFindsWinner'
  BY DEF TypeOK, LoserFindsWinner, findByIdempotencyKey
<1> QED
  BY <1>1, <1>2, <1>3, <1>4

\* An accepting answer has the payment of the record it was resolved with.
LEMMA ReplyInv ==
    ASSUME SubmissionInv, NEW h \in Handlers,
           NEW code \in {200, 202, 409, 500}, NEW payment \in PaymentIds \cup {NULL},
           Replies(h, code, payment)
    PROVE  SubmissionInv'
<1> DEFINE new == Answer(call[h], code, payment)
<1>1. /\ new \in [customer: Customers, key: Keys, content: Contents,
                   code: {200, 202, 409, 500}, payment: PaymentIds \cup {NULL}]
      /\ answers' \subseteq answers \cup {new}
      /\ pc' = [pc EXCEPT ![h] = "idle"]
      /\ call' = [call EXCEPT ![h] = NULL]
  BY Responding DEF SubmissionInv, Core, Replies
<1>2. UNCHANGED <<payments, records, outbox>> /\ pc[h] # "idle"
  BY DEF Replies, stored
<1>3. /\ new.customer = call[h].customer /\ new.key = call[h].key
      /\ new.content = call[h].content
      /\ new.code = code /\ new.payment = payment
      /\ call[h].requestHash = hashPaymentSubmission(call[h].content)
  BY <1>2 DEF Answer, SubmissionInv, Core, CallsHashed
<1> HIDE DEF new
<1>4. TypeOK'
  BY <1>1, <1>2 DEF TypeOK, SubmissionInv, Core
<1>5. UniqueKeys' /\ RecordsSound' /\ EveryPaymentHasItsKey'
  BY <1>2 DEF SubmissionInv, Core, UniqueKeys, RecordsSound, Sound, EveryPaymentHasItsKey
<1>6. CallsHashed'
  BY <1>1, <1>2 DEF SubmissionInv, Core, TypeOK, CallsHashed
<1>7. LoserFindsWinner'
  BY <1>1, <1>2 DEF SubmissionInv, Core, TypeOK, LoserFindsWinner, findByIdempotencyKey
<1>8. AnswersVouched'
  <2>1. ASSUME code \in {200, 202}
        PROVE  \E r \in records : r.payment = new.payment /\ Vouches(r, new)
    BY <2>1, <1>3 DEF Replies, findByIdempotencyKey, Vouches
  <2> QED
    BY <2>1, <1>1, <1>2, <1>3 DEF SubmissionInv, AnswersVouched, Accepted, Vouches
<1>9. ConflictIsGenuine'
  <2>1. ASSUME code = 409
        PROVE  \E r \in records : /\ r.customer = new.customer /\ r.key = new.key
                                  /\ payments[r.payment].content # new.content
    <3>1. PICK r \in records : /\ r.customer = call[h].customer /\ r.key = call[h].key
                               /\ r.requestHash # call[h].requestHash
      BY <2>1 DEF Replies, findByIdempotencyKey
    <3>2. r.requestHash = hashPaymentSubmission(payments[r.payment].content)
      BY <3>1 DEF SubmissionInv, Core, RecordsSound, Sound
    <3> QED
      BY <3>1, <3>2, <1>3 DEF hashPaymentSubmission
  <2> QED
    BY <2>1, <1>1, <1>2, <1>3 DEF SubmissionInv, ConflictIsGenuine
<1> QED
  BY <1>4, <1>5, <1>6, <1>7, <1>8, <1>9 DEF SubmissionInv, Core
\* createPaymentSubmission adds a sound record for a key that had none, and
\* the answer 202 is vouched for by it.
LEMMA CreateInv ==
    ASSUME SubmissionInv, NEW h \in Handlers, createPaymentSubmission(h)
    PROVE  SubmissionInv'
<1> DEFINE row == [customer |-> call[h].customer, content |-> call[h].content,
                   status |-> "PENDING"]
<1>1. PICK p \in PaymentIds :
        /\ payments[p] = NULL
        /\ payments' = [payments EXCEPT ![p] = row]
        /\ records' = records \cup {[customer |-> call[h].customer, key |-> call[h].key,
                                     requestHash |-> call[h].requestHash, payment |-> p]}
        /\ outbox' = outbox \cup {WebhookRequest(p, 1), ProcessRequest(p)}
        /\ Respond(h, 202, p)
  BY DEF createPaymentSubmission
<1> DEFINE new == Answer(call[h], 202, p)
           record == [customer |-> call[h].customer, key |-> call[h].key,
                      requestHash |-> call[h].requestHash, payment |-> p]
<1>2. /\ call[h] \in CallType
      /\ call[h].requestHash = hashPaymentSubmission(call[h].content)
      /\ pc[h] # "idle"
      /\ ~KeyTaken(call[h])
  BY DEF SubmissionInv, Core, TypeOK, CallsHashed, createPaymentSubmission
<1>3. /\ new \in [customer: Customers, key: Keys, content: Contents,
                   code: {200, 202, 409, 500}, payment: PaymentIds \cup {NULL}]
      /\ answers' \subseteq answers \cup {new}
      /\ pc' = [pc EXCEPT ![h] = "idle"]
      /\ call' = [call EXCEPT ![h] = NULL]
  BY <1>1, <1>2, Responding DEF SubmissionInv, Core
<1>4. row \in PaymentRow /\ row # NULL
  BY <1>2, SubmissionAssumption DEF PaymentRow, CallType
<1>5. /\ \A q \in PaymentIds : q # p => payments'[q] = payments[q]
      /\ payments'[p] = row
  BY <1>1 DEF SubmissionInv, Core, TypeOK
<1>6. /\ records' = records \cup {record}
      /\ outbox' = outbox \cup {WebhookRequest(p, 1), ProcessRequest(p)}
  BY <1>1
<1>7. /\ WebhookRequest(p, 1) \in OutboxRow(PaymentIds)
      /\ ProcessRequest(p) \in OutboxRow(PaymentIds)
      /\ \A q \in PaymentIds :
            ProcessRequest(q) \in outbox' <=> ProcessRequest(q) \in outbox \/ q = p
  BY <1>6 DEF WebhookRequest, ProcessRequest, OutboxRow, OutboxTypes, PaymentJobTypes
<1>8. \A r \in records : r.payment \in PaymentIds /\ r.payment # p
  BY <1>1 DEF SubmissionInv, Core, TypeOK, RecordsSound, Sound
<1>9. /\ record.customer = call[h].customer /\ record.key = call[h].key
      /\ record.requestHash = call[h].requestHash /\ record.payment = p
      /\ row.customer = call[h].customer /\ row.content = call[h].content
  OBVIOUS
<1>10. /\ new.customer = call[h].customer /\ new.key = call[h].key
       /\ new.content = call[h].content /\ new.payment = p /\ new.code = 202
  BY DEF Answer
<1>11. TypeOK'
  <2>1. /\ payments' \in [PaymentIds -> PaymentRow \cup {NULL}]
        /\ outbox' \subseteq OutboxRow(PaymentIds)
    BY <1>1, <1>4, <1>6, <1>7 DEF SubmissionInv, Core, TypeOK
  <2>2. records' \subseteq [customer: Customers, key: Keys,
                            requestHash: {"sha256"} \X Contents, payment: PaymentIds]
    BY <1>2, <1>6 DEF SubmissionInv, Core, TypeOK, CallType
  <2> HIDE DEF new
  <2>3. /\ pc' \in [Handlers -> {"idle", "finding", "creating", "refinding"}]
        /\ call' \in [Handlers -> CallType \cup {NULL}]
        /\ \A g \in Handlers : pc'[g] # "idle" => call'[g] \in CallType
        /\ answers' \subseteq [customer: Customers, key: Keys, content: Contents,
                  code: {200, 202, 409, 500}, payment: PaymentIds \cup {NULL}]
    BY <1>3 DEF SubmissionInv, Core, TypeOK
  <2> QED
    BY <2>1, <2>2, <2>3 DEF TypeOK
<1> HIDE DEF new, record, row
<1>12. UniqueKeys'
  BY <1>2, <1>6, <1>9 DEF SubmissionInv, Core, UniqueKeys, KeyTaken
<1>13. RecordsSound'
  <2>1. ASSUME NEW r \in records PROVE Sound(r)'
    BY <1>5, <1>7, <1>8 DEF SubmissionInv, Core, RecordsSound, Sound
  <2>2. ASSUME NEW r, r = record PROVE Sound(r)'
    BY <2>2, <1>2, <1>4, <1>5, <1>7, <1>9 DEF Sound
  <2> QED
    BY <2>1, <2>2, <1>6 DEF RecordsSound
<1>14. CallsHashed'
  BY <1>3 DEF SubmissionInv, Core, TypeOK, CallsHashed
<1>15. AnswersVouched'
  <2>1. record.payment = new.payment /\ Vouches(record, new)
    BY <1>2, <1>9, <1>10 DEF Vouches
  <2> QED
    BY <2>1, <1>3, <1>6 DEF SubmissionInv, AnswersVouched, Accepted, Vouches
<1>16. ConflictIsGenuine'
  <2>1. ASSUME NEW a \in answers, a.code = 409
        PROVE  \E r \in records' : /\ r.customer = a.customer /\ r.key = a.key
                                   /\ payments'[r.payment].content # a.content
    BY <2>1, <1>5, <1>6, <1>8 DEF SubmissionInv, ConflictIsGenuine
  <2> QED
    BY <2>1, <1>3, <1>10 DEF ConflictIsGenuine
<1>17. EveryPaymentHasItsKey'
  <2>1. ASSUME NEW q \in PaymentIds
        PROVE  payments'[q] # NULL <=> ProcessRequest(q) \in outbox'
    BY <1>4, <1>5, <1>7 DEF SubmissionInv, EveryPaymentHasItsKey
  <2>2. ASSUME NEW q \in PaymentIds, payments'[q] # NULL
        PROVE  \E r \in records' : r.payment = q
    BY <2>2, <1>5, <1>6, <1>9 DEF SubmissionInv, EveryPaymentHasItsKey
  <2>3. ASSUME NEW r \in records', NEW other \in records',
               other.customer = r.customer, other.key = r.key
        PROVE  other = r
    BY <2>3, <1>12 DEF UniqueKeys
  <2> QED
    BY <2>1, <2>2, <2>3 DEF EveryPaymentHasItsKey
<1>18. LoserFindsWinner'
  BY <1>3, <1>6 DEF SubmissionInv, Core, TypeOK, LoserFindsWinner, findByIdempotencyKey
<1> QED
  BY <1>11, <1>12, <1>13, <1>14, <1>15, <1>16, <1>17, <1>18 DEF SubmissionInv, Core

\* Every step of the service, and a stutter, keeps the invariant.
LEMMA StepInv == SubmissionInv /\ [Next]_vars => SubmissionInv'
<1> SUFFICES ASSUME SubmissionInv, [Next]_vars PROVE SubmissionInv'
  OBVIOUS
<1>1. CASE Next
  <2>1. PICK h \in Handlers :
            Starts(h) \/ Moves(h) \/ createPaymentSubmission(h) \/ Ends(h)
    BY <1>1, StepShape DEF SubmissionInv, Core
  <2>2. ASSUME Ends(h) PROVE SubmissionInv'
    BY <2>2, ReplyInv DEF Ends
  <2> QED
    BY <2>1, <2>2, StartInv, MoveInv, CreateInv
<1>2. CASE UNCHANGED vars
  <2> USE <1>2 DEF vars, stored, SubmissionInv, Core
  <2>1. TypeOK'
    BY DEF TypeOK
  <2>2. UniqueKeys' /\ RecordsSound' /\ CallsHashed' /\ AnswersVouched'
    BY DEF UniqueKeys, RecordsSound, Sound, CallsHashed, AnswersVouched, Accepted
  <2>3. ConflictIsGenuine' /\ EveryPaymentHasItsKey' /\ LoserFindsWinner'
    BY DEF ConflictIsGenuine, EveryPaymentHasItsKey, LoserFindsWinner, findByIdempotencyKey
  <2> QED
    BY <2>1, <2>2, <2>3
<1> QED
  BY <1>1, <1>2

\* The invariant of the payment submission holds in every reachable state.
THEOREM SubmissionCorrect == Spec => []SubmissionInv
BY InitInv, StepInv, PTL DEF Spec

-----------------------------------------------------------------------------
\* The database, the handlers and the answers keep their types.
THEOREM SubmissionTypeCorrect == Spec => []TypeOK
<1>1. SubmissionInv => TypeOK
  BY DEF SubmissionInv, Core
<1> QED
  BY <1>1, SubmissionCorrect, PTL

\* Whoever asks, however often and however concurrently: all accepting answers
\* for one customer and key name one payment, and answer one content.
THEOREM AcceptingAnswersAgree == Spec => []AnswersAgree
<1>1. SubmissionInv => AnswersAgree
  <2> SUFFICES ASSUME SubmissionInv, NEW a \in Accepted, NEW b \in Accepted,
                      a.customer = b.customer, a.key = b.key
               PROVE  a.payment = b.payment /\ a.content = b.content
    BY DEF AnswersAgree
  <2>1. PICK r \in records : r.payment = a.payment /\ Vouches(r, a)
    BY DEF SubmissionInv, AnswersVouched
  <2>2. PICK s \in records : s.payment = b.payment /\ Vouches(s, b)
    BY DEF SubmissionInv, AnswersVouched
  <2>3. r = s
    BY <2>1, <2>2 DEF SubmissionInv, Core, UniqueKeys, Vouches
  <2> QED
    BY <2>1, <2>2, <2>3 DEF Vouches, hashPaymentSubmission
<1> QED
  BY <1>1, SubmissionCorrect, PTL

\* What was accepted is stored, with work requested for it.
THEOREM AcceptedPaymentsExist == Spec => []AcceptedIsDurable
<1>1. SubmissionInv => AcceptedIsDurable
  <2> SUFFICES ASSUME SubmissionInv, NEW a \in Accepted
               PROVE  /\ payments[a.payment] = [customer |-> a.customer,
                                                content |-> a.content, status |-> "PENDING"]
                      /\ ProcessRequest(a.payment) \in outbox
    BY DEF AcceptedIsDurable
  <2>1. PICK r \in records : r.payment = a.payment /\ Vouches(r, a)
    BY DEF SubmissionInv, AnswersVouched
  <2>2. Sound(r) /\ r.payment \in PaymentIds
    BY <2>1 DEF SubmissionInv, Core, RecordsSound, TypeOK
  <2>3. payments[a.payment] \in PaymentRow
    BY <2>1, <2>2 DEF SubmissionInv, Core, TypeOK, Sound
  <2>4. /\ payments[a.payment].customer = a.customer
        /\ payments[a.payment].content = a.content
    BY <2>1, <2>2 DEF Sound, Vouches, hashPaymentSubmission
  <2>5. ProcessRequest(a.payment) \in outbox
    BY <2>1, <2>2 DEF Sound
  <2> QED
    BY <2>3, <2>4, <2>5 DEF PaymentRow
<1> QED
  BY <1>1, SubmissionCorrect, PTL

\* A conflict is answered only when the key was used for another content.
THEOREM ConflictsAreGenuine == Spec => []ConflictIsGenuine
<1>1. SubmissionInv => ConflictIsGenuine
  BY DEF SubmissionInv
<1> QED
  BY <1>1, SubmissionCorrect, PTL

\* Losers and failures leave no payment, and no work, behind.
THEOREM PaymentsHaveKeys == Spec => []EveryPaymentHasItsKey
<1>1. SubmissionInv => EveryPaymentHasItsKey
  BY DEF SubmissionInv
<1> QED
  BY <1>1, SubmissionCorrect, PTL

\* The loser of a race always finds the winner's record.
THEOREM LosersAreAnswered == Spec => []LoserFindsWinner
<1>1. SubmissionInv => LoserFindsWinner
  BY DEF SubmissionInv
<1> QED
  BY <1>1, SubmissionCorrect, PTL
=============================================================================
