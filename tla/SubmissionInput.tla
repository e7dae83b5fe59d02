--------------------------- MODULE SubmissionInput ---------------------------
(***************************************************************************)
(* What a client may write in POST /v1/payments and what becomes of it:    *)
(* the request schema as Fastify applies it, the normalisation of the      *)
(* domain, the idempotency of PaymentService, the columns of the database, *)
(* and the payment that a GET shows later. Requests are served one after   *)
(* the other; the races between them are PaymentSubmission's.              *)
(*                                                                         *)
(* A text is a word among white space. What the code asks of a word is its *)
(* length, in characters and in the UTF-16 units that JavaScript counts,   *)
(* and whether it contains NUL, which JSON allows and PostgreSQL does not. *)
(* A decimal amount is kept as it is written: leading zeros, integer part, *)
(* and a fraction of so many places.                                       *)
(***************************************************************************)
EXTENDS Naturals, Sequences

CONSTANTS
    Base,               \* of the number system: 10
    IntegerLimit,       \* the least number of too many digits for DECIMAL(18,2): 10^16
    MaxLength,          \* of a text: 255, as VARCHAR(255)
    Fields,             \* the text fields, customerId among them
    Requests,           \* what clients send
    Rounded,            \* the value, in thousandths, that is left of a JSON number's
                        \* once it was a double
    MaxRequests,        \* bound on the requests served
    Absent              \* a field, header, answer or payment that is not there

ASSUME InputAssumption ==
    /\ {Base, IntegerLimit, MaxLength, MaxRequests} \subseteq Nat \ {0}
    /\ "customerId" \in Fields

\* The powers of Base, as far as there are places.
Scale == [places \in 0 .. 3 |->
            CASE places = 0 -> 1
              [] places = 1 -> Base
              [] places = 2 -> Base * Base
              [] places = 3 -> Base * Base * Base]

IsText(t) ==
    \/ t = Absent
    \/ /\ t = [word |-> t.word, pad |-> t.pad]
       /\ {t.word.length, t.word.units, t.pad} \subseteq Nat
       /\ t.word.length <= t.word.units
       /\ t.word.nul \in BOOLEAN

\* HTTP headers have no NUL.
IsHeader(t) == IsText(t) /\ (t # Absent => ~t.word.nul)

AmountType == [type: {"string", "number"}, decimal: BOOLEAN, zeros: Nat, integer: Nat,
               places: DOMAIN Scale, fraction: Nat]

\* What an amount says, in thousandths.
Thousandths(a) == a.integer * Scale[3] + a.fraction * Scale[3 - a.places]

\* One place more than is allowed stands for all that are.
ASSUME RequestsAssumption ==
    /\ \A r \in Requests :
        /\ r = [key |-> r.key, correlationId |-> r.correlationId, texts |-> r.texts,
                amount |-> r.amount, unknown |-> r.unknown]
        /\ IsHeader(r.key) /\ IsHeader(r.correlationId)
        /\ \A f \in Fields : IsText(r.texts[f])
        /\ \/ r.amount = Absent
           \/ /\ r.amount \in AmountType /\ r.amount.fraction < Scale[r.amount.places]
              /\ r.amount.type = "number" => Rounded[Thousandths(r.amount)] \in Nat
    /\ Absent \notin Nat \cup AmountType

VARIABLES
    payments,           \* the Payment rows, oldest first
    records,            \* the IdempotencyRecord rows
    log                 \* the requests served and their answers

vars == <<payments, records, log>>

Init ==
    /\ payments = <<>>
    /\ records = {}
    /\ log = <<>>

-----------------------------------------------------------------------------
(* The schema. Fastify's Ajv runs with its defaults: it coerces scalars to *)
(* the type asked for and drops what additionalProperties does not allow.  *)

RawLength(t) == t.word.length + t.pad

\* At least one and at most 255 characters, one of them not white space.
requiredStringSchema(t) ==
    /\ t # Absent
    /\ t.word.length > 0
    /\ RawLength(t) <= MaxLength

\* ^\d+(?:\.\d{1,2})?$
AMOUNT_PATTERN(a) == a.decimal /\ a.places <= 2

\* The shortest decimal of a value in thousandths, which has no zeros at the end
\* of its fraction.
Printed(a, value) ==
    LET rest == value % Scale[3]
        places == CHOOSE p \in 0 .. 3 :
            /\ rest % Scale[3 - p] = 0
            /\ \A q \in 0 .. p - 1 : rest % Scale[3 - q] # 0
    IN  [a EXCEPT !.type = "string", !.integer = value \div Scale[3],
                  !.places = places, !.fraction = rest \div Scale[3 - places]]

\* A number has become a double, by JSON.parse, before it becomes a string.
Coerced(a) ==
    IF a = Absent \/ a.type = "string" THEN a ELSE Printed(a, Rounded[Thousandths(a)])

Validated(r) == [r EXCEPT !.amount = Coerced(@), !.unknown = FALSE]

submitPaymentSchema(r) ==
    /\ requiredStringSchema(r.key)
    /\ r.correlationId # Absent => requiredStringSchema(r.correlationId)
    /\ \A f \in Fields : requiredStringSchema(r.texts[f])
    /\ r.amount # Absent /\ AMOUNT_PATTERN(r.amount)

-----------------------------------------------------------------------------
(* Normalisation                                                           *)

trim(t) == [t EXCEPT !.pad = 0]

\* Mutant: a replay must be written as the original.
NoTrim(t) == t

normalizeRequiredString(t) == trim(t)
RequiredString(t) == trim(t).word.units \in 1 .. MaxLength

\* Mutant: one digit too many.
SupportedAmountOneDigitMore(a) ==
    /\ AMOUNT_PATTERN(a)
    /\ a.integer > 0 \/ a.fraction > 0
    /\ a.integer < Base * IntegerLimit

\* Positive, of at most 16 integer digits.
SupportedAmount(a) ==
    /\ AMOUNT_PATTERN(a)
    /\ a.integer > 0 \/ a.fraction > 0
    /\ a.integer < IntegerLimit

\* Mutant: the fraction's digits are taken for cents.
FractionIsCents(a) == [integer |-> a.integer, cents |-> a.fraction]

\* toFixed(2), of at most two places
normalizeAmount(a) ==
    [integer |-> a.integer, cents |-> a.fraction * Scale[2 - a.places]]

normalizePaymentSubmission(r) ==
    [texts |-> [f \in Fields |-> normalizeRequiredString(r.texts[f])],
     amount |-> normalizeAmount(r.amount)]

\* The domain's own refusals: InvalidPaymentRequestError.
Normalizable(r) ==
    /\ \A f \in Fields : RequiredString(r.texts[f])
    /\ SupportedAmount(r.amount)
    /\ RequiredString(r.key)
    /\ r.correlationId # Absent => RequiredString(r.correlationId)

hashPaymentSubmission(payment) == <<"sha256", payment>>

-----------------------------------------------------------------------------
(* The handlers                                                            *)

Answer(code, id, payment) == [code |-> code, id |-> id, payment |-> payment]
Refused(code) == Answer(code, Absent, Absent)

Log(method, request, answer) ==
    log' = Append(log, [method |-> method, request |-> request, answer |-> answer])

findByIdempotencyKey(customer, key) ==
    {r \in records : r.customer = customer /\ r.key = key}

resolveExistingPayment(existing, requestHash) ==
    IF existing.requestHash = requestHash
    THEN Answer(200, existing.id, payments[existing.id])
    ELSE Refused(409)

\* DECIMAL(18,2) has 16 integer digits, VARCHAR(255) has 255 characters, and no
\* text has a NUL. A customerId with one fails the look-up before, which is
\* answered alike.
FitsColumns(payment) ==
    /\ payment.amount.integer < IntegerLimit
    /\ \A f \in Fields :
        payment.texts[f].word.length <= MaxLength /\ ~payment.texts[f].word.nul

createPaymentSubmission(sent, payment, key, requestHash) ==
    IF FitsColumns(payment)
    THEN /\ payments' = Append(payments, payment)
         /\ records' = records \cup
                {[customer |-> payment.texts["customerId"], key |-> key,
                  requestHash |-> requestHash, id |-> Len(payments) + 1]}
         /\ Log("POST", sent, Answer(202, Len(payments) + 1, payment))
    ELSE Log("POST", sent, Refused(500)) /\ UNCHANGED <<payments, records>>

submitPayment(sent, r) ==
    LET payment == normalizePaymentSubmission(r)
        key == trim(r.key)
        requestHash == hashPaymentSubmission(payment)
        found == findByIdempotencyKey(payment.texts["customerId"], key)
    IN  IF found = {}
        THEN createPaymentSubmission(sent, payment, key, requestHash)
        ELSE /\ \E existing \in found :
                    Log("POST", sent, resolveExistingPayment(existing, requestHash))
             /\ UNCHANGED <<payments, records>>

\* POST /v1/payments
Post(sent) ==
    LET r == Validated(sent) IN
    /\ Len(log) < MaxRequests
    /\ IF submitPaymentSchema(r) /\ Normalizable(r)
       THEN submitPayment(sent, r)
       ELSE Log("POST", sent, Refused(400)) /\ UNCHANGED <<payments, records>>

\* 404 for an identifier no payment has; the schema refuses what is no UUID.
getPayment(id) ==
    IF id \in DOMAIN payments THEN Answer(200, id, payments[id]) ELSE Refused(404)

\* GET /v1/payments/:paymentId and its /events
Get(id) ==
    /\ Len(log) < MaxRequests
    /\ Log("GET", id, IF id = Absent THEN Refused(400) ELSE getPayment(id))
    /\ UNCHANGED <<payments, records>>

Next ==
    \/ \E sent \in Requests : Post(sent)
    \/ \E id \in 1 .. MaxRequests \cup {Absent} : Get(id)

Spec == Init /\ [][Next]_vars

-----------------------------------------------------------------------------
(* Properties                                                              *)

\* What a request says, however it is written: its words and its amount.
Meaning(r) ==
    [words |-> [f \in Fields |-> r.texts[f].word], thousandths |-> Thousandths(r.amount)]

\* An amount that arrives as it was sent: written as a string, or a number that
\* a double does not round. Those of at most 15 significant digits are not.
Exact(r) ==
    r.amount # Absent /\ r.amount.type = "number" =>
        Rounded[Thousandths(r.amount)] = Thousandths(r.amount)

Posts == {i \in DOMAIN log : log[i].method = "POST"}
Accepted == {i \in Posts : log[i].answer.code \in {200, 202}}

SameUse(r, s) ==
    /\ trim(r.key) = trim(s.key)
    /\ trim(r.texts["customerId"]) = trim(s.texts["customerId"])

(* A key used again for the same payment, written in any other way (spaces *)
(* around a text or the key, 250 for 250.00), is answered with the payment *)
(* of the first use; for another payment it is a conflict. Neither creates *)
(* a payment. Amounts sent as numbers that a double rounds are excepted:   *)
(* by then two different ones may be the same.                             *)
SameMeaningSamePayment ==
    \A i \in Accepted, j \in Posts :
        i < j /\ log[j].answer.code # 400 /\ SameUse(log[i].request, log[j].request)
              /\ Exact(log[i].request) /\ Exact(log[j].request) =>
            LET same == Meaning(log[i].request) = Meaning(log[j].request) IN
            /\ log[j].answer.code = IF same THEN 200 ELSE 409
            /\ log[j].answer.id = IF same THEN log[i].answer.id ELSE Absent

\* There is a text, and it fits when characters and when UTF-16 units are counted.
BadText(t) ==
    \/ t = Absent \/ t.word.length = 0
    \/ t.word.length + t.pad > MaxLength \/ t.word.units > MaxLength

\* A rule is broken, the texts taken as they were sent: one is missing, blank or
\* too long, or the amount is no decimal of two places, positive and in range.
\* A number has the places it needs.
BreaksRule(r) ==
    \/ \E t \in {r.texts[f] : f \in Fields} \cup {r.key} : BadText(t)
    \/ r.correlationId # Absent /\ BadText(r.correlationId)
    \/ r.amount = Absent
    \/ ~r.amount.decimal
    \/ Thousandths(r.amount) \notin 1 .. IntegerLimit * Scale[3] - 1
    \/ IF r.amount.type = "string" THEN r.amount.places > 2
       ELSE Thousandths(r.amount) % Base # 0

(* 400 is answered to exactly the requests that break a rule, and no       *)
(* column refuses what the schema and the normalisation let through, which *)
(* would be a 500, but for a text with a NUL. The rules are those that are *)
(* enforced. Two of docs/api-design.md are not: unknown properties (:14)   *)
(* are dropped, and amounts that are no strings (:77) become strings. A    *)
(* text is too long already if it has more than 255 UTF-16 units. Numbers  *)
(* that a double rounds are excepted: README.md:229 ("never binary         *)
(* floating point") does not hold of them.                                 *)
RefusedIffRuleBroken ==
    \A i \in Posts :
        LET r == log[i].request IN
        /\ log[i].answer.code = 500 => \E f \in Fields : r.texts[f].word.nul
        /\ Exact(r) => (log[i].answer.code = 400 <=> BreaksRule(r))

\* A payment has the words and, with exactly two decimal places, the amount of
\* a request.
Shows(payment, r) ==
    /\ payment.amount.cents < Scale[2]
    /\ (payment.amount.integer * Scale[2] + payment.amount.cents) * Base
            = Meaning(r).thousandths
    /\ \A f \in Fields : payment.texts[f].word = Meaning(r).words[f]

\* An entry of the log is about the payment of this identifier.
Names(entry, id) ==
    entry.answer.id = id \/ (entry.method = "GET" /\ entry.request = id)

(* What was asked for is what is stored and shown: an accepted payment can *)
(* be retrieved at once, and a GET or a replay that names it shows the     *)
(* texts and the amount of the request that created it, unless the amount  *)
(* was sent as a number that a double rounds.                              *)
ShownAsSubmitted ==
    \A i \in Accepted, j \in DOMAIN log :
        log[i].answer.code = 202 /\ i <= j /\ Names(log[j], log[i].answer.id) =>
            /\ log[j].answer.code = IF i = j THEN 202 ELSE 200
            /\ Exact(log[i].request) => Shows(log[j].answer.payment, log[i].request)
=============================================================================
