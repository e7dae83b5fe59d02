# A verification of the ACH payment processing service

TLA+ models of the payment service in `src/`, the TLC runs that check them on
small instances, and TLAPS proofs of the properties that matter most for every
instance. Source paths below are relative to `src/`.

## The system

A client submits a payment over HTTP. The API stores it in PostgreSQL together
with an idempotency record, its first audit event and outbox rows, in one
transaction. A dispatcher process polls the outbox and turns rows into BullMQ
jobs. Workers take the jobs: a payment worker claims an attempt, calls the bank
and records the result, which may schedule a retry (another outbox row, another
job). Every change of a payment's status is an audit event, for which a second
kind of outbox row asks for webhooks: the dispatcher fans it out into one
delivery per enabled subscription of the customer, and webhook workers send
the deliveries, with retries of their own.

Any number of API processes, dispatchers and workers may run. They share only
the database and the queue. All the code's concurrency control is in the `where`
clauses of `updateMany` (compare-and-set), unique indexes and transactions.

### Inventory

| Component (source) | State | Operations | Interacts with | Hard behaviour | Correct when |
|---|---|---|---|---|---|
| Payment state machine, retry delay (`src/domain/payment-state-machine.ts`, `src/services/payment-processor.ts`) | none | `isPaymentTransitionAllowed`, `calculateRetryDelay` | used by all payment code | last attempt, exponent | only legal histories occur |
| Payment submission (`src/services/payment-service.ts`, `src/repositories/prisma-payment-repository.ts`, `src/domain/payment.ts`, `src/api/routes/payments.ts`) | payments, idempotency records, first events, outbox rows | validate, normalise, hash, find by key, create, resolve, show | API clients; outbox | concurrent requests with one key; a violated unique index; repeats while the first is served; the same request written differently | one payment per customer and key, agreeing answers, genuine conflicts; what is stored is what was asked for |
| Payment processor (`src/services/payment-processor.ts`, `src/repositories/prisma-payment-processing-repository.ts`) | `status`, `attemptCount`, `nextRetryAt`, events, outbox rows; locals across awaits | claim, call the bank, transition | bank, outbox, worker | two jobs for one payment; stale reads; a call that threw; a crash between steps | a claim is exclusive, one bank call per attempt, complete audit trail, no lost work |
| Bank client (`src/bank/`) | none here | `executePayment` | processor | it may throw though the payment was executed; the simulated one counts attempts | its result is not taken for more than it says; references end as documented |
| Payment outbox dispatcher (`src/services/outbox-dispatcher.ts`, `src/repositories/prisma-outbox-repository.ts`, `src/workers/outbox-dispatcher.ts`) | unpublished rows; the batch in memory; whose turn it is | find, publish, mark, record failure | outbox, queue | two dispatchers on the same rows; death between publish and mark; partial batches | a published row has its job; every row is published |
| Payment queue and worker (`src/queues/payment-queue.ts`, `src/workers/create-payment-worker.ts`) | jobs by identifier (BullMQ) | add, take, complete, delay, fail, stall | dispatcher, processor | same identifier twice; lapsed locks; early jobs; a handler that throws | waiting payments have a job that will run |
| Webhook subscriptions (`src/services/webhook-subscription-service.ts`, `src/repositories/prisma-webhook-subscription-repository.ts`, `src/api/routes/webhooks.ts`) | subscriptions | create, list, enable, disable | fan-out, delivery | a PATCH between another one's update and read; the many ways to write a host | stored subscriptions keep the rules; answers are true |
| Webhook fan-out (`src/services/webhook-event-materializer.ts`, `src/repositories/prisma-webhook-event-repository.ts`) | deliveries, outbox rows | materialize an event | events, subscriptions, outbox | two dispatchers fan out one event, long after it was committed | nobody who stayed subscribed is missed, nothing that exists is created over |
| Webhook delivery (`src/services/webhook-delivery-processor.ts`, `src/repositories/prisma-webhook-delivery-repository.ts`) | delivery `status`, `attemptCount`, `nextAttemptAt` | claim, stop, post, mark delivered, record failure | endpoint, subscriptions, outbox | an attempt under way does not show in the status; errors after a 2xx | one request per attempt; outcomes are true; final is final |
| Webhook queue, worker and job dispatcher (`src/queues/webhook-queue.ts`, `src/workers/create-webhook-worker.ts`, `src/services/webhook-job-outbox-dispatcher.ts`) | jobs by identifier | as for payments | fan-out, delivery | a claim refused late drops the job | a published row has its job; deliveries end |
| Request schemas (`src/api/schemas/`) | none | refuse or coerce a request | routes | coercion before any rule is looked at | as part of submission and subscriptions |
| Webhook HTTP client, development receiver, configuration, wiring | connections | I/O | | | not modelled |

`PROJECT.json` lists the components with what is modelled of each, and the
hazards with the line of code and the properties that would catch each.

## Modules

| Module | Models |
|---|---|
| `PaymentDomain` | statuses, allowed transitions, backoff, the outbox rows of payments |
| `PaymentLifecycle` | the abstract promise: what an outsider may see happen to a payment |
| `PaymentProcessing` | the processor: concurrent calls of `processPayment`, split at every await |
| `JobQueue` | BullMQ by what the code relies on, used by both pipelines (external) |
| `PaymentPipeline` | outbox, dispatchers, queue and workers around `PaymentProcessing` |
| `SimulatedBank` | `PaymentPipeline` with the bank client the service is run with |
| `PaymentSubmission` | `submitPayment`: concurrent and repeated requests under idempotency keys |
| `SubmissionInput` | what a client may write: schema, normalisation, columns, and what a GET shows |
| `WebhookLifecycle` | the abstract promise: what the owner of an endpoint may see happen |
| `WebhookDelivery` | subscriptions' states, fan-out and delivery of webhooks |
| `WebhookPipeline` | events' and deliveries' outbox rows, dispatchers, queue and workers around `WebhookDelivery` |
| `WebhookSubscriptions` | the subscriptions API: rules, statements and the races between them |
| `PaymentProcessingProofs`, `PaymentPipelineProofs`, `PaymentSubmissionProofs`, `SimulatedBankProofs`, `SubmissionInputProofs`, `WebhookDeliveryProofs`, `WebhookPipelineProofs`, `WebhookSubscriptionsProofs` | theorems about the module in their name |
| `MC...` | symmetry sets and the requests of the input runs; the constants of each run are in its `.cfg` |

`PaymentProcessing` implements `PaymentLifecycle`, and `PaymentPipeline` implements
`PaymentProcessing`; `SimulatedBank` restricts `PaymentPipeline`. For webhooks,
`WebhookDelivery` implements `WebhookLifecycle` and `WebhookPipeline` implements
`WebhookDelivery`.

### How state and actions correspond to the code

* **Tables** are one function per column from row identifiers, `NULL` for no row
  (`status`, `attemptCount`, `nextRetryAt`; webhooks alike), a set of rows
  (`records`, `outbox`), or a sequence where the order counts. Columns no property
  tells apart are left out.
* **An await** is a value of `pc`. A task (one call of `processPayment` or
  `process`) or handler (one request) runs from one await to the next in one
  step. What the code keeps in local variables across awaits is in `job`,
  `snapshot`, `reply`, `failure` and `call`.
* **A read and its later update are two steps.** `claimPaymentAttempt` reads the
  row (`ClaimRead`) and then updates it under a `where` clause (`ClaimMatches`),
  with the row as it is *then*. The update of zero rows is `ClaimLost`. An
  `updateMany` is atomic on its row, and it holds the row's lock to the end of its
  transaction, so what follows a successful one in the same transaction is in the
  same action: event, webhook row and retry row. `setEnabled` of the subscriptions
  API updates and reads back outside a transaction: two steps.
* **The environment of `PaymentProcessing` and `WebhookDelivery`** is the weakest
  queue there is: any outbox row's job, at any time, any number of times, to any
  number of tasks. `PaymentPipeline` and `WebhookPipeline` replace it by the
  dispatcher and BullMQ, and are shown to restrict it only.
* **The bank** is `executed`, `calls` and `answeredAt`, variables the code cannot
  read. A call may succeed, fail for good, fail for now, or throw, with or
  without having moved the money. In `SimulatedBank` each payment has a
  `reference`, the set of the markers its text contains, and the answer is
  `SimulatedBankClient`'s; a payment without one keeps the bank above.
* **The endpoint** is `posts`, `answeredAt` and `acknowledged`, unread likewise.
* **The clock** `now` advances only while some retry time lies ahead
  (`TimerPending`). All processes read one clock; the queue's own may differ, so
  `Promote` may hand a delayed job out early.
* **A dispatcher** of payments is `polling`, `publishing` or `marking`. Of
  webhooks it is `polling`, `handling` or `marking`, and a fan-out transaction
  under way is `fanout`, split between its reads and its writes. A batch is at most
  `BatchSize` rows, the oldest unpublished of one type; the types take turns as in
  the loop of `src/workers/outbox-dispatcher.ts`. One process runs the payment and
  the webhook half of the loop one after the other; they share no row and no job,
  so each half has its own module, and a process that is at the other half is one
  that takes no step here.
* **Rows of one statement** have the same `createdAt`, so `AddRows` appends the
  rows of one fan-out in any order.
* **BullMQ** is external: identifiers are unique for as long as the job is kept
  (the code keeps completed and failed jobs), a job has one lock holder, a lapsed
  lock makes it waiting again `MaxStalledCount` times and failed after that.
* **Requests** to `PaymentSubmission` are a content and a format. Normalisation
  drops the format, the hash is one to one with the content. `SubmissionInput` is
  where formats are taken apart. A text is a word among white space; the word has a
  length in characters, which Ajv counts, and one in UTF-16 units, which
  `src/domain/payment.ts:32` counts, and may contain NUL, which PostgreSQL refuses.
  An amount is its leading zeros, integer part and a fraction of so many places, as
  a string or a number. One place more than the two allowed stands for any number
  more. Answers are kept with the request they belong to.
* **A JSON number** is a double before Ajv makes a string of it. `Rounded` is the
  value of the shortest decimal of that double, and `Printed` how it is written. A
  number of at most 15 significant digits keeps its value (`Exact`); beyond, it may
  not, far below 2^53 too: 90071992547409.93 arrives as 90071992547409.94.
* **A URL** in `WebhookSubscriptions` is what the schema and the service ask of it:
  whether it has the format `uri`, whether the URL class parses it, length,
  protocol, host, credentials. `hostname` is what the URL class makes of a host.
* **External**: BullMQ; `JSON.parse`; the defaults of Fastify, whose Ajv coerces
  scalars and drops unknown properties (`Coerced`, `Validated`) and whose router
  takes path parameters of at most 100 UTF-16 units (`MaxParam`).

### The plan

Done, in this order: `PaymentDomain`, `PaymentLifecycle`, `PaymentProcessing`
with its proofs, `PaymentPipeline` with its refinement, `PaymentSubmission` with
its proofs, `WebhookDelivery` with its proofs, `WebhookPipeline` and
`WebhookLifecycle` with their proofs, `SimulatedBank`, `SubmissionInput`,
`WebhookSubscriptions` with its proofs, and then the proofs of what the two
pipelines, the simulated bank, the input of a submission and the subscriptions
promise beyond the modules they are built on.

Left: submission composed with processing. The payments `PaymentSubmission`
creates are those `PaymentProcessing` processes, so that "accepted once" and
"executed once" become one statement.

## Runs

Deadlock is checked and none is found, except in `submission_input`, whose
clients stop after two requests: elsewhere clients can always repeat a request,
dispatchers poll forever, and in the modules without a queue an outbox row can
always be delivered again.

| Run | Question | Bounds |
|---|---|---|
| `processing` | Is a payment processed safely whatever the queue does? | 1 payment, 3 tasks, 3 attempts |
| `pipeline_safety` | Do dispatchers and workers lose or misreport work under any two faults, and does every reference end as documented? | 1 payment, 5 references and another bank, 2 workers, 2 dispatchers, batch of 2, 3 attempts |
| `pipeline_live` | Is every accepted payment settled, or left only by a worker that died or a job that threw or stalled too often? | 1 payment, 2 workers, batch of 2, 3 attempts, 2 faults of any kind |
| `pipeline_throw` | Does work survive a database error in a job? (finding) | 1 payment, 1 worker, 1 fault |
| `submission` | Is idempotency kept under races, repeats and failures? | 2 handlers, 2 customers, 1 key, 2 contents in 2 formats, 3 identifiers |
| `submission_input` | Does every way to write a request mean what it should? | 2 requests; one part of them varies over all its spellings |
| `webhook_delivery` | Is a delivery sent and recorded correctly? | 1 delivery, 2 workers, 2 materializers, 3 attempts |
| `webhook_answers` | Does a 2xx always count? (finding) | 1 delivery, 1 worker, 1 attempt |
| `webhook_pipeline` | Do dispatchers and workers lose or misreport events and deliveries under any fault? | 1 event, 1 subscription that changes, 2 workers, 2 dispatchers, 2 attempts, 1 fault |
| `webhook_pipeline_live` | Is every event fanned out, every delivery ended? | 1 event, 1 subscription, 2 workers, 3 attempts, 1 fault of any kind |
| `webhook_pipeline_disabled` | Is waiting work of a disabled subscription stopped? (finding) | 1 event, 1 worker, 1 attempt, no fault |
| `subscriptions` | Are subscriptions stored, changed and listed as documented? | 2 handlers, 2 subscriptions; one part of a body varies at a time |

Why these are enough: three attempts give a first, a middle and a last one, which
the code treats differently, and two different delays; `TEMP_FAIL_TWICE` needs three
to succeed. Two tasks race for a claim; a third can hold a stale read across both.
Two dispatchers are needed to publish a row again after it was marked, one restart
to publish it again before; a batch of two is needed for the rest of a batch to be
lost. Two handlers race for a key; three identifiers let both customers have their
payment and still leave room for a wrong extra one. The delay base is one tick, so
the delays are 1 and 2 ticks. The liveness runs have two workers, so that a job is
taken over while the worker that had it still runs it, and that of the payments two
faults, so that a job stalls once too often. `MaxFaults` bounds only the faults that
the question is about; `Abandon` in `PaymentProcessing` and `WebhookDelivery`,
`Fail` in `PaymentSubmission` and `WebhookSubscriptions` and lost answers are
unbounded.

The input modules are scaled down: `SubmissionInput` counts in base 2 with at most
two integer digits and texts of two characters, in place of base 10, 16 digits and
255 characters, and its doubles have a mantissa of three binary digits in place of
53, so some numbers are exact, some are rounded up, down, or past the limit. The
code compares with its limits and nothing else, so each limit is met, missed by one
and exceeded by one. `WebhookSubscriptions` has secrets of 2 to 3 characters in
place of 16 to 1024, customers of at most 3 in place of 255, path parameters of 2 in
place of 100 and URLs of 1 in place of 2048, and runs outside production; the rule
of production is part of theorem `SubscriptionsAllowed`, for every value of the
constants. That several payments or deliveries do not disturb each other is in the
theorems, which have any number of them; liveness is checked of one payment, and of
one event and delivery, only.

Task, dispatcher, handler, payment and customer identities are interchangeable, so
the safety runs use symmetry; the liveness runs do not.

### What they show

* **Claims.** While one task is between claim and result no other works on the
  payment, although the transition's `where` names only the status
  (`ClaimExclusive`). So the bank is called at most once per attempt
  (`BankCalledOncePerAttempt`), never before the backoff after its last answer has
  passed (`RetryWaitsForDelay`), never after settlement (`TerminalIsFinal`).
* **Records.** The audit events of a payment are a legal history without gaps,
  ending in its status, each with its webhook row (`AuditTrailComplete`). COMPLETED
  is said only of what the bank executed (`CompletedMeansExecuted`). The converse
  does not hold: a call that threw at the last attempt ends in FAILED whatever
  the bank did. Nothing in the repository says otherwise.
* **Work.** A waiting payment has a row whose job can claim it
  (`WaitingPaymentHasTicket`); a row marked published has its job
  (`PublishedMeansQueued`); early jobs are put back, not reported done
  (`WaitingWorkNotCompleted`). Every payment is settled but one that a dead worker
  had claimed, the gap the documentation names, or whose job threw, finding 1
  (`SettledOrLeft`); without faults of these two kinds and
  with locks that lapse no more than `MaxStalledCount` times neither happens, so
  every payment is settled.
* **The simulated bank.** Jobs that come early, late or twice, restarts and lost
  locks do not shift the count of attempts: a settled payment has the documented
  end and history of its reference, or failed at the last attempt
  (`SettlesAsDocumented`).
* **Idempotency.** All accepting answers for one customer and key agree and name a
  stored payment whose processing is requested (`AnswersAgree`,
  `AcceptedIsDurable`), 409 means another content (`ConflictIsGenuine`), losers and
  failures leave nothing behind (`EveryPaymentHasItsKey`), and the loser of a race
  finds the winner (`LoserFindsWinner`).
* **Input.** A request written differently is the same request
  (`SameMeaningSamePayment`), 400 is answered exactly to those that break a rule
  the code enforces, and no column refuses what passed (`RefusedIffRuleBroken`), and
  amounts and texts are stored and shown as they were meant (`ShownAsSubmitted`).
  The exceptions are stated in the properties: amounts sent as numbers that a double
  rounds; a text with a NUL passes the schema and the domain, and the
  database's refusal is a 500; a text of at most 255 characters but more UTF-16
  units passes the schema and is refused by the domain.
* **Webhooks.** One owner and one request per attempt, though the status does not
  show that an attempt is under way (`AttemptExclusive`, `PostedOncePerAttempt`);
  DELIVERED and FAILED are true and final (`OutcomeIsTruthful`,
  `ImplementsLifecycle`); no attempt starts while the subscription is disabled or
  before the backoff (`AttemptsAreAllowed`); a waiting delivery has its row
  (`WaitingDeliveryHasTicket`).
* **Webhook work.** A row is marked only after its deliveries or its job exist
  (`PublishedMeansDone`); whoever was subscribed at the event and stays so gets a
  delivery (`FanoutReachesSubscribers`); jobs of waiting deliveries are not reported
  done, the claim of finding 3 excepted (`WaitingWorkNotCompleted`). Every event is
  fanned out (`EveryEventIsMaterialized`). Every delivery ends, unless its
  subscription is disabled at some time, the worker that counted its attempt died,
  or its job threw or stalled too often (`SettledOrLeft`).
* **Subscriptions.** What is stored keeps the rules and what keeps them is stored,
  however localhost or 127.0.0.1 is written in it and with the exception of HTTP to
  `[::1]` (`StoredIsAllowed`, `AllowedIsAccepted`); a PATCH
  shows its own value or one written meanwhile (`UpdateShowsItsValue`); a listing
  is exact (`ListingIsExact`).

### Findings

1. `pipeline_throw`: payment jobs are added without BullMQ's `attempts`
   (`src/queues/payment-queue.ts:14`), so one database error that escapes
   `claimPaymentAttempt` fails the job for good, and its identifier, being kept,
   blocks a new one. The accepted payment waits forever, against
   `docs/PERSONAL_PROJECT_GUIDE.md:864`, "Unclaimed queue work remains available
   through BullMQ."
2. `webhook_answers`: `markDelivered` is inside the `try` of the request
   (`src/services/webhook-delivery-processor.ts:102`). A database error after a 2xx is
   handled as a failure of the endpoint: the delivery is sent again or, at the last
   attempt, FAILED, against `README.md:162`, "Any `2xx` response succeeds."
3. `webhook_pipeline_disabled`: a claim whose update finds the subscription
   disabled (`src/repositories/prisma-webhook-delivery-repository.ts:128`) is
   SKIPPED and its job is done, so the delivery is neither stopped nor sent, not
   even when the subscription is enabled again, against
   `docs/PERSONAL_PROJECT_GUIDE.md:582`, "existing work is stopped without sending".

Other disagreements between documents and code, met while modelling. The models
have the code's side; no run is spent on them:

* Unknown properties of a request are dropped and the request accepted
  (`src/api/schemas/payments.ts:148`), where `docs/api-design.md:14` has them
  rejected; numbers for amounts are coerced to strings (`:160`), where
  `docs/api-design.md:77` asks for strings. Both are defaults of Fastify's Ajv.
* A number for an amount has been a double before it is a decimal, against
  `README.md:229`, "never binary floating point". 90071992547409.93 is stored and shown
  as 90071992547409.94, and the same amount as a string is then a conflict;
  1.00000000000000001 is accepted as 1.00. The properties of `SubmissionInput` except
  such amounts (`Exact`); those they speak of may be strings or numbers.
* A text of at most 255 characters with more than 255 UTF-16 units passes the schema
  and is refused by `src/domain/payment.ts:32`; one with a NUL passes both and is
  answered with a 500 (`RefusedIffRuleBroken` says so).
* `http://[::1]` is refused outside production, since `hostname` keeps the brackets of
  an IPv6 address (`src/services/webhook-subscription-service.ts:51`), against
  `README.md:284`. `AllowedIsAccepted` makes the exception.
* A customer whose name is longer than the 100 UTF-16 units of a path parameter, which
  the schemas and columns allow, cannot be listed (`src/api/routes/webhooks.ts:48`):
  the router answers 404, where `docs/api-design.md:233` promises a list.
* A claim leaves the status, so PENDING does not mean "No HTTP attempt has
  occurred yet" (`docs/data-model.md:94`); see the `posting` state of `WebhookDelivery`.
* The signing secret is trimmed before it is stored and signed with; a receiver
  that registered one with white space around it verifies with another
  (`docs/api-design.md:280`).

### Fairness

Only the liveness runs `pipeline_live`, `webhook_pipeline_live` and
`webhook_pipeline_disabled` assume any, all of it weak. A dispatcher keeps looping:
its loop in `src/workers/outbox-dispatcher.ts` catches the errors of a batch and
polls again. A call in a worker goes on to its next await: Node's event loop runs
every ready callback. This assumes that awaited calls end; the bank call has no
timeout of the service's own, so it is an assumption about the bank client that it
answers or throws (a webhook request has one). The queue hands out waiting jobs,
promotes delayed ones and notices lapsed locks: what BullMQ does. Time passes while
somebody waits for it. Faults, submissions, events and changes of subscriptions are
never assumed to happen.

## Proofs

All theorems hold for every value of the constants that satisfies the named
assumptions (`MaxAttemptsAssumption`, `BaseDelayAssumption`, `NullAssumption`,
`PipelineAssumption`, `SubmissionAssumption`, `InputAssumption`, `WebhookAssumption`,
`SubscriptionsAssumption`: attempts, delays and limits are numbers, positive where
the code needs it, subscriptions are finitely many, `NULL` is none of the values it
is told apart from). For webhooks `NULL` is not a set of subscriptions either, and
with the simulated bank not a set of markers (`ReferencesAssumption`): an event
nobody subscribed to is an event, and a reference without a marker a reference.
`RequestsAssumption` says what a request is: texts with white space and a word of no
more characters than UTF-16 units, or none; headers alike, without NUL; and an amount
whose fraction has as many digits as it has places, or none. A number's value is a
natural number still when it is rounded; nothing else is assumed of `Rounded`.

**PaymentProcessing.** `TypeCorrect` first. `ClaimExclusive` is not inductive: that
no second claim succeeds on a row it read before the first one depends on what
a claim reads. `ClaimInv` adds `SnapshotClaimable`: what a task has read was
claimable, so its status is PENDING or RETRYING, and a compare-and-set against it
fails as long as the payment is PROCESSING. `BankCalledOnce` counts calls against
attempts along `ClaimInv`. `WorkIsNeverLost` needs to know what a task will write:
`ReplyInv` says that the settlement it holds is RETRYING only before the last
attempt, with a retry time. `AuditTrailIsComplete` follows the sequence numbers;
`BackoffIsRespected` relates retry times to the bank's last answer. From these,
`ProcessorImplementsLifecycle`: initial states map to initial states and each
action to one of `PaymentLifecycle` or a stutter. `SettledIsFinal` states finality
of the rows themselves.

**PaymentPipeline.** Every step is a step of `PaymentProcessing` or leaves its
variables alone (`PipelineImplementsProcessing`), so its theorems hold of the
pipeline too; two are restated there. `PipelineTypeCorrect` needs that one
transaction writes at most one payment row (`OutboxStep`) and that a row leaves the
backlog without disturbing the others (`RemovingAt`): a dispatcher then holds rows
of the type whose turn it is, so only payment rows become jobs.

`PublishedIsQueued` needs more: a dispatcher that is marking has its job in the
queue, jobs never leave it, and a row has a job identifier because the attempts
that rows ask for are in range. That is `RequestsInv` of `PaymentProcessingProofs`:
retry rows ask for attempts up to the one that is waiting, and for that one only
while it waits.

`WaitingWorkIsKept` is about what a call knows when it finds nothing to claim. Its
read may be stale, so `SnapshotsInv` says what it still tells: a row that was read
as waiting for a retry waits for it unchanged, or that attempt has begun. Hence
`TicketClaims`: a call whose job is the one its payment waits for is neither refused
nor loses its claim, so a call that reports its job done had another. The inductive
invariant is `RunningAskedFor` (every running call has a row that asked for it),
`JobsAskedFor` (so has every job in the queue) and `TicketsOpen` (the job of a waiting
payment is not completed). A payment begins to wait for a job no row asked for
before (`BeginsToWait`, `NotYetAskedFor`), so that job was not there; that it is there
once its row is marked is `PublishedIsQueued`.

**SimulatedBank.** `ReferencesSettleAsDocumented`, for any `MaxAttempts` and whatever
fails. Two facts meet in it. `HistoriesFit`, for any bank: a payment with n attempts
has 2n + 1 events, or 2n while the last is under way, and between the first and the
last, which `AuditTrailIsComplete` gives, PROCESSING and RETRYING take turns.
`OutcomesFit`, for the simulated one: every attempt but the last ended in a retry,
and the last as the status says, because a call works on the attempt its payment is
at (`ClaimInv`) and what it heard is the answer of the reference at that number
(`RepliesFit`). So a payment ends at the first attempt that does not end in a retry
(`EndsAtFirst`), which each documented row names (`DocumentedEnd`).

**PaymentSubmission.** `SubmissionInv`: types; records are unique per customer and
key; each is sound (its payment exists, is its customer's, has its hash, and is
requested to be processed); each accepting answer is vouched for by a record.
Two answers for one key are vouched for by the same record, which gives
`AcceptingAnswersAgree` and `AcceptedPaymentsExist`. Steps are first brought into
four shapes (`StepShape`): a call starts, moves on, creates, or is answered.

**WebhookDelivery.** All properties its passing run checks. `AttemptExclusive` is
inductive only with `ClaimInv`: a task may have read a PENDING row only before
any attempt, rows a task works on exist, and rows that do not exist have no
attempts (so that a fan-out leaves counts alone, lemma `Materializing`). An
attempt under way is counted and has no retry time, which matches neither such a
read nor a due RETRYING row: `Claiming`. `PostedOncePerAttempt` follows, and
`SettledIsFinal`. `RetryInv` adds what a failing task will write and what a
waiting row was written with: a retry time after the backoff, a next attempt that
is allowed, an outbox row; it gives `WaitingDeliveryHasTicket` and
`AttemptsAreAllowed`. `OutcomeInv` adds the reasons of the workers (a 2xx, a disabled
subscription) and gives `OutcomeIsTruthful`. For `DeliveryImplementsLifecycle`, the phase of
a delivery is a function of its row (`PhaseOfRow`), and each kind of update is shown
to be a step of the lifecycle with `ClaimInv`, `PostedOncePerAttempt` and
`OutcomeInv` at hand: a fan-out creates, a claim begins, a request sends, a result
records or stops.

**WebhookPipeline.** `PipelineImplementsDelivery` as for payments, so the theorems
about deliveries hold of the pipeline; three are restated. `PipelineTypeOK` is
inductive by itself because it says what a batch is: positions of rows of the type
whose turn it is, so that no dispatcher hands a fan-out row to the queue, and that
an open transaction is that of the batch's first row. `PublishedMeansDone` is not:
it needs that requests name attempts in range, so that they have a job identifier
(`RangeInvariant`, along `FailuresFit` of the delivery proofs), that every delivery
has a row (`HaveRowsStep`), and that a dispatcher about to mark a row has
published its job (`MarkingStep`).

`FanoutMissesNobody`: the transaction of a fan-out reads the subscribers long after
the event was committed, and writes after others may have changed theirs.
`FanoutInv` says that whoever was subscribed and never disabled is enabled
(`SubscribersStayEnabled`), that only committed events have a fan-out row
(`EventsCommitted`), and that what an open transaction has read includes everybody who
is owed a delivery (`ReadsReachSubscribers`). Its writes then leave nobody out, and a
row is marked only by them.

`WaitingWorkIsKept` follows the argument of the payments, with two complications. An
attempt under way does not show in the status, so whether a delivery waits depends on
its count and retry time (`Waits`); and a claim whose update is refused drops the job,
which is finding 3 and the reason the property speaks of subscriptions that were
never disabled. The inductive invariant is `TurnInv` (requests are for attempts that
have had or have their turn, and what a task read is current until that attempt is
counted), `RunningAskedFor`, `JobsAskedFor` and `TicketsOpen`.

**SubmissionInput.** The arithmetic comes first. `Scale` lists the powers of the
base that occur, so no exponent is left and `ScaleSum` is all that is needed of
them. A number is printed with the value it was rounded to (`PrintedValue`: there is
a shortest printing, `PlacesExist`, and it drops zeros only), which is the one it
was sent with if it is `Exact` (`CoercedValue`); the limit on integer digits is a
limit on the value (`SupportedByValue`); the stored amount has the value of the
written one (`NormalizedValue`), so two amounts are stored alike exactly if they are
equal (`SameValueSameAmount`). Then the rules: the schema and the domain together
let through exactly those exact requests that break no rule (`PassesUnlessBroken`),
and two exact requests have the same hash exactly if they mean the same
(`SameMeaningSameStored`). With these every POST refuses, fails for a NUL, creates
or resolves (`PostCases`). The inductive invariant `InputInv` relates rows and
answers: records are unique and point to the payment whose hash they hold
(`RecordsSound`, `RecordsUnique`), an accepted request has its payment and record
(`AcceptedStored`), an answer shows the row it names (`AnswersShow`), nothing names
a payment before it is created (`CreatedOnce`) and a GET of an accepted payment
finds it (`GetsFind`). From it follow `SameRequestSamePayment`,
`RefusalsFollowRules` and `SubmissionsAreShown`, of requests whose amounts are
exact; of the others they do not hold.

**WebhookSubscriptions.** `SubscriptionsInv`: types; stored rows keep the rules and
are what their bodies meant; a PATCH between its two statements finds its own
value unless it is in `overwritten`. The run checks one form of production, the
theorem both. `AllowedAreAccepted` is the converse of the rules: a body that keeps
them is answered with 201, unless its URL is HTTP to `[::1]`, which is refused.

**Only model-checked.** Liveness under fairness, which this prover does not reach:
`SettledOrLeft` of both pipelines and `EveryEventIsMaterialized`. The findings are
counterexamples of TLC.

## Not modelled

* Configuration (`src/config/`): its values are the models' constants. The rest of
  `src/config/` opens connections.
* The webhook HTTP client and the development receiver: pure input and output; the
  outcomes of a request are inputs of `WebhookDelivery`. Payload and signature of
  webhooks, correlation identifiers, logging.
* Response schemas, Swagger, the health route, start-up and graceful shutdown: a
  process that stops is one that dies between two steps.
* The order of listings, and the events shown by a GET.
* Eviction of jobs from Redis, and Redis losing data.
* Serialization failures of the database: an error like any other.
* A `transitionProcessingPayment` that finds no payment, and one that finds it
  in another status: the model has the second, and `ClaimExclusive` is why neither
  happens; payments are never deleted.
* Requests with fields that are neither strings nor, for an amount, numbers; texts
  with a lone surrogate; and JSON numbers of more than three decimal places, which the
  third place stands for.
