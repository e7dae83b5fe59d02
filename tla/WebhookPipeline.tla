--------------------------- MODULE WebhookPipeline ---------------------------
(***************************************************************************)
(* The way of a payment event to the customer's endpoints: its outbox row, *)
(* the dispatcher processes that fan it out and turn the rows of its       *)
(* deliveries into queue jobs, the queue, and the workers that run         *)
(* WebhookDelivery's tasks. As in PaymentPipeline every step is one of     *)
(* WebhookDelivery with its effect on outbox and queue, or one that        *)
(* WebhookDelivery does not see.                                           *)
(***************************************************************************)
EXTENDS WebhookDelivery, FiniteSets, Sequences, Functions

CONSTANTS
    BatchSize,      \* OUTBOX_BATCH_SIZE
    MaxStalledCount,\* the queue's limit of takeovers of a job
    Faults,         \* the kinds of fault that may happen, see below
    MaxFaults       \* how many may happen in a behaviour

(* publish: an error when materializing an event, adding a job or marking  *)
(*          its row                                                        *)
(* restart: a dispatcher process dies, or an error ends its batch          *)
(* record:  an error of the database after a 2xx, inside the try           *)
(* throw:   a database error escapes process                               *)
(* die:     a worker process dies, or cannot report its job finished       *)
(* stall:   a worker is alive but lost the lock of its job                 *)
FaultKinds == {"publish", "restart", "record", "throw", "die", "stall"}

ASSUME PipelineAssumption ==
    /\ IsFiniteSet(Subscriptions)
    /\ BatchSize \in Nat \ {0}
    /\ MaxStalledCount \in Nat
    /\ Faults \subseteq FaultKinds
    /\ MaxFaults \in Nat

VARIABLES
    rows,           \* webhook rows of the outbox, in the order of createdAt
    published,      \* the positions of those with a publishedAt
    subscribers,    \* per event, the subscriptions enabled when it was committed
    \* Dispatchers: where they are, the type whose turn it is, the positions
    \* of the batch that are still to be handled
    dispatcherPc, mode, batch,
    jobState, jobOwner, stalledCount,   \* see JobQueue
    faults          \* faults so far

FANOUT == "WEBHOOK_DELIVERIES_REQUESTED"
DELIVERY == "WEBHOOK_DELIVERY_REQUESTED"
RowTypes == {FANOUT, DELIVERY}

FanoutRow(e) == [type |-> FANOUT, event |-> e]
DeliveryRow(request) == [type |-> DELIVERY, request |-> request]

JobIds == Deliveries \X (1..MaxAttempts)
webhookDeliveryJobId(request) == <<request.delivery, request.attemptNumber>>
TaskJob(t) == <<job[t].delivery, job[t].expectedAttemptNumber>>

INSTANCE JobQueue WITH Workers <- Tasks

queue == <<jobState, jobOwner, stalledCount>>
table == <<rows, published, subscribers>>
dispatchers == <<dispatcherPc, mode, batch>>
pipelineVars == <<vars, table, dispatchers, queue, faults>>

PipelineInit ==
    /\ Init
    /\ rows = <<>>
    /\ published = {}
    /\ subscribers = [e \in Events |-> NULL]
    /\ dispatcherPc = [m \in Materializers |-> "polling"]
    /\ mode = [m \in Materializers |-> FANOUT]
    /\ batch = [m \in Materializers |-> {}]
    /\ QueueInit
    /\ faults = 0

Fault(kind) ==
    /\ kind \in Faults
    /\ faults < MaxFaults
    /\ faults' = faults + 1

\* Rows of one statement have the same createdAt: any order.
AddRows(new) ==
    \E order \in [1..Cardinality(new) -> new] :
        /\ Range(order) = new
        /\ rows' = rows \o order

-----------------------------------------------------------------------------
(* The API                                                                 *)

\* A payment's status changed: the transaction adds the event's row.
CommitEvent(e) ==
    /\ subscribers[e] = NULL
    /\ subscribers' = [subscribers EXCEPT ![e] = {s \in Subscriptions : enabled[s] = TRUE}]
    /\ rows' = Append(rows, FanoutRow(e))
    /\ UNCHANGED <<vars, published, dispatchers, queue, faults>>

Subscribe(s) ==
    /\ create(s) \/ \E value \in BOOLEAN : setEnabled(s, value)
    /\ UNCHANGED <<table, dispatchers, queue, faults>>

-----------------------------------------------------------------------------
(* A dispatcher: materializeBatch and dispatchBatch in turn.               *)

\* Mutant: after the first events no others are looked for.
OtherModeDelivery(type) == DELIVERY

OtherMode(type) == IF type = FANOUT THEN DELIVERY ELSE FANOUT

findUnpublished(type) ==
    LET waiting == {i \in DOMAIN rows \ published : rows[i].type = type}
    IN  {i \in waiting : Cardinality({j \in waiting : j < i}) < BatchSize}

FetchBatch(m) ==
    /\ dispatcherPc[m] = "polling"
    /\ batch' = [batch EXCEPT ![m] = findUnpublished(mode[m])]
    /\ IF findUnpublished(mode[m]) = {}
       THEN mode' = [mode EXCEPT ![m] = OtherMode(@)] /\ UNCHANGED dispatcherPc
       ELSE dispatcherPc' = [dispatcherPc EXCEPT ![m] = "handling"] /\ UNCHANGED mode
    /\ UNCHANGED <<vars, table, queue, faults>>

Current(m) == CHOOSE i \in batch[m] : \A j \in batch[m] : i <= j

\* Mutant: the end of the batch is noticed one row too late.
NextRowOffByOne(m) ==
    /\ batch' = [batch EXCEPT ![m] = @ \ {Current(m)}]
    /\ dispatcherPc' = [dispatcherPc EXCEPT ![m] = IF batch[m] = {} THEN "polling" ELSE "handling"]
    /\ mode' = [mode EXCEPT ![m] = IF batch[m] = {} THEN OtherMode(@) ELSE @]

NextRow(m) ==
    LET rest == batch[m] \ {Current(m)} IN
    /\ batch' = [batch EXCEPT ![m] = rest]
    /\ dispatcherPc' = [dispatcherPc EXCEPT ![m] = IF rest = {} THEN "polling" ELSE "handling"]
    /\ mode' = [mode EXCEPT ![m] = IF rest = {} THEN OtherMode(@) ELSE @]

Handles(m, type) == dispatcherPc[m] = "handling" /\ mode[m] = type

\* The transaction finds its source row, or finds it published meanwhile.
BeginFanout(m) ==
    /\ Handles(m, FANOUT)
    /\ Current(m) \notin published
    /\ FindSource(m, rows[Current(m)].event)
    /\ UNCHANGED <<table, dispatchers, queue, faults>>

SkipFanout(m) ==
    /\ Handles(m, FANOUT)
    /\ fanout[m] = NULL
    /\ Current(m) \in published
    /\ NextRow(m)
    /\ UNCHANGED <<vars, table, queue, faults>>

ReadSubscriptions(m) ==
    /\ FindSubscriptions(m)
    /\ UNCHANGED <<table, dispatchers, queue, faults>>

NewRows(m) == {DeliveryRow(DeliveryRequest(<<s, fanout[m].event>>, 1, NULL)) :
                    s \in fanout[m].subscriptions}

Materialize(m) ==
    /\ materializeDeliveries(m)
    /\ AddRows(NewRows(m))
    /\ published' = published \cup {Current(m)}
    /\ NextRow(m)
    /\ UNCHANGED <<subscribers, queue, faults>>

\* Mutant: the event's row is marked though the transaction failed.
MaterializeFailsMarked(m) ==
    /\ FanoutFails(m)
    /\ published' = published \cup {Current(m)}
    /\ NextRow(m)
    /\ Fault("publish")
    /\ UNCHANGED <<rows, subscribers, queue>>

MaterializeFails(m) ==
    /\ FanoutFails(m)
    /\ NextRow(m)
    /\ Fault("publish")
    /\ UNCHANGED <<table, queue>>

\* The delay of a job whose time has come is nothing.
AddJob(request) ==
    Add(webhookDeliveryJobId(request),
        IF request.nextAttemptAt # NULL /\ request.nextAttemptAt > now
        THEN "delayed" ELSE "waiting")

Publish(m) ==
    /\ Handles(m, DELIVERY)
    /\ AddJob(rows[Current(m)].request)
    /\ dispatcherPc' = [dispatcherPc EXCEPT ![m] = "marking"]
    /\ UNCHANGED <<vars, table, mode, batch, faults>>

\* Mutant: the row is marked whether or not the job was added.
PublishFailsMarked(m) ==
    /\ Handles(m, DELIVERY)
    /\ AddJob(rows[Current(m)].request) \/ UNCHANGED queue
    /\ published' = published \cup {Current(m)}
    /\ NextRow(m)
    /\ Fault("publish")
    /\ UNCHANGED <<vars, rows, subscribers>>

\* recordPublishFailure: the job may have been added all the same.
PublishFails(m) ==
    /\ Handles(m, DELIVERY)
    /\ AddJob(rows[Current(m)].request) \/ UNCHANGED queue
    /\ NextRow(m)
    /\ Fault("publish")
    /\ UNCHANGED <<vars, table>>

MarkPublished(m) ==
    /\ dispatcherPc[m] = "marking"
    /\ published' = published \cup {Current(m)}
    /\ NextRow(m)
    /\ UNCHANGED <<vars, rows, subscribers, queue, faults>>

MarkFails(m) ==
    /\ dispatcherPc[m] = "marking"
    /\ NextRow(m)
    /\ Fault("publish")
    /\ UNCHANGED <<vars, table, queue>>

\* Wherever it was: an open transaction is rolled back, the rest of the
\* batch forgotten.
Restart(m) ==
    /\ FanoutFails(m) \/ (fanout[m] = NULL /\ UNCHANGED vars)
    /\ dispatcherPc' = [dispatcherPc EXCEPT ![m] = "polling"]
    /\ mode' = [mode EXCEPT ![m] = FANOUT]
    /\ batch' = [batch EXCEPT ![m] = {}]
    /\ Fault("restart")
    /\ UNCHANGED <<table, queue>>

-----------------------------------------------------------------------------
(* Queue and workers                                                       *)

Promote(id) ==
    /\ PromoteJob(id)
    /\ UNCHANGED <<vars, table, dispatchers, faults>>

RunsJob(t, id) == pc[t] # "idle" /\ TaskJob(t) = id

\* It is a fault only if the worker is still at work.
Stall(id) ==
    /\ LockLapses(id)
    /\ IF RunsJob(jobOwner[id], id) THEN Fault("stall") ELSE UNCHANGED faults
    /\ UNCHANGED <<vars, table, dispatchers>>

\* Mutant: a job is run as the attempt after its own.
TakeOffByOne(t, id) ==
    /\ HandOut(t, id)
    /\ StartJob(t, DeliveryRequest(id[1], id[2] + 1, NULL))
    /\ UNCHANGED <<table, dispatchers, faults>>

Take(t, id) ==
    /\ HandOut(t, id)
    /\ \E request \in outbox : webhookDeliveryJobId(request) = id /\ StartJob(t, request)
    /\ UNCHANGED <<table, dispatchers, faults>>

Release(t, state) == MoveJob(t, TaskJob(t), state)

Work(t) ==
    /\ \/ ClaimRead(t)
       \/ claimAttempt(t)
       \/ \E success \in BOOLEAN : post(t, success)
    /\ UNCHANGED <<table, dispatchers, queue, faults>>

RecordFails(t) ==
    /\ MarkDeliveredThrows(t)
    /\ Fault("record")
    /\ UNCHANGED <<table, dispatchers, queue>>

\* process returned: the job is done, whatever the outcome, unless the
\* report to the queue is lost with the worker.
Complete(t) ==
    /\ \/ /\ ClaimRefused(t) \/ StopDisabled(t) \/ ClaimLost(t) \/ markDelivered(t)
          /\ UNCHANGED rows
       \/ /\ recordFailure(t)
          /\ AddRows(IF ResultMatches(t) THEN {DeliveryRow(r) : r \in RetryOf(t)} ELSE {})
    /\ \/ Release(t, "completed") /\ UNCHANGED faults
       \/ Fault("die") /\ UNCHANGED queue
    /\ UNCHANGED <<published, subscribers, dispatchers>>

\* Mutant: an early job is reported done.
PostponeAsDone(t) ==
    /\ ClaimNotDue(t)
    /\ Release(t, "completed")
    /\ UNCHANGED <<table, dispatchers, faults>>

\* moveToDelayed and DelayedError.
Postpone(t) ==
    /\ ClaimNotDue(t)
    /\ Release(t, "delayed")
    /\ UNCHANGED <<table, dispatchers, faults>>

\* The handler throws. The jobs are added with the default of one attempt.
Throw(t) ==
    /\ Abandon(t)
    /\ Release(t, "failed")
    /\ Fault("throw")
    /\ UNCHANGED <<table, dispatchers>>

Die(t) ==
    /\ Abandon(t)
    /\ Fault("die")
    /\ UNCHANGED <<table, dispatchers, queue>>

TimePasses ==
    /\ Tick
    /\ UNCHANGED <<table, dispatchers, queue, faults>>

-----------------------------------------------------------------------------
Dispatch(m) ==
    \/ FetchBatch(m)
    \/ BeginFanout(m)
    \/ SkipFanout(m)
    \/ ReadSubscriptions(m)
    \/ Materialize(m)
    \/ Publish(m)
    \/ MarkPublished(m)

Advance(t) == Work(t) \/ Complete(t) \/ Postpone(t)

PipelineNext ==
    \/ \E e \in Events : CommitEvent(e)
    \/ \E s \in Subscriptions : Subscribe(s)
    \/ \E m \in Materializers :
        \/ Dispatch(m)
        \/ MaterializeFails(m)
        \/ PublishFails(m)
        \/ MarkFails(m)
        \/ Restart(m)
    \/ \E id \in JobIds : Promote(id) \/ Stall(id)
    \/ \E t \in Tasks, id \in JobIds : Take(t, id)
    \/ \E t \in Tasks : Advance(t) \/ RecordFails(t) \/ Throw(t) \/ Die(t)
    \/ TimePasses

PipelineSpec == PipelineInit /\ [][PipelineNext]_pipelineVars

(* As in PaymentPipeline: loops and event loops keep running, the queue    *)
(* hands out jobs and notices lapsed locks, time passes.                   *)
Fairness ==
    /\ \A m \in Materializers : WF_pipelineVars(Dispatch(m))
    /\ \A t \in Tasks : WF_pipelineVars(Advance(t))
    /\ \A id \in JobIds :
        /\ WF_pipelineVars(\E t \in Tasks : Take(t, id))
        /\ WF_pipelineVars(Promote(id))
        /\ WF_pipelineVars(Stall(id) /\ UNCHANGED faults)
    /\ WF_pipelineVars(TimePasses)

FairPipelineSpec == PipelineSpec /\ Fairness

-----------------------------------------------------------------------------
(* Properties                                                              *)

PipelineRow ==
    [type: {FANOUT}, event: Events] \cup [type: {DELIVERY}, request: outbox]

RowsTypeOK ==
    /\ rows \in Seq(PipelineRow)
    /\ published \subseteq DOMAIN rows
    /\ subscribers \in [Events -> (SUBSET Subscriptions) \cup {NULL}]

DispatchersTypeOK ==
    /\ dispatcherPc \in [Materializers -> {"polling", "handling", "marking"}]
    /\ mode \in [Materializers -> RowTypes]
    /\ batch \in [Materializers -> SUBSET DOMAIN rows]
    /\ \A m \in Materializers :
        /\ dispatcherPc[m] = "polling" <=> batch[m] = {}
        /\ dispatcherPc[m] = "marking" => mode[m] = DELIVERY
        /\ \A i \in batch[m] : rows[i].type = mode[m]
        /\ fanout[m] # NULL => Handles(m, FANOUT) /\ fanout[m].event = rows[Current(m)].event

(* The variables have their types; a batch holds rows of the type whose    *)
(* turn it is, and a transaction that is open is the one of its first row. *)
PipelineTypeOK ==
    /\ TypeOK
    /\ RowsTypeOK
    /\ DispatchersTypeOK
    /\ QueueTypeOK
    /\ faults \in 0..MaxFaults

(* A row is marked published only when what it asks for was done: its      *)
(* event's deliveries are there, each with a row of its own, or its job is *)
(* in the queue, however many dispatchers work on the same rows and        *)
(* wherever they fail or die.                                              *)
PublishedMeansDone ==
    \A i \in published :
        IF rows[i].type = DELIVERY
        THEN jobState[webhookDeliveryJobId(rows[i].request)] # "absent"
        ELSE \A s \in Subscriptions : status[<<s, rows[i].event>>] # NULL =>
                \E j \in DOMAIN rows :
                    /\ rows[j].type = DELIVERY
                    /\ rows[j].request.delivery = <<s, rows[i].event>>

(* Fan-out misses nobody: whoever was subscribed when the event was        *)
(* committed, and did not disable the subscription since, gets a delivery, *)
(* whichever dispatcher fans the event out, and when.                      *)
FanoutReachesSubscribers ==
    \A i \in published : rows[i].type = FANOUT =>
        \A s \in subscribers[rows[i].event] \ everDisabled :
            status[<<s, rows[i].event>>] # NULL

Waits(d) == (status[d] = "PENDING" /\ attemptCount[d] = 0) \/ nextAttemptAt[d] # NULL

(* A job is never reported done while its delivery still waits for it:     *)
(* early runs, runs that lost the claim and takeovers leave it to somebody *)
(* else. The exception is a claim whose update found the subscription      *)
(* disabled.                                                               *)
WaitingWorkNotCompleted ==
    \A d \in Deliveries : Waits(d) /\ d[1] \notin everDisabled =>
        \E i \in DOMAIN rows :
            /\ rows[i].type = DELIVERY
            /\ rows[i].request.delivery = d
            /\ rows[i].request.attemptNumber = attemptCount[d] + 1
            /\ \/ i \notin published
               \/ jobState[webhookDeliveryJobId(rows[i].request)] \notin {"absent", "completed"}

Settled(d) == status[d] \in {"DELIVERED", "FAILED"}

(* Every committed event is fanned out, through failed transactions,       *)
(* failed publications and restarts.                                       *)
EveryEventIsMaterialized ==
    \A e \in Events : subscribers[e] # NULL ~> e \in materialized

\* The ways a delivery can be left for good: an attempt that was counted
\* and whose worker is gone, or a job that failed before it claimed.
Abandoned(d) ==
    /\ ~Settled(d)
    /\ ~Waits(d)
    /\ \A t \in Tasks : InFlight(t) => job[t].delivery # d

JobFailed(d) ==
    Waits(d) /\ jobState[<<d, attemptCount[d] + 1>>] = "failed"

(* Whatever the endpoint answers, a delivery is settled, unless its        *)
(* subscription is disabled at some time, a worker died with its attempt   *)
(* or its job threw: nothing else stops it.                                *)
SettledOrLeft ==
    \A d \in Deliveries :
        status[d] = "PENDING" ~>
            (Settled(d) \/ Abandoned(d) \/ JobFailed(d) \/ d[1] \in everDisabled)

(* "Subscription is disabled: ... existing work is stopped without         *)
(* sending": a delivery of a disabled subscription that waits is settled,  *)
(* or the subscription enabled again.                                      *)
DisabledWorkIsStopped ==
    \A d \in Deliveries :
        Waits(d) /\ enabled[d[1]] = FALSE ~> (Settled(d) \/ enabled[d[1]] = TRUE)

(* The pipeline only restricts when WebhookDelivery's steps happen, so     *)
(* whatever holds of WebhookDelivery holds of it.                          *)
ImplementsDelivery == Spec
=============================================================================
