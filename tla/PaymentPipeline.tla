--------------------------- MODULE PaymentPipeline ---------------------------
(***************************************************************************)
(* The way of a payment from the API to its settlement: the transactional  *)
(* outbox, the dispatcher processes that turn its rows into queue jobs,    *)
(* the queue, and the workers that run PaymentProcessing's tasks. Every    *)
(* step is one of PaymentProcessing with its effect on outbox and queue,   *)
(* or a step of a dispatcher or of the queue that PaymentProcessing does   *)
(* not see.                                                                *)
(*                                                                         *)
(* The queue is BullMQ, see JobQueue.                                      *)
(***************************************************************************)
EXTENDS PaymentProcessing, FiniteSets

CONSTANTS
    Dispatchers,    \* outbox dispatcher processes
    BatchSize,      \* OUTBOX_BATCH_SIZE
    MaxStalledCount,\* the queue's limit of takeovers of a job (1 by default)
    Faults,         \* the kinds of fault that may happen, see below
    MaxFaults       \* how many may happen in a behaviour

(* publish: an error when adding a job or when marking its row             *)
(* restart: a dispatcher process dies, or an error ends its batch          *)
(* throw:   a database error escapes processPayment                        *)
(* die:     a worker process dies, or cannot report its job finished       *)
(* stall:   a worker is alive but lost the lock of its job                 *)
FaultKinds == {"publish", "restart", "throw", "die", "stall"}

ASSUME PipelineAssumption ==
    /\ BatchSize \in Nat \ {0}
    /\ MaxStalledCount \in Nat
    /\ Faults \subseteq FaultKinds
    /\ MaxFaults \in Nat

VARIABLES
    backlog,        \* [PaymentJobTypes -> Seq(row)], publishedAt null, by createdAt
    \* Dispatchers: where they are, the type whose turn it is, the fetched rows
    dispatcherPc, mode, batch,
    \* Queue: per job identifier its state, the task with its lock, takeovers
    jobState, jobOwner, stalledCount,
    faults          \* faults so far

\* paymentId for the first attempt, paymentRetryJobId for later ones; the
\* same pair is the job's data.
JobIds == Payments \X ({NULL} \cup 2..MaxAttempts)
JobId(request) == <<request.payment, request.number>>
TaskJob(t) == <<job[t].payment, job[t].expectedAttemptNumber>>

INSTANCE JobQueue WITH Workers <- Tasks

queue == <<jobState, jobOwner, stalledCount>>
dispatchers == <<dispatcherPc, mode, batch>>
pipelineVars == <<vars, backlog, dispatchers, queue, faults>>

PipelineInit ==
    /\ Init
    /\ backlog = [type \in PaymentJobTypes |-> <<>>]
    /\ dispatcherPc = [d \in Dispatchers |-> "polling"]
    /\ mode = [d \in Dispatchers |-> "PAYMENT_PROCESS_REQUESTED"]
    /\ batch = [d \in Dispatchers |-> <<>>]
    /\ QueueInit
    /\ faults = 0

Fault(kind) ==
    /\ kind \in Faults
    /\ faults < MaxFaults
    /\ faults' = faults + 1

-----------------------------------------------------------------------------
(* Outbox rows are created by the transactions of PaymentProcessing. One   *)
(* transaction creates at most one payment row.                            *)
OutboxGrows ==
    backlog' = [type \in PaymentJobTypes |->
        LET new == {r \in outbox' \ outbox : r.type = type}
        IN  IF new = {} THEN backlog[type]
            ELSE Append(backlog[type], CHOOSE r \in new : TRUE)]

InBacklog(request) ==
    \E i \in DOMAIN backlog[request.type] : backlog[request.type][i] = request

Submit(p) ==
    /\ createPaymentSubmission(p)
    /\ OutboxGrows
    /\ UNCHANGED <<dispatchers, queue, faults>>

-----------------------------------------------------------------------------
(* The dispatcher: OutboxDispatcher.dispatchBatch, for the initial rows    *)
(* and for the retry rows in turn.                                         *)

OtherMode(m) == CHOOSE other \in PaymentJobTypes : other # m

findUnpublished(type) ==
    LET rows == backlog[type] IN
    SubSeq(rows, 1, IF Len(rows) < BatchSize THEN Len(rows) ELSE BatchSize)

FetchBatch(d) ==
    LET found == findUnpublished(mode[d]) IN
    /\ dispatcherPc[d] = "polling"
    /\ batch' = [batch EXCEPT ![d] = found]
    /\ IF found = <<>>
       THEN mode' = [mode EXCEPT ![d] = OtherMode(@)] /\ UNCHANGED dispatcherPc
       ELSE dispatcherPc' = [dispatcherPc EXCEPT ![d] = "publishing"] /\ UNCHANGED mode
    /\ UNCHANGED <<vars, backlog, queue, faults>>

\* Mutant: the end of the batch is noticed one event too late.
NextEventOffByOne(d) ==
    /\ batch' = [batch EXCEPT ![d] = Tail(@)]
    /\ IF Len(batch[d]) = 0
       THEN /\ dispatcherPc' = [dispatcherPc EXCEPT ![d] = "polling"]
            /\ mode' = [mode EXCEPT ![d] = OtherMode(@)]
       ELSE /\ dispatcherPc' = [dispatcherPc EXCEPT ![d] = "publishing"]
            /\ UNCHANGED mode

NextEvent(d) ==
    /\ batch' = [batch EXCEPT ![d] = Tail(@)]
    /\ IF Len(batch[d]) = 1
       THEN /\ dispatcherPc' = [dispatcherPc EXCEPT ![d] = "polling"]
            /\ mode' = [mode EXCEPT ![d] = OtherMode(@)]
       ELSE /\ dispatcherPc' = [dispatcherPc EXCEPT ![d] = "publishing"]
            /\ UNCHANGED mode

\* Mutant: a retry that is overdue when it is dispatched is not added.
AddJobInTimeOnly(request) ==
    Add(JobId(request), IF request.nextRetryAt = NULL THEN "waiting"
                        ELSE IF request.nextRetryAt > now THEN "delayed"
                        ELSE "absent")

AddJob(request) ==
    Add(JobId(request), IF request.nextRetryAt # NULL /\ request.nextRetryAt > now
                        THEN "delayed" ELSE "waiting")

Publish(d) ==
    /\ dispatcherPc[d] = "publishing"
    /\ AddJob(Head(batch[d]))
    /\ dispatcherPc' = [dispatcherPc EXCEPT ![d] = "marking"]
    /\ UNCHANGED <<vars, mode, batch, backlog, faults>>

\* The error is recorded with the row. The job may have been added all the
\* same. recordPublishFailure leaves publishedAt alone.
PublishFails(d) ==
    /\ dispatcherPc[d] = "publishing"
    /\ AddJob(Head(batch[d])) \/ UNCHANGED queue
    /\ NextEvent(d)
    /\ Fault("publish")
    /\ UNCHANGED <<vars, backlog>>

\* updateMany where publishedAt is still null: another may have been faster.
Leaves(request) ==
    LET rows == backlog[request.type] IN
    \/ /\ ~InBacklog(request)
       /\ UNCHANGED backlog
    \/ \E i \in DOMAIN rows :
        /\ rows[i] = request
        /\ backlog' = [backlog EXCEPT ![request.type] =
                            SubSeq(@, 1, i - 1) \o SubSeq(@, i + 1, Len(@))]

MarkPublished(d) ==
    /\ dispatcherPc[d] = "marking"
    /\ Leaves(Head(batch[d]))
    /\ NextEvent(d)
    /\ UNCHANGED <<vars, queue, faults>>

MarkFails(d) ==
    /\ dispatcherPc[d] = "marking"
    /\ NextEvent(d)
    /\ Fault("publish")
    /\ UNCHANGED <<vars, backlog, queue>>

\* Wherever it was: the rest of the batch is forgotten and the loop starts
\* with the initial rows.
Restart(d) ==
    /\ dispatcherPc' = [dispatcherPc EXCEPT ![d] = "polling"]
    /\ mode' = [mode EXCEPT ![d] = "PAYMENT_PROCESS_REQUESTED"]
    /\ batch' = [batch EXCEPT ![d] = <<>>]
    /\ Fault("restart")
    /\ UNCHANGED <<vars, backlog, queue>>

-----------------------------------------------------------------------------
(* The queue                                                               *)

Promote(id) ==
    /\ PromoteJob(id)
    /\ UNCHANGED <<vars, backlog, dispatchers, faults>>

RunsJob(t, id) == pc[t] # "idle" /\ TaskJob(t) = id

\* It is a fault only if the worker is still at work.
Stall(id) ==
    /\ LockLapses(id)
    /\ IF RunsJob(jobOwner[id], id) THEN Fault("stall") ELSE UNCHANGED faults
    /\ UNCHANGED <<vars, backlog, dispatchers>>

-----------------------------------------------------------------------------
(* Workers                                                                 *)

\* Mutant: a job without an attempt number is taken for attempt 1.
TakeDefaultingAttempt(t, id) ==
    /\ HandOut(t, id)
    /\ \E request \in outbox :
        /\ JobId(request) = id
        /\ StartJob(t, [request EXCEPT !.number = IF @ = NULL THEN 1 ELSE @])
    /\ UNCHANGED <<backlog, dispatchers, faults>>

Take(t, id) ==
    /\ HandOut(t, id)
    /\ \E request \in outbox : JobId(request) = id /\ StartJob(t, request)
    /\ UNCHANGED <<backlog, dispatchers, faults>>

Release(t, state) == MoveJob(t, TaskJob(t), state)

Work(t) ==
    /\ \/ ClaimRead(t)
       \/ claimPaymentAttempt(t)
       \/ \E outcome \in BankOutcome : executePayment(t, outcome)
    /\ OutboxGrows
    /\ UNCHANGED <<dispatchers, queue, faults>>

\* processPayment returned: the job is done, whatever the outcome, unless
\* the report to the queue is lost with the process.
Complete(t) ==
    /\ ClaimRefused(t) \/ ClaimLost(t) \/ transitionProcessingPayment(t)
    /\ OutboxGrows
    /\ \/ Release(t, "completed") /\ UNCHANGED faults
       \/ Fault("die") /\ UNCHANGED queue
    /\ UNCHANGED dispatchers

\* Mutant: an early job is reported done.
PostponeAsDone(t) ==
    /\ ClaimNotDue(t)
    /\ Release(t, "completed")
    /\ UNCHANGED <<backlog, dispatchers, faults>>

\* moveToDelayed and DelayedError.
Postpone(t) ==
    /\ ClaimNotDue(t)
    /\ Release(t, "delayed")
    /\ UNCHANGED <<backlog, dispatchers, faults>>

\* The handler throws. The jobs are added with the default of one attempt.
Throw(t) ==
    /\ Abandon(t)
    /\ Release(t, "failed")
    /\ Fault("throw")
    /\ UNCHANGED <<backlog, dispatchers>>

Die(t) ==
    /\ Abandon(t)
    /\ Fault("die")
    /\ UNCHANGED <<backlog, dispatchers, queue>>

TimePasses ==
    /\ Tick
    /\ UNCHANGED <<backlog, dispatchers, queue, faults>>

-----------------------------------------------------------------------------
Dispatch(d) == FetchBatch(d) \/ Publish(d) \/ MarkPublished(d)

Advance(t) == Work(t) \/ Complete(t) \/ Postpone(t)

PipelineNext ==
    \/ \E p \in Payments : Submit(p)
    \/ \E d \in Dispatchers :
        Dispatch(d) \/ PublishFails(d) \/ MarkFails(d) \/ Restart(d)
    \/ \E id \in JobIds : Promote(id) \/ Stall(id)
    \/ \E t \in Tasks, id \in JobIds : Take(t, id)
    \/ \E t \in Tasks : Advance(t) \/ Throw(t) \/ Die(t)
    \/ TimePasses

PipelineSpec == PipelineInit /\ [][PipelineNext]_pipelineVars

(* The dispatcher's loop and the event loops of the workers keep running,  *)
(* the queue hands out its jobs and notices lapsed locks, time passes.     *)
Fairness ==
    /\ \A d \in Dispatchers : WF_pipelineVars(Dispatch(d))
    /\ \A t \in Tasks : WF_pipelineVars(Advance(t))
    /\ \A id \in JobIds :
        /\ WF_pipelineVars(\E t \in Tasks : Take(t, id))
        /\ WF_pipelineVars(Promote(id))
        /\ WF_pipelineVars(Stall(id) /\ UNCHANGED faults)
    /\ WF_pipelineVars(TimePasses)

FairPipelineSpec == PipelineSpec /\ Fairness

-----------------------------------------------------------------------------
(* Properties                                                              *)

RowsOf(type) == {request \in outbox : request.type = type}

BacklogTypeOK ==
    /\ DOMAIN backlog = PaymentJobTypes
    /\ \A type \in PaymentJobTypes : backlog[type] \in Seq(RowsOf(type))

DispatchersTypeOK ==
    /\ dispatcherPc \in [Dispatchers -> {"polling", "publishing", "marking"}]
    /\ mode \in [Dispatchers -> PaymentJobTypes]
    /\ DOMAIN batch = Dispatchers
    /\ \A d \in Dispatchers :
        /\ batch[d] \in Seq(RowsOf(mode[d]))
        /\ dispatcherPc[d] = "polling" <=> batch[d] = <<>>

(* The variables have their types; the unpublished rows of a type, and the *)
(* batch of the dispatcher whose turn that type is, are rows of that type. *)
PipelineTypeOK ==
    /\ TypeOK
    /\ BacklogTypeOK
    /\ DispatchersTypeOK
    /\ QueueTypeOK
    /\ faults \in 0..MaxFaults

(* A row is marked published only after its job is in the queue, however   *)
(* many dispatchers work on the same rows and wherever they fail or die.   *)
PublishedMeansQueued ==
    \A request \in outbox :
        request.type \in PaymentJobTypes /\ ~InBacklog(request) =>
            jobState[JobId(request)] # "absent"

\* The row whose job can claim a waiting payment.
IsTicket(request, p) ==
    /\ request.type \in PaymentJobTypes
    /\ request.payment = p
    /\ IF status[p] = "PENDING" THEN request.number = NULL
                                ELSE request.number = attemptCount[p] + 1

(* A job is never reported done while its payment still waits for it: late *)
(* and early runs, runs that lost the claim to another and takeovers of a  *)
(* job leave it to somebody else, or the payment has moved on.             *)
WaitingWorkNotCompleted ==
    \A p \in Payments : status[p] \in {"PENDING", "RETRYING"} =>
        \E request \in outbox :
            /\ IsTicket(request, p)
            /\ \/ InBacklog(request)
               \/ jobState[JobId(request)] \notin {"absent", "completed"}

(* "Unclaimed queue work remains available through BullMQ": the row of a   *)
(* payment that waits to be claimed is still to be published, or its job   *)
(* will still be run.                                                      *)
UnclaimedWorkRemainsAvailable ==
    \A p \in Payments : status[p] \in {"PENDING", "RETRYING"} =>
        \E request \in outbox :
            /\ IsTicket(request, p)
            /\ \/ InBacklog(request)
               \/ jobState[JobId(request)] \in {"waiting", "delayed", "active"}

\* The documented gap: a claim whose worker died before its result was stored.
AbandonedClaim(p) ==
    /\ status[p] = "PROCESSING"
    /\ \A t \in Tasks : HoldsClaim(t) => job[t].payment # p

\* A payment that waits for a job that threw, or was taken over too often.
JobFailed(p) ==
    /\ status[p] \in {"PENDING", "RETRYING"}
    /\ \E request \in outbox :
        IsTicket(request, p) /\ jobState[JobId(request)] = "failed"

(* Every accepted payment is settled, through publication failures,        *)
(* dispatcher restarts, early jobs and jobs run by two workers, or was     *)
(* left in one of these two ways; nothing else stops it.                   *)
SettledOrLeft ==
    \A p \in Payments :
        status[p] = "PENDING" ~>
            (status[p] \in Terminal \/ AbandonedClaim(p) \/ JobFailed(p))

(* The pipeline only restricts when PaymentProcessing's steps happen, so   *)
(* whatever holds of PaymentProcessing holds of it.                        *)
ImplementsProcessing == Spec
=============================================================================
