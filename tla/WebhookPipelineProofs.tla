------------------------ MODULE WebhookPipelineProofs ------------------------
(***************************************************************************)
(* The webhook pipeline implements WebhookDelivery, and so inherits what   *)
(* is proved about it; and no outbox row is marked published before what   *)
(* it asks for is done.                                                    *)
(***************************************************************************)
EXTENDS WebhookPipeline, WebhookDeliveryProofs, FiniteSetTheorems, SequenceTheorems

-----------------------------------------------------------------------------
(* Rows                                                                    *)

\* Rows keep their positions.
RowsGrow ==
    /\ DOMAIN rows \subseteq DOMAIN rows'
    /\ \A i \in DOMAIN rows : rows'[i] = rows[i]

\* A set of positions that is not empty has a first.
LEMMA FirstPosition ==
    ASSUME NEW S \in SUBSET Nat, S # {}
    PROVE  \E i \in S : \A j \in S : i <= j
<1>1. IsWellFoundedOn(OpToRel(<, Nat), Nat)
  BY NatLessThanWellFounded
<1>2. PICK i \in S : \A j \in S : ~(<<j, i>> \in OpToRel(<, Nat))
  BY <1>1, WFMin
<1>3. \A j \in S : ~(j < i)
  BY <1>2 DEF OpToRel
<1> QED
  BY <1>3

\* The row a dispatcher handles is one of its batch.
LEMMA CurrentInBatch ==
    ASSUME RowsTypeOK, DispatchersTypeOK, NEW m \in Materializers, dispatcherPc[m] # "polling"
    PROVE  /\ Current(m) \in batch[m]
           /\ Current(m) \in DOMAIN rows
           /\ rows[Current(m)] \in PipelineRow
           /\ rows[Current(m)].type = mode[m]
<1>1. batch[m] # {} /\ batch[m] \subseteq DOMAIN rows
  BY DEF DispatchersTypeOK
<1>2. /\ DOMAIN rows \subseteq Nat
      /\ \A i \in DOMAIN rows : rows[i] \in PipelineRow
  BY DEF RowsTypeOK
<1>3. \E i \in batch[m] : \A j \in batch[m] : i <= j
  BY <1>1, <1>2, FirstPosition
<1>4. Current(m) \in batch[m]
  BY <1>3 DEF Current
<1> QED
  BY <1>1, <1>2, <1>4 DEF DispatchersTypeOK

\* A row by its type.
LEMMA RowByType ==
    ASSUME NEW row \in PipelineRow
    PROVE  /\ row.type = FANOUT => row.event \in Events
           /\ row.type = DELIVERY => row.request \in outbox
           /\ row.type \in {FANOUT, DELIVERY}
           /\ FANOUT # DELIVERY
BY DEF PipelineRow, FANOUT, DELIVERY

LEMMA RowTypesDiffer == FANOUT # DELIVERY
BY DEF FANOUT, DELIVERY

\* What appending a set of rows does.
LEMMA AddingRows ==
    ASSUME NEW S, rows \in Seq(S), NEW new \in SUBSET S, IsFiniteSet(new), AddRows(new)
    PROVE  /\ rows' \in Seq(S)
           /\ RowsGrow
           /\ \A r \in new : \E i \in DOMAIN rows' : rows'[i] = r
           /\ \A i \in DOMAIN rows' \ DOMAIN rows : rows'[i] \in new
<1>1. Cardinality(new) \in Nat
  BY FS_CardinalityType
<1>2. PICK order \in [1..Cardinality(new) -> new] : Range(order) = new /\ rows' = rows \o order
  BY DEF AddRows
<1>3. order \in Seq(S) /\ Len(order) = Cardinality(new)
  BY <1>1, <1>2
<1>4. /\ rows' \in Seq(S)
      /\ Len(rows') = Len(rows) + Len(order)
      /\ \A i \in 1..(Len(rows) + Len(order)) :
            rows'[i] = IF i <= Len(rows) THEN rows[i] ELSE order[i - Len(rows)]
  BY <1>2, <1>3, ConcatProperties
<1>5. RowsGrow
  BY <1>4, <1>3, <1>1 DEF RowsGrow
<1>6. ASSUME NEW r \in new PROVE \E i \in DOMAIN rows' : rows'[i] = r
  <2>1. PICK k \in 1..Cardinality(new) : order[k] = r
    BY <1>2 DEF Range
  <2>2. Len(rows) + k \in DOMAIN rows' /\ rows'[Len(rows) + k] = order[k]
    BY <1>1, <1>3, <1>4, <2>1
  <2> QED
    BY <2>1, <2>2
<1>7. ASSUME NEW i \in DOMAIN rows' \ DOMAIN rows PROVE rows'[i] \in new
  <2>1. /\ i \in 1..(Len(rows) + Len(order))
        /\ ~(i <= Len(rows))
    BY <1>1, <1>3, <1>4
  <2>2. i - Len(rows) \in 1..Cardinality(new) /\ rows'[i] = order[i - Len(rows)]
    BY <1>1, <1>3, <1>4, <2>1
  <2> QED
    BY <1>2, <2>2
<1> QED
  BY <1>4, <1>5, <1>6, <1>7

LEMMA AppendingRow ==
    ASSUME NEW S, rows \in Seq(S), NEW row \in S, rows' = Append(rows, row)
    PROVE  rows' \in Seq(S) /\ RowsGrow
BY DEF RowsGrow

-----------------------------------------------------------------------------
(* The pipeline's steps are WebhookDelivery's                              *)

\* Every step of the pipeline is a step of a task, of a fan-out, of the API
\* or the clock, or leaves everything WebhookDelivery knows of unchanged.
LEMMA PipelineStep ==
    RowsTypeOK /\ DispatchersTypeOK /\ [PipelineNext]_pipelineVars => [Next]_vars
<1> SUFFICES ASSUME RowsTypeOK, DispatchersTypeOK, [PipelineNext]_pipelineVars
             PROVE  [Next]_vars
  OBVIOUS
<1>1. ASSUME NEW e \in Events, CommitEvent(e) PROVE UNCHANGED vars
  BY <1>1 DEF CommitEvent
<1>2. ASSUME NEW s \in Subscriptions, Subscribe(s) PROVE Next
  BY <1>2 DEF Subscribe, Next
<1>3. ASSUME NEW m \in Materializers, BeginFanout(m) PROVE Next
  <2>1. rows[Current(m)].event \in Events
    BY <1>3, CurrentInBatch, RowByType DEF BeginFanout, Handles
  <2> QED
    BY <1>3, <2>1 DEF BeginFanout, Next
<1>4. ASSUME NEW m \in Materializers, ReadSubscriptions(m) \/ Materialize(m) \/ MaterializeFails(m)
      PROVE  Next
  BY <1>4 DEF ReadSubscriptions, Materialize, MaterializeFails, Next
<1>5. ASSUME NEW m \in Materializers,
             \/ FetchBatch(m) \/ SkipFanout(m) \/ Publish(m) \/ MarkPublished(m)
             \/ PublishFails(m) \/ MarkFails(m)
      PROVE  UNCHANGED vars
  BY <1>5 DEF FetchBatch, SkipFanout, Publish, MarkPublished, PublishFails, MarkFails
<1>6. ASSUME NEW m \in Materializers, Restart(m) PROVE Next \/ UNCHANGED vars
  BY <1>6 DEF Restart, Next
<1>7. ASSUME NEW id \in JobIds, Promote(id) \/ Stall(id) PROVE UNCHANGED vars
  BY <1>7 DEF Promote, Stall
<1>8. ASSUME NEW t \in Tasks, NEW id \in JobIds, Take(t, id) PROVE Next
  BY <1>8 DEF Take, Next
<1>9. ASSUME NEW t \in Tasks, Advance(t) \/ RecordFails(t) \/ Throw(t) \/ Die(t) PROVE Next
  <2>1. TaskStep(t)
    BY <1>9 DEF Advance, Work, Complete, Postpone, RecordFails, Throw, Die, TaskStep
  <2> QED
    BY <2>1 DEF Next
<1>10. CASE TimePasses
  BY <1>10 DEF TimePasses, Next
<1>11. CASE UNCHANGED pipelineVars
  BY <1>11 DEF pipelineVars
<1> QED
  BY <1>1, <1>2, <1>3, <1>4, <1>5, <1>6, <1>7, <1>8, <1>9, <1>10, <1>11
     DEF PipelineNext, Dispatch

-----------------------------------------------------------------------------
(* The queue                                                               *)

\* A job that was added stays known to the queue.
JobsStay == \A id \in JobIds : jobState[id] # "absent" => jobState'[id] # "absent"

LEMMA AddingJob ==
    ASSUME QueueTypeOK, NEW request, AddJob(request)
    PROVE  /\ QueueTypeOK' /\ JobsStay
           /\ webhookDeliveryJobId(request) \in JobIds =>
                jobState'[webhookDeliveryJobId(request)] # "absent"
           /\ \A id \in JobIds :
                id # webhookDeliveryJobId(request) => jobState'[id] = jobState[id]
           /\ \A id \in JobIds : jobState'[id] \in {jobState[id], "waiting", "delayed"}
<1>1. PICK state \in {"waiting", "delayed"} : Add(webhookDeliveryJobId(request), state)
  BY DEF AddJob
<1> QED
  BY <1>1 DEF Add, QueueTypeOK, JobStates, JobsStay

LEMMA MovingJob ==
    ASSUME QueueTypeOK, NEW t \in Tasks, NEW state \in {"completed", "delayed", "failed"},
           Release(t, state)
    PROVE  /\ QueueTypeOK' /\ JobsStay
           /\ \A id \in JobIds : jobState'[id] = jobState[id] \/ id = TaskJob(t)
           /\ \A id \in JobIds : jobState'[id] \in {jobState[id], state}
BY DEF Release, MoveJob, QueueTypeOK, JobStates, JobsStay

LEMMA QueueSteps ==
    ASSUME QueueTypeOK, NEW id \in JobIds,
           PromoteJob(id) \/ LockLapses(id) \/ \E t \in Tasks : HandOut(t, id)
    PROVE  /\ QueueTypeOK' /\ JobsStay
           /\ \A other \in JobIds :
                jobState'[other] \in {jobState[other], "waiting", "active", "failed"}
           /\ \A other \in JobIds : jobState[other] = "absent" => jobState'[other] = "absent"
<1>1. CASE PromoteJob(id)
  BY <1>1 DEF PromoteJob, QueueTypeOK, JobStates, JobsStay
<1>2. ASSUME NEW t \in Tasks, HandOut(t, id)
      PROVE  /\ QueueTypeOK' /\ JobsStay
             /\ \A other \in JobIds : jobState'[other] \in {jobState[other], "active"}
             /\ \A other \in JobIds : jobState[other] = "absent" => jobState'[other] = "absent"
  BY <1>2 DEF HandOut, QueueTypeOK, JobStates, JobsStay
<1>3. CASE LockLapses(id)
  <2>1. jobState' \in [JobIds -> JobStates] /\ jobOwner' \in [JobIds -> Tasks \cup {NULL}]
    BY <1>3 DEF LockLapses, QueueTypeOK, JobStates
  <2>2. stalledCount' \in [JobIds -> 0..MaxStalledCount]
    BY <1>3, PipelineAssumption DEF LockLapses, QueueTypeOK
  <2>3. /\ JobsStay
        /\ \A other \in JobIds : jobState'[other] \in {jobState[other], "waiting", "failed"}
        /\ \A other \in JobIds : jobState[other] = "absent" => jobState'[other] = "absent"
    BY <1>3 DEF LockLapses, QueueTypeOK, JobsStay
  <2> QED
    BY <2>1, <2>2, <2>3 DEF QueueTypeOK
<1> QED
  BY <1>1, <1>2, <1>3

\* The steps by what they do to the queue.
LEMMA QueueCases ==
    ASSUME [PipelineNext]_pipelineVars
    PROVE  \/ UNCHANGED queue
           \/ \E m \in Materializers : Handles(m, DELIVERY) /\ AddJob(rows[Current(m)].request)
           \/ \E id \in JobIds :
                PromoteJob(id) \/ LockLapses(id) \/ \E t \in Tasks : HandOut(t, id)
           \/ \E t \in Tasks : Complete(t) /\ Release(t, "completed")
           \/ \E t \in Tasks, state \in {"delayed", "failed"} :
                Release(t, state) /\ pc[t] # "idle"
<1>1. ASSUME NEW m \in Materializers, Publish(m) \/ PublishFails(m)
      PROVE  \/ UNCHANGED queue
             \/ Handles(m, DELIVERY) /\ AddJob(rows[Current(m)].request)
  BY <1>1 DEF Publish, PublishFails
<1>2. ASSUME NEW id \in JobIds, Promote(id) \/ Stall(id) \/ \E t \in Tasks : Take(t, id)
      PROVE  PromoteJob(id) \/ LockLapses(id) \/ \E t \in Tasks : HandOut(t, id)
  BY <1>2 DEF Promote, Stall, Take
<1>3. ASSUME NEW t \in Tasks, Complete(t) PROVE Release(t, "completed") \/ UNCHANGED queue
  BY <1>3 DEF Complete
<1>4. ASSUME NEW t \in Tasks, Postpone(t) \/ Throw(t)
      PROVE  \E state \in {"delayed", "failed"} : Release(t, state) /\ pc[t] # "idle"
  BY <1>4 DEF Postpone, Throw, ClaimNotDue, Abandon
<1>5. ASSUME \/ \E e \in Events : CommitEvent(e)
             \/ \E s \in Subscriptions : Subscribe(s)
             \/ TimePasses
             \/ UNCHANGED pipelineVars
      PROVE  UNCHANGED queue
  BY <1>5 DEF CommitEvent, Subscribe, TimePasses, pipelineVars
<1>6. ASSUME NEW m \in Materializers,
             \/ FetchBatch(m) \/ BeginFanout(m) \/ SkipFanout(m) \/ ReadSubscriptions(m)
             \/ Materialize(m) \/ MarkPublished(m) \/ MaterializeFails(m) \/ MarkFails(m)
             \/ Restart(m)
      PROVE  UNCHANGED queue
  BY <1>6 DEF FetchBatch, BeginFanout, SkipFanout, ReadSubscriptions, Materialize,
              MarkPublished, MaterializeFails, MarkFails, Restart
<1>7. ASSUME NEW t \in Tasks, Work(t) \/ RecordFails(t) \/ Die(t) PROVE UNCHANGED queue
  BY <1>7 DEF Work, RecordFails, Die
<1> QED
  BY <1>1, <1>2, <1>3, <1>4, <1>5, <1>6, <1>7 DEF PipelineNext, Dispatch, Advance

\* What any step does to the queue.
LEMMA QueueStep ==
    ASSUME QueueTypeOK, [PipelineNext]_pipelineVars
    PROVE  QueueTypeOK' /\ JobsStay
<1>1. CASE UNCHANGED queue
  BY <1>1 DEF queue, QueueTypeOK, JobsStay
<1> QED
  BY <1>1, QueueCases, AddingJob, QueueSteps, MovingJob

-----------------------------------------------------------------------------
(* Type correctness: the rows                                              *)

\* The rows that are added are those of deliveries.
DeliveryRowsAdded == \A i \in DOMAIN rows' \ DOMAIN rows : rows'[i].type = DELIVERY

\* The rows of a finite set of requests that are in the outbox.
LEMMA AddingDeliveryRows ==
    ASSUME rows \in Seq(PipelineRow), outbox \subseteq outbox',
           NEW requests, requests \subseteq outbox', IsFiniteSet(requests),
           AddRows({DeliveryRow(r) : r \in requests})
    PROVE  /\ rows' \in Seq(PipelineRow')
           /\ RowsGrow
           /\ DeliveryRowsAdded
           /\ \A r \in requests : \E i \in DOMAIN rows' : rows'[i] = DeliveryRow(r)
<1> DEFINE new == {DeliveryRow(r) : r \in requests}
<1>1. PipelineRow \subseteq PipelineRow'
  BY DEF PipelineRow
<1>2. new \subseteq PipelineRow'
  BY DEF DeliveryRow, PipelineRow
<1>3. IsFiniteSet(new)
  <2> DEFINE f == [r \in requests |-> DeliveryRow(r)]
  <2>1. f \in Surjection(requests, new)
    BY DEF Surjection
  <2> HIDE DEF new, f
  <2> QED
    BY <2>1, FS_Surjection
<1>4. rows \in Seq(PipelineRow')
  BY <1>1, SeqMonotonic
<1> HIDE DEF new
<1>5. PICK S : S = PipelineRow'
  OBVIOUS
<1>6. /\ rows' \in Seq(S)
      /\ RowsGrow
      /\ \A r \in new : \E i \in DOMAIN rows' : rows'[i] = r
      /\ \A i \in DOMAIN rows' \ DOMAIN rows : rows'[i] \in new
  BY <1>2, <1>3, <1>4, <1>5, AddingRows DEF new
<1>7. \A r \in new : r.type = DELIVERY
  BY DEF new, DeliveryRow
<1>8. DeliveryRowsAdded
  BY <1>6, <1>7 DEF DeliveryRowsAdded
<1> QED
  BY <1>5, <1>6, <1>8 DEF new

\* The requests a fan-out makes.
FanoutRequests(m) == {DeliveryRequest(<<s, fanout[m].event>>, 1, NULL) :
                        s \in fanout[m].subscriptions}

LEMMA MaterializingRows ==
    ASSUME TypeOK, RowsTypeOK, NEW m \in Materializers, Materialize(m)
    PROVE  /\ rows' \in Seq(PipelineRow')
           /\ RowsGrow
           /\ DeliveryRowsAdded
           /\ \A r \in FanoutRequests(m) : \E i \in DOMAIN rows' : rows'[i] = DeliveryRow(r)
           /\ \A s \in fanout[m].subscriptions : \E i \in DOMAIN rows' :
                /\ rows'[i].type = DELIVERY
                /\ rows'[i].request.delivery = <<s, fanout[m].event>>
<1>1. fanout[m].subscriptions \subseteq Subscriptions
  BY DEF Materialize, materializeDeliveries, TypeOK
<1>2. IsFiniteSet(fanout[m].subscriptions)
  BY <1>1, FS_Subset, PipelineAssumption
<1>3. IsFiniteSet(FanoutRequests(m))
  <2> DEFINE S == fanout[m].subscriptions
             f == [s \in S |-> DeliveryRequest(<<s, fanout[m].event>>, 1, NULL)]
  <2>1. f \in Surjection(S, FanoutRequests(m))
    BY DEF Surjection, FanoutRequests
  <2> HIDE DEF f
  <2> QED
    BY <1>2, <2>1, FS_Surjection
<1>4. outbox' = outbox \cup FanoutRequests(m)
  BY DEF Materialize, materializeDeliveries, FanoutRequests
<1>5. NewRows(m) = {DeliveryRow(r) : r \in FanoutRequests(m)}
  BY DEF NewRows, FanoutRequests
<1>6. /\ rows' \in Seq(PipelineRow')
      /\ RowsGrow
      /\ DeliveryRowsAdded
      /\ \A r \in FanoutRequests(m) : \E i \in DOMAIN rows' : rows'[i] = DeliveryRow(r)
  BY <1>3, <1>4, <1>5, AddingDeliveryRows DEF Materialize, RowsTypeOK
<1>7. ASSUME NEW s \in fanout[m].subscriptions
      PROVE  \E i \in DOMAIN rows' : /\ rows'[i].type = DELIVERY
                                      /\ rows'[i].request.delivery = <<s, fanout[m].event>>
  <2> DEFINE r == DeliveryRequest(<<s, fanout[m].event>>, 1, NULL)
  <2>1. PICK i \in DOMAIN rows' : rows'[i] = DeliveryRow(r)
    BY <1>6 DEF FanoutRequests
  <2> QED
    BY <2>1 DEF DeliveryRow, DeliveryRequest
<1> QED
  BY <1>6, <1>7

LEMMA CompletingRows ==
    ASSUME TypeOK, RowsTypeOK, outbox \subseteq outbox', NEW t \in Tasks, Complete(t)
    PROVE  /\ rows' \in Seq(PipelineRow')
           /\ RowsGrow
           /\ DeliveryRowsAdded
           /\ \A r \in outbox' \ outbox : \E i \in DOMAIN rows' : rows'[i] = DeliveryRow(r)
<1>1. CASE UNCHANGED <<rows, outbox>>
  <2>1. PipelineRow \subseteq PipelineRow'
    BY DEF PipelineRow
  <2> QED
    BY <1>1, <2>1, SeqMonotonic DEF RowsTypeOK, RowsGrow, DeliveryRowsAdded
<1>2. CASE recordFailure(t) /\ ~ResultMatches(t) /\ AddRows({})
  <2>1. {} = {DeliveryRow(r) : r \in {}}
    OBVIOUS
  <2>2. UNCHANGED outbox
    BY <1>2 DEF recordFailure
  <2> QED
    BY <1>2, <2>1, <2>2, FS_EmptySet, AddingDeliveryRows DEF RowsTypeOK
<1>3. CASE recordFailure(t) /\ ResultMatches(t) /\ AddRows({DeliveryRow(r) : r \in RetryOf(t)})
  <2>1. RetryOf(t) \subseteq outbox' /\ outbox' \ outbox \subseteq RetryOf(t)
    BY <1>3 DEF recordFailure
  <2>2. IsFiniteSet(RetryOf(t))
    BY FS_EmptySet, FS_Singleton DEF RetryOf
  <2> QED
    BY <1>3, <2>1, <2>2, AddingDeliveryRows DEF RowsTypeOK
<1>4. ClaimRefused(t) \/ StopDisabled(t) \/ ClaimLost(t) \/ markDelivered(t) => UNCHANGED outbox
  BY DEF ClaimRefused, StopDisabled, ClaimLost, markDelivered, TaskReads
<1> QED
  BY <1>1, <1>2, <1>3, <1>4 DEF Complete

\* What any step does to the rows.
LEMMA RowsStep ==
    ASSUME TypeOK, RowsTypeOK, DispatchersTypeOK, [PipelineNext]_pipelineVars
    PROVE  RowsTypeOK' /\ RowsGrow
<1>1. outbox \subseteq outbox'
  BY PipelineStep, OutboxGrows
<1>2. PipelineRow \subseteq PipelineRow'
  BY <1>1 DEF PipelineRow
<1>3. ASSUME UNCHANGED <<rows, published, subscribers>> PROVE RowsTypeOK' /\ RowsGrow
  BY <1>2, <1>3, SeqMonotonic DEF RowsTypeOK, RowsGrow
<1>4. ASSUME NEW e \in Events, CommitEvent(e) PROVE RowsTypeOK' /\ RowsGrow
  <2>1. FanoutRow(e) \in PipelineRow'
    BY DEF FanoutRow, PipelineRow
  <2>2. rows \in Seq(PipelineRow')
    BY <1>2, SeqMonotonic DEF RowsTypeOK
  <2>3. PICK S : S = PipelineRow'
    OBVIOUS
  <2>4. rows' \in Seq(PipelineRow') /\ RowsGrow
    BY <1>4, <2>1, <2>2, <2>3, AppendingRow DEF CommitEvent
  <2>5. subscribers' \in [Events -> (SUBSET Subscriptions) \cup {NULL}]
    BY <1>4 DEF CommitEvent, RowsTypeOK
  <2>6. published' \subseteq DOMAIN rows'
    BY <1>4, <2>4 DEF CommitEvent, RowsTypeOK, RowsGrow
  <2> QED
    BY <2>4, <2>5, <2>6 DEF RowsTypeOK
<1>5. ASSUME NEW m \in Materializers, Materialize(m) PROVE RowsTypeOK' /\ RowsGrow
  <2>1. rows' \in Seq(PipelineRow') /\ RowsGrow
    BY <1>5, MaterializingRows
  <2>2. Current(m) \in DOMAIN rows
    <3>1. fanout[m] # NULL
      BY <1>5 DEF Materialize, materializeDeliveries
    <3>2. dispatcherPc[m] # "polling"
      BY <3>1 DEF DispatchersTypeOK, Handles
    <3> QED
      BY <3>2, CurrentInBatch
  <2> QED
    BY <1>5, <2>1, <2>2 DEF Materialize, RowsTypeOK, RowsGrow
<1>6. ASSUME NEW m \in Materializers, MarkPublished(m) PROVE RowsTypeOK' /\ RowsGrow
  <2>1. Current(m) \in DOMAIN rows
    BY <1>6, CurrentInBatch DEF MarkPublished
  <2>2. rows \in Seq(PipelineRow')
    BY <1>2, SeqMonotonic DEF RowsTypeOK
  <2> QED
    BY <1>6, <2>1, <2>2 DEF MarkPublished, RowsTypeOK, RowsGrow
<1>7. ASSUME NEW t \in Tasks, Complete(t) PROVE RowsTypeOK' /\ RowsGrow
  <2>1. rows' \in Seq(PipelineRow') /\ RowsGrow
    BY <1>1, <1>7, CompletingRows
  <2> QED
    BY <1>7, <2>1 DEF Complete, RowsTypeOK, RowsGrow
<1>8. ASSUME NEW m \in Materializers,
             \/ FetchBatch(m) \/ BeginFanout(m) \/ SkipFanout(m) \/ ReadSubscriptions(m)
             \/ Publish(m) \/ MaterializeFails(m) \/ PublishFails(m) \/ MarkFails(m)
             \/ Restart(m)
      PROVE  UNCHANGED <<rows, published, subscribers>>
  BY <1>8 DEF FetchBatch, BeginFanout, SkipFanout, ReadSubscriptions, Publish,
              MaterializeFails, PublishFails, MarkFails, Restart, table
<1>9. ASSUME NEW id \in JobIds, Promote(id) \/ Stall(id) \/ \E t \in Tasks : Take(t, id)
      PROVE  UNCHANGED <<rows, published, subscribers>>
  BY <1>9 DEF Promote, Stall, Take, table
<1>10. ASSUME NEW t \in Tasks, Work(t) \/ Postpone(t) \/ RecordFails(t) \/ Throw(t) \/ Die(t)
       PROVE  UNCHANGED <<rows, published, subscribers>>
  BY <1>10 DEF Work, Postpone, RecordFails, Throw, Die, table
<1>11. ASSUME (\E s \in Subscriptions : Subscribe(s)) \/ TimePasses \/ UNCHANGED pipelineVars
       PROVE  UNCHANGED <<rows, published, subscribers>>
  BY <1>11 DEF Subscribe, TimePasses, pipelineVars, table
<1> QED
  BY <1>3, <1>4, <1>5, <1>6, <1>7, <1>8, <1>9, <1>10, <1>11 DEF PipelineNext, Dispatch, Advance

-----------------------------------------------------------------------------
(* Type correctness: the dispatchers                                       *)

\* A dispatcher that has no transaction open may move on to other rows.
LEMMA DispatcherMoves ==
    ASSUME RowsTypeOK, DispatchersTypeOK, RowsGrow, NEW m \in Materializers,
           NEW p \in {"polling", "handling", "marking"}, NEW type \in RowTypes,
           NEW b \in SUBSET DOMAIN rows,
           p = "polling" <=> b = {},
           p = "marking" => type = DELIVERY,
           \A i \in b : rows[i].type = type,
           dispatcherPc' = [dispatcherPc EXCEPT ![m] = p],
           mode' = [mode EXCEPT ![m] = type],
           batch' = [batch EXCEPT ![m] = b],
           fanout'[m] = NULL,
           \A k \in Materializers \ {m} : fanout'[k] = fanout[k]
    PROVE  DispatchersTypeOK'
<1>1. /\ dispatcherPc' \in [Materializers -> {"polling", "handling", "marking"}]
      /\ mode' \in [Materializers -> RowTypes]
      /\ batch' \in [Materializers -> SUBSET DOMAIN rows]
  BY DEF DispatchersTypeOK
<1>2. batch' \in [Materializers -> SUBSET DOMAIN rows']
  BY <1>1 DEF RowsGrow
<1>3. ASSUME NEW k \in Materializers
      PROVE  /\ dispatcherPc'[k] = "polling" <=> batch'[k] = {}
             /\ dispatcherPc'[k] = "marking" => mode'[k] = DELIVERY
             /\ \A i \in batch'[k] : rows'[i].type = mode'[k]
             /\ fanout'[k] # NULL =>
                    Handles(k, FANOUT)' /\ fanout'[k].event = rows'[Current(k)'].event
  <2>1. CASE k = m
    BY <2>1 DEF DispatchersTypeOK, RowsGrow
  <2>2. CASE k # m
    <3>1. /\ dispatcherPc'[k] = dispatcherPc[k]
          /\ mode'[k] = mode[k]
          /\ batch'[k] = batch[k]
          /\ fanout'[k] = fanout[k]
      BY <2>2 DEF DispatchersTypeOK
    <3>2. /\ dispatcherPc'[k] = "polling" <=> batch'[k] = {}
          /\ dispatcherPc'[k] = "marking" => mode'[k] = DELIVERY
          /\ \A i \in batch'[k] : rows'[i].type = mode'[k]
      BY <3>1 DEF DispatchersTypeOK, RowsGrow
    <3>3. ASSUME fanout'[k] # NULL
          PROVE  Handles(k, FANOUT)' /\ fanout'[k].event = rows'[Current(k)'].event
      <4>1. Handles(k, FANOUT) /\ fanout[k].event = rows[Current(k)].event
        BY <3>1, <3>3 DEF DispatchersTypeOK
      <4>2. Current(k) \in DOMAIN rows
        BY <4>1, CurrentInBatch DEF Handles
      <4>3. Current(k)' = Current(k)
        BY <3>1 DEF Current
      <4> QED
        BY <3>1, <4>1, <4>2, <4>3 DEF Handles, FANOUT, RowsGrow
    <3> QED
      BY <3>2, <3>3
  <2> QED
    BY <2>1, <2>2
<1> QED
  BY <1>1, <1>2, <1>3 DEF DispatchersTypeOK

LEMMA NextRowTyped ==
    ASSUME RowsTypeOK, DispatchersTypeOK, RowsGrow, NEW m \in Materializers, NextRow(m),
           fanout'[m] = NULL,
           \A k \in Materializers \ {m} : fanout'[k] = fanout[k]
    PROVE  DispatchersTypeOK'
<1> DEFINE rest == batch[m] \ {Current(m)}
<1>1. mode[m] \in RowTypes /\ batch[m] \subseteq DOMAIN rows
  BY DEF DispatchersTypeOK
<1>2. OtherMode(mode[m]) \in RowTypes
  BY DEF OtherMode, RowTypes
<1>3. CASE rest = {}
  BY <1>1, <1>2, <1>3, DispatcherMoves DEF NextRow
<1>4. CASE rest # {}
  <2>1. \A i \in rest : rows[i].type = mode[m]
    BY DEF DispatchersTypeOK
  <2>2. mode' = [mode EXCEPT ![m] = mode[m]]
    BY <1>4 DEF NextRow
  <2> QED
    BY <1>1, <1>4, <2>1, <2>2, DispatcherMoves DEF NextRow
<1> QED
  BY <1>3, <1>4

\* A dispatcher that stays where it is may have other dispatchers' rows added.
LEMMA DispatchersStay ==
    ASSUME RowsTypeOK, DispatchersTypeOK, RowsGrow, UNCHANGED dispatchers,
           \A k \in Materializers : fanout'[k] # NULL =>
                /\ Handles(k, FANOUT)
                /\ fanout'[k].event = rows[Current(k)].event
    PROVE  DispatchersTypeOK'
<1>1. /\ dispatcherPc' = dispatcherPc
      /\ mode' = mode
      /\ batch' = batch
  BY DEF dispatchers
<1>2. /\ dispatcherPc' \in [Materializers -> {"polling", "handling", "marking"}]
      /\ mode' \in [Materializers -> RowTypes]
      /\ batch' \in [Materializers -> SUBSET DOMAIN rows']
  BY <1>1 DEF DispatchersTypeOK, RowsGrow
<1>3. ASSUME NEW k \in Materializers
      PROVE  /\ dispatcherPc'[k] = "polling" <=> batch'[k] = {}
             /\ dispatcherPc'[k] = "marking" => mode'[k] = DELIVERY
             /\ \A i \in batch'[k] : rows'[i].type = mode'[k]
  BY <1>1 DEF DispatchersTypeOK, RowsGrow
<1>4. ASSUME NEW k \in Materializers, fanout'[k] # NULL
      PROVE  Handles(k, FANOUT)' /\ fanout'[k].event = rows'[Current(k)'].event
  <2>1. Handles(k, FANOUT) /\ fanout'[k].event = rows[Current(k)].event
    BY <1>4
  <2>2. Current(k) \in DOMAIN rows
    BY <2>1, CurrentInBatch DEF Handles
  <2>3. Current(k)' = Current(k)
    BY <1>1 DEF Current
  <2> QED
    BY <1>1, <2>1, <2>2, <2>3 DEF Handles, FANOUT, RowsGrow
<1> QED
  BY <1>2, <1>3, <1>4 DEF DispatchersTypeOK

LEMMA DispatchersStep ==
    ASSUME TypeOK, RowsTypeOK, DispatchersTypeOK, RowsGrow, [PipelineNext]_pipelineVars
    PROVE  DispatchersTypeOK'
<1>0. /\ \A k \in Materializers : fanout[k] # NULL =>
            Handles(k, FANOUT) /\ fanout[k].event = rows[Current(k)].event
      /\ fanout \in [Materializers ->
            [event: Events, subscriptions: (SUBSET Subscriptions) \cup {NULL}] \cup {NULL}]
  BY DEF DispatchersTypeOK, TypeOK
<1>1. ASSUME UNCHANGED <<dispatchers, fanout>> PROVE DispatchersTypeOK'
  BY <1>0, <1>1, DispatchersStay
<1>2. ASSUME NEW m \in Materializers, FetchBatch(m) PROVE DispatchersTypeOK'
  <2>1. UNCHANGED fanout /\ fanout[m] = NULL
    BY <1>0, <1>2 DEF FetchBatch, vars, fanoutVars, Handles
  <2>2. /\ findUnpublished(mode[m]) \subseteq DOMAIN rows
        /\ \A i \in findUnpublished(mode[m]) : rows[i].type = mode[m]
    BY DEF findUnpublished
  <2>3. mode[m] \in RowTypes /\ dispatcherPc[m] = "polling" /\ OtherMode(mode[m]) \in RowTypes
    BY <1>2 DEF FetchBatch, DispatchersTypeOK, OtherMode, RowTypes
  <2>4. CASE findUnpublished(mode[m]) = {}
    <3>1. dispatcherPc' = [dispatcherPc EXCEPT ![m] = "polling"]
      BY <1>2, <2>3, <2>4 DEF FetchBatch, DispatchersTypeOK
    <3> QED
      BY <1>2, <2>1, <2>3, <2>4, <3>1, DispatcherMoves DEF FetchBatch
  <2>5. CASE findUnpublished(mode[m]) # {}
    <3>1. mode' = [mode EXCEPT ![m] = mode[m]]
      BY <1>2, <2>5 DEF FetchBatch, DispatchersTypeOK
    <3> HIDE DEF findUnpublished
    <3> QED
      BY <1>2, <2>1, <2>2, <2>3, <2>5, <3>1, DispatcherMoves DEF FetchBatch
  <2> QED
    BY <2>4, <2>5
<1>3. ASSUME NEW m \in Materializers, BeginFanout(m) PROVE DispatchersTypeOK'
  <2>1. UNCHANGED dispatchers
    BY <1>3 DEF BeginFanout
  <2>2. /\ Handles(m, FANOUT)
        /\ fanout' = [fanout EXCEPT ![m] = [event |-> rows[Current(m)].event,
                                            subscriptions |-> NULL]]
    BY <1>3 DEF BeginFanout, FindSource
  <2> QED
    BY <1>0, <2>1, <2>2, DispatchersStay
<1>4. ASSUME NEW m \in Materializers, ReadSubscriptions(m) PROVE DispatchersTypeOK'
  <2>1. UNCHANGED dispatchers
    BY <1>4 DEF ReadSubscriptions
  <2>2. /\ fanout[m] # NULL
        /\ fanout' = [fanout EXCEPT ![m].subscriptions =
                            {s \in Subscriptions : enabled[s] = TRUE}]
    BY <1>4 DEF ReadSubscriptions, FindSubscriptions
  <2>3. fanout'[m].event = fanout[m].event
    BY <1>0, <2>2
  <2> QED
    BY <1>0, <2>1, <2>2, <2>3, DispatchersStay
<1>5. ASSUME NEW m \in Materializers,
             Materialize(m) \/ MaterializeFails(m)
      PROVE  DispatchersTypeOK'
  <2>1. NextRow(m) /\ fanout' = [fanout EXCEPT ![m] = NULL]
    BY <1>5 DEF Materialize, MaterializeFails, materializeDeliveries, FanoutFails
  <2> QED
    BY <1>0, <2>1, NextRowTyped
<1>6. ASSUME NEW m \in Materializers,
             SkipFanout(m) \/ PublishFails(m) \/ MarkPublished(m) \/ MarkFails(m)
      PROVE  DispatchersTypeOK'
  <2>1. NextRow(m) /\ UNCHANGED fanout
    BY <1>6 DEF SkipFanout, PublishFails, MarkPublished, MarkFails, vars, fanoutVars
  <2>2. SkipFanout(m) => fanout[m] = NULL
    BY DEF SkipFanout
  <2>3. ~SkipFanout(m) => ~Handles(m, FANOUT)
    BY <1>6, RowTypesDiffer
       DEF PublishFails, MarkPublished, MarkFails, DispatchersTypeOK, Handles
  <2>4. fanout[m] = NULL
    BY <1>0, <2>2, <2>3
  <2> QED
    BY <2>1, <2>4, NextRowTyped
<1>7. ASSUME NEW m \in Materializers, Publish(m) PROVE DispatchersTypeOK'
  <2>1. /\ mode[m] = DELIVERY /\ DELIVERY \in RowTypes
        /\ dispatcherPc[m] = "handling"
        /\ UNCHANGED <<fanout, mode, batch>>
        /\ dispatcherPc' = [dispatcherPc EXCEPT ![m] = "marking"]
    BY <1>7 DEF Publish, Handles, vars, fanoutVars, RowTypes
  <2>2. fanout[m] = NULL
    BY <1>0, <2>1, RowTypesDiffer DEF Handles
  <2>3. /\ batch[m] \in SUBSET DOMAIN rows
        /\ batch[m] # {}
        /\ \A i \in batch[m] : rows[i].type = DELIVERY
        /\ mode' = [mode EXCEPT ![m] = DELIVERY]
        /\ batch' = [batch EXCEPT ![m] = batch[m]]
    BY <2>1 DEF DispatchersTypeOK
  <2>4. PICK p \in {"polling", "handling", "marking"}, type \in RowTypes,
             b \in SUBSET DOMAIN rows :
             p = "marking" /\ type = DELIVERY /\ b = batch[m]
    BY <2>1, <2>3
  <2>5. /\ p = "polling" <=> b = {}
        /\ p = "marking" => type = DELIVERY
        /\ \A i \in b : rows[i].type = type
    BY <2>3, <2>4
  <2>6. /\ dispatcherPc' = [dispatcherPc EXCEPT ![m] = p]
        /\ mode' = [mode EXCEPT ![m] = type]
        /\ batch' = [batch EXCEPT ![m] = b]
    BY <2>1, <2>3, <2>4
  <2>7. /\ fanout'[m] = NULL
        /\ \A k \in Materializers \ {m} : fanout'[k] = fanout[k]
    BY <2>1, <2>2
  <2> QED
    BY <2>5, <2>6, <2>7, DispatcherMoves
<1>8. ASSUME NEW m \in Materializers, Restart(m) PROVE DispatchersTypeOK'
  <2>1. /\ dispatcherPc' = [dispatcherPc EXCEPT ![m] = "polling"]
        /\ mode' = [mode EXCEPT ![m] = FANOUT]
        /\ batch' = [batch EXCEPT ![m] = {}]
        /\ FANOUT \in RowTypes
    BY <1>8 DEF Restart, RowTypes
  <2>2. fanout' = [fanout EXCEPT ![m] = NULL] \/ (fanout[m] = NULL /\ UNCHANGED fanout)
    BY <1>8 DEF Restart, FanoutFails, vars, fanoutVars
  <2>3. /\ "polling" \in {"polling", "handling", "marking"}
        /\ {} \in SUBSET DOMAIN rows
        /\ "polling" # "marking"
        /\ fanout'[m] = NULL
        /\ \A k \in Materializers \ {m} : fanout'[k] = fanout[k]
    BY <1>0, <2>2
  <2> QED
    BY <2>1, <2>3, DispatcherMoves
<1>9. ASSUME \/ \E e \in Events : CommitEvent(e)
             \/ \E s \in Subscriptions : Subscribe(s)
             \/ \E id \in JobIds : Promote(id) \/ Stall(id)
             \/ \E t \in Tasks, id \in JobIds : Take(t, id)
             \/ TimePasses
             \/ UNCHANGED pipelineVars
      PROVE  UNCHANGED <<dispatchers, fanout>>
  BY <1>9 DEF CommitEvent, Subscribe, create, setEnabled, Promote, Stall, Take, StartJob,
              TimePasses, Tick, pipelineVars, vars, fanoutVars
<1>10. ASSUME NEW t \in Tasks, Advance(t) \/ RecordFails(t) \/ Throw(t) \/ Die(t)
       PROVE  UNCHANGED <<dispatchers, fanout>>
  <2>1. TaskStep(t) /\ UNCHANGED dispatchers
    BY <1>10 DEF Advance, Work, Complete, Postpone, RecordFails, Throw, Die, TaskStep
  <2>2. UNCHANGED fanout
    BY <2>1 DEF TaskStep, ClaimRefused, ClaimNotDue, ClaimRead, StopDisabled, claimAttempt,
                ClaimLost, post, markDelivered, MarkDeliveredThrows, recordFailure, Abandon,
                TaskReads, TaskWrites, fanoutVars
  <2> QED
    BY <2>1, <2>2
<1> QED
  BY <1>1, <1>2, <1>3, <1>4, <1>5, <1>6, <1>7, <1>8, <1>9, <1>10 DEF PipelineNext, Dispatch

-----------------------------------------------------------------------------
LEMMA FaultsStep ==
    ASSUME faults \in 0..MaxFaults, [PipelineNext]_pipelineVars
    PROVE  faults' \in 0..MaxFaults
<1>1. ASSUME NEW kind, Fault(kind) PROVE faults' \in 0..MaxFaults
  BY <1>1, PipelineAssumption DEF Fault
<1>2. ASSUME NEW m \in Materializers,
             MaterializeFails(m) \/ PublishFails(m) \/ MarkFails(m) \/ Restart(m)
      PROVE  faults' \in 0..MaxFaults
  BY <1>1, <1>2 DEF MaterializeFails, PublishFails, MarkFails, Restart
<1>3. ASSUME NEW id \in JobIds, Stall(id) PROVE faults' \in 0..MaxFaults
  BY <1>1, <1>3 DEF Stall
<1>4. ASSUME NEW t \in Tasks, Complete(t) \/ RecordFails(t) \/ Throw(t) \/ Die(t)
      PROVE  faults' \in 0..MaxFaults
  BY <1>1, <1>4 DEF Complete, RecordFails, Throw, Die
<1>5. ASSUME \/ \E e \in Events : CommitEvent(e)
             \/ \E s \in Subscriptions : Subscribe(s)
             \/ \E m \in Materializers : Dispatch(m)
             \/ \E id \in JobIds : Promote(id)
             \/ \E t \in Tasks, id \in JobIds : Take(t, id)
             \/ \E t \in Tasks : Work(t) \/ Postpone(t)
             \/ TimePasses
             \/ UNCHANGED pipelineVars
      PROVE  UNCHANGED faults
  BY <1>5 DEF CommitEvent, Subscribe, Dispatch, FetchBatch, BeginFanout, SkipFanout,
              ReadSubscriptions, Materialize, Publish, MarkPublished, Promote, Take, Work,
              Postpone, TimePasses, pipelineVars
<1> QED
  BY <1>2, <1>3, <1>4, <1>5 DEF PipelineNext, Advance

LEMMA PipelineTypeStep == PipelineTypeOK /\ [PipelineNext]_pipelineVars => PipelineTypeOK'
<1> SUFFICES ASSUME TypeOK, RowsTypeOK, DispatchersTypeOK, QueueTypeOK,
                    faults \in 0..MaxFaults, [PipelineNext]_pipelineVars
             PROVE  PipelineTypeOK'
  BY DEF PipelineTypeOK
<1>1. TypeOK'
  BY PipelineStep, TypeStep
<1>2. RowsTypeOK' /\ RowsGrow
  BY RowsStep
<1>3. DispatchersTypeOK'
  BY <1>2, DispatchersStep
<1>4. QueueTypeOK'
  BY QueueStep
<1> QED
  BY <1>1, <1>2, <1>3, <1>4, FaultsStep DEF PipelineTypeOK

LEMMA PipelineTypeInit == PipelineInit => PipelineTypeOK
<1> SUFFICES ASSUME PipelineInit PROVE PipelineTypeOK
  OBVIOUS
<1>1. TypeOK
  BY TypeInit DEF PipelineInit
<1>2. RowsTypeOK
  BY DEF PipelineInit, RowsTypeOK
<1>3. DispatchersTypeOK
  BY DEF PipelineInit, Init, DispatchersTypeOK, RowTypes
<1>4. QueueTypeOK
  BY PipelineAssumption DEF PipelineInit, QueueInit, QueueTypeOK, JobStates
<1>5. faults \in 0..MaxFaults
  BY PipelineAssumption DEF PipelineInit
<1> QED
  BY <1>1, <1>2, <1>3, <1>4, <1>5 DEF PipelineTypeOK

\* Whatever fails and whoever restarts, the variables have their types: no
\* dispatcher handles a row of the other type or one that is not there, and
\* an open transaction is that of the row in hand.
THEOREM PipelineTypeCorrect == PipelineSpec => []PipelineTypeOK
BY PipelineTypeInit, PipelineTypeStep, PTL DEF PipelineSpec

\* Outbox, dispatchers and queue only decide when WebhookDelivery's steps
\* happen.
THEOREM PipelineImplementsDelivery == PipelineSpec => ImplementsDelivery
<1>1. PipelineInit => Init
  BY DEF PipelineInit
<1>2. PipelineTypeOK /\ [PipelineNext]_pipelineVars => [Next]_vars
  BY PipelineStep DEF PipelineTypeOK
<1> QED
  BY <1>1, <1>2, PipelineTypeCorrect, PTL DEF PipelineSpec, ImplementsDelivery, Spec

\* Attempts are exclusive in the pipeline, whatever fails in it.
COROLLARY PipelineAttemptsAreExclusive == PipelineSpec => []AttemptExclusive
BY PipelineImplementsDelivery, AttemptsAreExclusive, PTL DEF ImplementsDelivery

\* And its rows tell the truth.
COROLLARY PipelineOutcomesAreTrue == PipelineSpec => []OutcomeIsTruthful
BY PipelineImplementsDelivery, OutcomesAreTrue, PTL DEF ImplementsDelivery

\* The pipeline takes every delivery through the promised lifecycle.
COROLLARY PipelineImplementsLifecycle == PipelineSpec => ImplementsLifecycle
BY PipelineImplementsDelivery, DeliveryImplementsLifecycle, PTL DEF ImplementsDelivery

-----------------------------------------------------------------------------
(* Published means done. A row of a delivery is marked after its job was   *)
(* added, and a job stays known; that needs the job's number in range. A   *)
(* row of an event is marked with the rows of its deliveries added, and a  *)
(* delivery that is there already has a row since it was created.          *)

RequestsInRange == \A request \in outbox : webhookDeliveryJobId(request) \in JobIds

Known(row) == jobState[webhookDeliveryJobId(row.request)] # "absent"

MarkedAreKnown == \A i \in published : rows[i].type = DELIVERY => Known(rows[i])

MarkingIsKnown ==
    \A m \in Materializers : dispatcherPc[m] = "marking" => Known(rows[Current(m)])

HasRow(d) == \E j \in DOMAIN rows : rows[j].type = DELIVERY /\ rows[j].request.delivery = d

DeliveriesHaveRows == \A d \in Deliveries : status[d] # NULL => HasRow(d)

LEMMA RangeStep == TypeOK /\ FailuresFit /\ RequestsInRange /\ [Next]_vars => RequestsInRange'
<1> SUFFICES ASSUME TypeOK, FailuresFit, RequestsInRange, [Next]_vars,
                    NEW request \in outbox' \ outbox
             PROVE  webhookDeliveryJobId(request) \in JobIds
  BY DEF RequestsInRange, webhookDeliveryJobId
<1>1. ASSUME NEW m \in Materializers, materializeDeliveries(m)
      PROVE  webhookDeliveryJobId(request) \in JobIds
  <2>1. PICK s \in fanout[m].subscriptions :
            request = DeliveryRequest(<<s, fanout[m].event>>, 1, NULL)
    BY <1>1 DEF materializeDeliveries
  <2>2. s \in Subscriptions /\ fanout[m].event \in Events
    BY <1>1 DEF materializeDeliveries, TypeOK
  <2> QED
    BY <2>1, <2>2, WebhookAssumption
       DEF DeliveryRequest, webhookDeliveryJobId, JobIds, Deliveries
<1>2. ASSUME NEW t \in Tasks, recordFailure(t)
      PROVE  webhookDeliveryJobId(request) \in JobIds
  <2>1. /\ pc[t] = "failing"
        /\ request \in RetryOf(t)
    BY <1>2 DEF recordFailure
  <2>2. /\ failure[t].status = "RETRYING"
        /\ request.delivery = job[t].delivery
        /\ request.attemptNumber = AttemptNumber(t) + 1
    BY <2>1 DEF RetryOf, DeliveryRequest
  <2>3. AttemptNumber(t) + 1 <= MaxAttempts
    BY <2>1, <2>2 DEF FailuresFit, FailureFits
  <2>4. AttemptNumber(t) \in Nat /\ job[t].delivery \in Deliveries
    BY <2>1, AttemptNumberType DEF TypeOK, JobType
  <2> QED
    BY <2>2, <2>3, <2>4, WebhookAssumption DEF webhookDeliveryJobId, JobIds
<1> QED
  BY StepCases, <1>1, <1>2
     DEF create, setEnabled, FindSource, FindSubscriptions, FanoutFails, StartJob, TaskReads,
         ClaimRead, StopDisabled, claimAttempt, post, markDelivered, MarkDeliveredThrows, Tick,
         vars

LEMMA RangeInvariant == Spec => []RequestsInRange
<1>1. Init => RequestsInRange
  BY DEF Init, RequestsInRange
<1>2. RetryInv => FailuresFit
  BY DEF RetryInv
<1> QED
  BY <1>1, <1>2, RangeStep, TypeCorrect, RetryInvariant, PTL DEF Spec

\* A delivery appears with its row, and rows stay.
LEMMA HaveRowsStep ==
    PipelineTypeOK /\ DeliveriesHaveRows /\ [PipelineNext]_pipelineVars => DeliveriesHaveRows'
<1> SUFFICES ASSUME PipelineTypeOK, DeliveriesHaveRows, [PipelineNext]_pipelineVars,
                    NEW d \in Deliveries, status'[d] # NULL
             PROVE  HasRow(d)'
  BY DEF DeliveriesHaveRows
<1>0. TypeOK /\ RowsTypeOK /\ DispatchersTypeOK
  BY DEF PipelineTypeOK
<1>1. CASE status[d] # NULL
  <2>1. HasRow(d) /\ RowsGrow
    BY <1>0, <1>1, RowsStep DEF DeliveriesHaveRows
  <2> QED
    BY <2>1, RowTypesDiffer DEF HasRow, RowsGrow, DELIVERY
<1>2. ASSUME status[d] = NULL, NEW m \in Materializers, Materialize(m) PROVE HasRow(d)'
  <2>1. d \in CreatedDeliveries(m)
    BY <1>2 DEF Materialize, materializeDeliveries
  <2>2. PICK s \in fanout[m].subscriptions : d = <<s, fanout[m].event>>
    BY <2>1 DEF CreatedDeliveries
  <2> QED
    BY <1>0, <1>2, <2>2, MaterializingRows DEF HasRow, DELIVERY
<1>3. ASSUME NEW m \in Materializers,
             \/ FetchBatch(m) \/ BeginFanout(m) \/ SkipFanout(m) \/ ReadSubscriptions(m)
             \/ Publish(m) \/ MarkPublished(m) \/ MaterializeFails(m) \/ PublishFails(m)
             \/ MarkFails(m) \/ Restart(m)
      PROVE  UNCHANGED status
  BY <1>3 DEF FetchBatch, BeginFanout, SkipFanout, ReadSubscriptions, Publish, MarkPublished,
              MaterializeFails, PublishFails, MarkFails, Restart, FindSource,
              FindSubscriptions, FanoutFails, vars, deliveryRow
<1>4. ASSUME \/ \E e \in Events : CommitEvent(e)
             \/ \E s \in Subscriptions : Subscribe(s)
             \/ \E id \in JobIds : Promote(id) \/ Stall(id)
             \/ \E t \in Tasks, id \in JobIds : Take(t, id)
             \/ TimePasses
             \/ UNCHANGED pipelineVars
      PROVE  UNCHANGED status
  BY <1>4 DEF CommitEvent, Subscribe, create, setEnabled, Promote, Stall, Take, StartJob,
              TimePasses, Tick, pipelineVars, vars, deliveryRow
<1>5. ASSUME NEW t \in Tasks, Advance(t) \/ RecordFails(t) \/ Throw(t) \/ Die(t),
             status[d] = NULL
      PROVE  status'[d] = NULL
  <2>1. Update(t) \/ UNCHANGED status
    BY <1>5 DEF Advance, Work, Complete, Postpone, RecordFails, Throw, Die, Update,
                ClaimRefused, ClaimNotDue, ClaimRead, claimAttempt, ClaimLost, post, Abandon,
                TaskReads, deliveryRow
  <2>2. CASE Update(t)
    <3>1. PICK c \in Deliveries : c = job[t].delivery
      BY <1>0, <2>2, Updating
    <3>2. CASE d # c
      BY <1>0, <1>5, <2>2, <3>1, <3>2, Updating
    <3>3. CASE d = c
      BY <1>0, <1>5, <2>2, <3>1, <3>3, UpdatedStatus, WebhookAssumption
         DEF WebhookDeliveryStatus
    <3> QED
      BY <3>2, <3>3
  <2> QED
    BY <1>5, <2>1, <2>2
<1> QED
  BY <1>1, <1>2, <1>3, <1>4, <1>5 DEF PipelineNext, Dispatch

\* The rows in hand.
LEMMA MarkingStep ==
    PipelineTypeOK /\ RequestsInRange /\ MarkingIsKnown /\ [PipelineNext]_pipelineVars
        => MarkingIsKnown'
<1> SUFFICES ASSUME PipelineTypeOK, RequestsInRange, MarkingIsKnown,
                    [PipelineNext]_pipelineVars,
                    NEW m \in Materializers, dispatcherPc'[m] = "marking"
             PROVE  Known(rows[Current(m)])'
  BY DEF MarkingIsKnown
<1>0. TypeOK /\ RowsTypeOK /\ DispatchersTypeOK /\ QueueTypeOK
  BY DEF PipelineTypeOK
<1>1. RowsGrow /\ JobsStay
  BY <1>0, RowsStep, QueueStep
\* Its row stays in hand while a dispatcher does not move.
<1>2. ASSUME batch'[m] = batch[m], dispatcherPc[m] # "polling", mode[m] = DELIVERY,
             jobState'[webhookDeliveryJobId(rows[Current(m)].request)] # "absent"
      PROVE  Known(rows[Current(m)])'
  <2>1. Current(m)' = Current(m)
    BY <1>2 DEF Current
  <2>2. Current(m) \in DOMAIN rows
    BY <1>0, <1>2, CurrentInBatch
  <2> QED
    BY <1>1, <1>2, <2>1, <2>2 DEF RowsGrow, Known, webhookDeliveryJobId
<1>3. ASSUME dispatcherPc[m] # "polling", mode[m] = DELIVERY
      PROVE  webhookDeliveryJobId(rows[Current(m)].request) \in JobIds
  BY <1>0, <1>3, CurrentInBatch, RowByType DEF RequestsInRange
<1>4. CASE dispatcherPc[m] = "marking" /\ batch'[m] = batch[m]
  <2>1. mode[m] = DELIVERY
    BY <1>0, <1>4 DEF DispatchersTypeOK
  <2>2. jobState[webhookDeliveryJobId(rows[Current(m)].request)] # "absent"
    BY <1>4 DEF MarkingIsKnown, Known
  <2> QED
    BY <1>1, <1>2, <1>3, <1>4, <2>1, <2>2 DEF JobsStay
<1>5. CASE Publish(m)
  <2>1. /\ dispatcherPc[m] = "handling" /\ mode[m] = DELIVERY
        /\ batch' = batch
        /\ AddJob(rows[Current(m)].request)
    BY <1>5 DEF Publish, Handles
  <2> QED
    BY <1>0, <1>2, <1>3, <2>1, AddingJob
<1>6. ASSUME NEW k \in Materializers,
             \/ FetchBatch(k)
             \/ NextRow(k)
             \/ Publish(k) /\ k # m
             \/ Restart(k)
      PROVE  dispatcherPc[m] = "marking" /\ batch'[m] = batch[m]
  BY <1>0, <1>6 DEF FetchBatch, NextRow, Publish, Restart, DispatchersTypeOK
<1>7. ASSUME UNCHANGED dispatchers
      PROVE  dispatcherPc[m] = "marking" /\ batch'[m] = batch[m]
  BY <1>7 DEF dispatchers
<1>8. ASSUME \/ \E e \in Events : CommitEvent(e)
             \/ \E s \in Subscriptions : Subscribe(s)
             \/ \E id \in JobIds : Promote(id) \/ Stall(id)
             \/ \E t \in Tasks, id \in JobIds : Take(t, id)
             \/ \E t \in Tasks : Advance(t) \/ RecordFails(t) \/ Throw(t) \/ Die(t)
             \/ \E k \in Materializers : BeginFanout(k) \/ ReadSubscriptions(k)
             \/ TimePasses
             \/ UNCHANGED pipelineVars
      PROVE  UNCHANGED dispatchers
  BY <1>8 DEF CommitEvent, Subscribe, Promote, Stall, Take, Advance, Work, Complete, Postpone,
              RecordFails, Throw, Die, BeginFanout, ReadSubscriptions, TimePasses, pipelineVars
<1>9. ASSUME NEW k \in Materializers,
             \/ SkipFanout(k) \/ Materialize(k) \/ MarkPublished(k)
             \/ MaterializeFails(k) \/ PublishFails(k) \/ MarkFails(k)
      PROVE  NextRow(k)
  BY <1>9 DEF SkipFanout, Materialize, MarkPublished, MaterializeFails, PublishFails, MarkFails
<1> QED
  BY <1>4, <1>5, <1>6, <1>7, <1>8, <1>9 DEF PipelineNext, Dispatch

\* The rows that are marked.
LEMMA MarkedStep ==
    PipelineTypeOK /\ RequestsInRange /\ MarkingIsKnown /\ MarkedAreKnown
        /\ [PipelineNext]_pipelineVars => MarkedAreKnown'
<1> SUFFICES ASSUME PipelineTypeOK, RequestsInRange, MarkingIsKnown, MarkedAreKnown,
                    [PipelineNext]_pipelineVars,
                    NEW i \in published', rows'[i].type = DELIVERY
             PROVE  Known(rows[i])'
  BY DEF MarkedAreKnown, DELIVERY
<1>0. TypeOK /\ RowsTypeOK /\ DispatchersTypeOK /\ QueueTypeOK
  BY DEF PipelineTypeOK
<1>1. RowsGrow /\ JobsStay
  BY <1>0, RowsStep, QueueStep
<1>2. ASSUME i \in DOMAIN rows, Known(rows[i]) PROVE Known(rows[i])'
  <2>1. rows'[i] = rows[i] /\ rows[i] \in PipelineRow
    BY <1>0, <1>1, <1>2 DEF RowsGrow, RowsTypeOK
  <2>2. webhookDeliveryJobId(rows[i].request) \in JobIds
    BY <2>1, RowByType DEF RequestsInRange
  <2>3. jobState'[webhookDeliveryJobId(rows[i].request)] # "absent"
    BY <1>1, <1>2, <2>2 DEF JobsStay, Known
  <2> QED
    BY <2>1, <2>3 DEF Known, webhookDeliveryJobId
<1>3. CASE i \in published
  <2>1. i \in DOMAIN rows /\ rows[i].type = DELIVERY
    BY <1>0, <1>1, <1>3 DEF RowsTypeOK, RowsGrow
  <2> QED
    BY <1>2, <1>3, <2>1 DEF MarkedAreKnown
<1>4. ASSUME i \notin published, NEW m \in Materializers, MarkPublished(m)
      PROVE  Known(rows[i])'
  <2>1. i = Current(m) /\ dispatcherPc[m] = "marking"
    BY <1>4 DEF MarkPublished
  <2>2. i \in DOMAIN rows
    BY <1>0, <2>1, CurrentInBatch
  <2>3. Known(rows[i])
    BY <2>1 DEF MarkingIsKnown
  <2> QED
    BY <1>2, <2>2, <2>3
<1>5. ASSUME i \notin published, NEW m \in Materializers, Materialize(m) PROVE FALSE
  <2>1. i = Current(m) /\ fanout[m] # NULL
    BY <1>5 DEF Materialize, materializeDeliveries
  <2>2. dispatcherPc[m] # "polling" /\ mode[m] = FANOUT
    BY <1>0, <2>1 DEF DispatchersTypeOK, Handles
  <2>3. i \in DOMAIN rows /\ rows[i].type = FANOUT
    BY <1>0, <2>1, <2>2, CurrentInBatch
  <2> QED
    BY <1>1, <2>3, RowTypesDiffer DEF RowsGrow
<1>6. ASSUME \/ \E e \in Events : CommitEvent(e)
             \/ \E s \in Subscriptions : Subscribe(s)
             \/ \E id \in JobIds : Promote(id) \/ Stall(id)
             \/ \E t \in Tasks, id \in JobIds : Take(t, id)
             \/ \E t \in Tasks : Advance(t) \/ RecordFails(t) \/ Throw(t) \/ Die(t)
             \/ TimePasses
             \/ UNCHANGED pipelineVars
      PROVE  UNCHANGED published
  BY <1>6 DEF CommitEvent, Subscribe, Promote, Stall, Take, Advance, Work, Complete, Postpone,
              RecordFails, Throw, Die, TimePasses, pipelineVars, table
<1>7. ASSUME NEW m \in Materializers,
             \/ FetchBatch(m) \/ BeginFanout(m) \/ SkipFanout(m) \/ ReadSubscriptions(m)
             \/ Publish(m) \/ MaterializeFails(m) \/ PublishFails(m) \/ MarkFails(m)
             \/ Restart(m)
      PROVE  UNCHANGED published
  BY <1>7 DEF FetchBatch, BeginFanout, SkipFanout, ReadSubscriptions, Publish,
              MaterializeFails, PublishFails, MarkFails, Restart, table
<1> QED
  BY <1>3, <1>4, <1>5, <1>6, <1>7 DEF PipelineNext, Dispatch

LEMMA MarkedInvariant == PipelineSpec => [](DeliveriesHaveRows /\ MarkedAreKnown)
<1>1. PipelineInit => DeliveriesHaveRows /\ MarkingIsKnown /\ MarkedAreKnown
  BY DEF PipelineInit, Init, DeliveriesHaveRows, MarkingIsKnown, MarkedAreKnown
<1>2. Spec => []RequestsInRange
  BY RangeInvariant
<1> QED
  BY <1>1, <1>2, PipelineTypeCorrect, PipelineImplementsDelivery, HaveRowsStep, MarkingStep,
     MarkedStep, PTL DEF PipelineSpec, ImplementsDelivery

\* However many dispatchers work on the same rows, and wherever they fail or
\* die, no row is marked published before what it asks for was done.
THEOREM PublishedIsDone == PipelineSpec => []PublishedMeansDone
<1>1. PipelineTypeOK /\ DeliveriesHaveRows /\ MarkedAreKnown => PublishedMeansDone
  <2> SUFFICES ASSUME PipelineTypeOK, DeliveriesHaveRows, MarkedAreKnown, NEW i \in published
               PROVE  IF rows[i].type = DELIVERY
                      THEN jobState[webhookDeliveryJobId(rows[i].request)] # "absent"
                      ELSE \A s \in Subscriptions : status[<<s, rows[i].event>>] # NULL =>
                            HasRow(<<s, rows[i].event>>)
    BY DEF PublishedMeansDone, HasRow
  <2>1. rows[i] \in PipelineRow
    BY DEF PipelineTypeOK, RowsTypeOK
  <2>2. rows[i].type # DELIVERY => rows[i].event \in Events
    BY <2>1, RowByType
  <2> QED
    BY <2>2 DEF MarkedAreKnown, Known, DeliveriesHaveRows, Deliveries
<1> QED
  BY <1>1, PipelineTypeCorrect, MarkedInvariant, PTL

-----------------------------------------------------------------------------
(* Fan-out misses nobody. Who was enabled when an event was committed and  *)
(* was not disabled since is enabled still, so whoever reads the enabled   *)
(* subscriptions reads it; and an event is fanned out only once committed. *)

SubscribersStayEnabled ==
    \A e \in Events : subscribers[e] # NULL =>
        \A s \in subscribers[e] \ everDisabled : enabled[s] = TRUE

EventsCommitted ==
    \A i \in DOMAIN rows : rows[i].type = FANOUT => subscribers[rows[i].event] # NULL

ReadsReachSubscribers ==
    \A m \in Materializers : fanout[m] # NULL =>
        (fanout[m].subscriptions # NULL =>
            subscribers[fanout[m].event] \ everDisabled \subseteq fanout[m].subscriptions)

FanoutInv ==
    /\ SubscribersStayEnabled
    /\ EventsCommitted
    /\ ReadsReachSubscribers
    /\ FanoutReachesSubscribers

\* A delivery that exists is not removed.
LEMMA StatusStays ==
    ASSUME TypeOK, [Next]_vars, NEW d \in Deliveries, status[d] # NULL
    PROVE  status'[d] # NULL
<1>1. NULL \notin WebhookDeliveryStatus
  BY WebhookAssumption
<1>2. ASSUME NEW m \in Materializers, materializeDeliveries(m) PROVE status'[d] # NULL
  BY <1>1, <1>2 DEF materializeDeliveries, WebhookDeliveryStatus, ClaimableStatuses
<1>3. ASSUME NEW t \in Tasks, Update(t) PROVE status'[d] # NULL
  <2>1. CASE d # job[t].delivery
    BY <1>3, <2>1, Updating
  <2>2. CASE d = job[t].delivery
    <3>1. recordFailure(t) => failure[t].status \in {"RETRYING", "FAILED"}
      BY DEF TypeOK, FailureType, recordFailure
    <3> QED
      BY <1>1, <1>3, <2>2, <3>1, UpdatedStatus DEF WebhookDeliveryStatus, ClaimableStatuses
  <2> QED
    BY <2>1, <2>2
<1>4. \/ UNCHANGED status
      \/ \E m \in Materializers : materializeDeliveries(m)
      \/ \E t \in Tasks : Update(t)
  BY StepCases DEF Update, create, setEnabled, FindSource, FindSubscriptions, FanoutFails,
                   StartJob, ClaimRead, claimAttempt, post, Tick, TaskReads, deliveryRow, vars
<1> QED
  BY <1>2, <1>3, <1>4

\* Steps that commit no event.
LEMMA CommitCases ==
    ASSUME [PipelineNext]_pipelineVars
    PROVE  \/ UNCHANGED subscribers
           \/ \E e \in Events : CommitEvent(e)
BY DEF PipelineNext, Dispatch, Advance, pipelineVars, table, CommitEvent, Subscribe, FetchBatch,
       BeginFanout, SkipFanout, ReadSubscriptions, Materialize, Publish, MarkPublished,
       MaterializeFails, PublishFails, MarkFails, Restart, Promote, Stall, Take, Work, Complete,
       Postpone, RecordFails, Throw, Die, TimePasses

\* Steps that change no subscription.
LEMMA EnabledCases ==
    ASSUME [Next]_vars
    PROVE  \/ UNCHANGED <<enabled, everDisabled>>
           \/ \E s \in Subscriptions : create(s) \/ \E value \in BOOLEAN : setEnabled(s, value)
BY StepCases DEF FindSource, FindSubscriptions, FanoutFails, materializeDeliveries, StartJob,
    TaskReads, ClaimRead, StopDisabled, claimAttempt, post, markDelivered, MarkDeliveredThrows,
    recordFailure, TaskWrites, Tick, subscriptionVars, vars

\* Who was committed as a subscriber, and what stays of it.
LEMMA SubscribersStep ==
    PipelineTypeOK /\ SubscribersStayEnabled /\ [PipelineNext]_pipelineVars
        => /\ SubscribersStayEnabled'
           /\ \A e \in Events : subscribers[e] # NULL => subscribers'[e] = subscribers[e]
<1> SUFFICES ASSUME PipelineTypeOK, SubscribersStayEnabled, [PipelineNext]_pipelineVars
             PROVE  /\ SubscribersStayEnabled'
                    /\ \A e \in Events : subscribers[e] # NULL => subscribers'[e] = subscribers[e]
  OBVIOUS
<1>0. TypeOK /\ RowsTypeOK /\ DispatchersTypeOK /\ [Next]_vars
  BY PipelineStep DEF PipelineTypeOK
<1>1. ASSUME NEW e \in Events, CommitEvent(e)
      PROVE  /\ UNCHANGED <<enabled, everDisabled>>
             /\ subscribers[e] = NULL
             /\ subscribers' = [subscribers EXCEPT ![e] = {s \in Subscriptions : enabled[s] = TRUE}]
  BY <1>1 DEF CommitEvent, vars, subscriptionVars
<1>2. \A e \in Events : subscribers[e] # NULL => subscribers'[e] = subscribers[e]
  BY <1>0, <1>1, CommitCases DEF RowsTypeOK
<1>3. ASSUME NEW e \in Events, subscribers'[e] # NULL, NEW s \in subscribers'[e] \ everDisabled'
      PROVE  enabled'[s] = TRUE
  <2>1. s \notin everDisabled
    BY <1>0, <1>3, HistoryGrows
  <2>2. CASE subscribers'[e] = subscribers[e]
    <3>1. s \in Subscriptions /\ enabled[s] = TRUE
      BY <1>0, <1>3, <2>1, <2>2 DEF RowsTypeOK, SubscribersStayEnabled
    <3>2. ASSUME NEW q \in Subscriptions, create(q) PROVE enabled'[s] = TRUE
      BY <1>0, <3>1, <3>2 DEF create, TypeOK
    <3>3. ASSUME NEW q \in Subscriptions, NEW value \in BOOLEAN, setEnabled(q, value)
          PROVE  enabled'[s] = TRUE
      BY <1>0, <1>3, <3>1, <3>3 DEF setEnabled, TypeOK
    <3> QED
      BY <1>0, <3>1, <3>2, <3>3, EnabledCases
  <2>3. ASSUME NEW q \in Events, CommitEvent(q), subscribers'[e] # subscribers[e]
        PROVE  enabled'[s] = TRUE
    <3>1. e = q /\ subscribers'[e] = {r \in Subscriptions : enabled[r] = TRUE}
      BY <1>0, <1>1, <2>3 DEF RowsTypeOK
    <3>2. s \in {r \in Subscriptions : enabled[r] = TRUE}
      BY <1>3, <3>1
    <3> QED
      BY <1>1, <2>3, <3>2
  <2> QED
    BY <2>2, <2>3, CommitCases
<1> QED
  BY <1>2, <1>3 DEF SubscribersStayEnabled

\* The rows a step adds: a fan-out row for an event that is committed, or a
\* row of a delivery for each request that is new in the outbox.
LEMMA RowAdditions ==
    ASSUME TypeOK, RowsTypeOK, DispatchersTypeOK, [PipelineNext]_pipelineVars
    PROVE  /\ DeliveryRowsAdded \/ \E e \in Events : CommitEvent(e)
           /\ \A r \in outbox' \ outbox : \E i \in DOMAIN rows' : rows'[i] = DeliveryRow(r)
<1>1. outbox \subseteq outbox'
  BY PipelineStep, OutboxGrows
<1>2. ASSUME UNCHANGED rows PROVE DeliveryRowsAdded
  BY <1>2 DEF DeliveryRowsAdded
<1>3. ASSUME NEW m \in Materializers, Materialize(m)
      PROVE  /\ DeliveryRowsAdded
             /\ \A r \in outbox' \ outbox : \E i \in DOMAIN rows' : rows'[i] = DeliveryRow(r)
  <2>1. outbox' \ outbox \subseteq FanoutRequests(m)
    BY <1>3 DEF Materialize, materializeDeliveries, FanoutRequests
  <2> QED
    BY <1>3, <2>1, MaterializingRows
<1>4. ASSUME NEW t \in Tasks, Complete(t)
      PROVE  /\ DeliveryRowsAdded
             /\ \A r \in outbox' \ outbox : \E i \in DOMAIN rows' : rows'[i] = DeliveryRow(r)
  BY <1>1, <1>4, CompletingRows
<1>5. ASSUME NEW e \in Events, CommitEvent(e) PROVE UNCHANGED outbox
  BY <1>5 DEF CommitEvent, vars
<1>6. ASSUME NEW m \in Materializers,
             \/ FetchBatch(m) \/ BeginFanout(m) \/ SkipFanout(m) \/ ReadSubscriptions(m)
             \/ Publish(m) \/ MarkPublished(m) \/ MaterializeFails(m) \/ PublishFails(m)
             \/ MarkFails(m) \/ Restart(m)
      PROVE  UNCHANGED <<rows, outbox>>
  BY <1>6 DEF FetchBatch, BeginFanout, SkipFanout, ReadSubscriptions, Publish, MarkPublished,
              MaterializeFails, PublishFails, MarkFails, Restart, FindSource,
              FindSubscriptions, FanoutFails, vars, table
<1>7. ASSUME \/ \E s \in Subscriptions : Subscribe(s)
             \/ \E id \in JobIds : Promote(id) \/ Stall(id)
             \/ \E t \in Tasks, id \in JobIds : Take(t, id)
             \/ TimePasses
             \/ UNCHANGED pipelineVars
      PROVE  UNCHANGED <<rows, outbox>>
  BY <1>7 DEF Subscribe, create, setEnabled, Promote, Stall, Take, StartJob, TimePasses, Tick,
              pipelineVars, vars, table
<1>8. ASSUME NEW t \in Tasks, Work(t) \/ Postpone(t) \/ RecordFails(t) \/ Throw(t) \/ Die(t)
      PROVE  UNCHANGED <<rows, outbox>>
  BY <1>8 DEF Work, ClaimRead, claimAttempt, post, Postpone, ClaimNotDue, RecordFails,
              MarkDeliveredThrows, Throw, Die, Abandon, TaskReads, table
<1> QED
  BY <1>2, <1>3, <1>4, <1>5, <1>6, <1>7, <1>8 DEF PipelineNext, Dispatch, Advance

\* An event's row is there once it is committed.
LEMMA EventsCommittedStep ==
    PipelineTypeOK /\ SubscribersStayEnabled /\ EventsCommitted /\ [PipelineNext]_pipelineVars
        => EventsCommitted'
<1> SUFFICES ASSUME PipelineTypeOK, SubscribersStayEnabled, EventsCommitted,
                    [PipelineNext]_pipelineVars,
                    NEW i \in DOMAIN rows', rows'[i].type = FANOUT
             PROVE  subscribers'[rows'[i].event] # NULL
  BY DEF EventsCommitted, FANOUT
<1>0. TypeOK /\ RowsTypeOK /\ DispatchersTypeOK
  BY DEF PipelineTypeOK
<1>1. CASE i \in DOMAIN rows
  <2>1. rows'[i] = rows[i] /\ rows[i] \in PipelineRow
    BY <1>0, <1>1, RowsStep DEF RowsGrow, RowsTypeOK
  <2>2. rows[i].event \in Events /\ subscribers[rows[i].event] # NULL
    BY <1>1, <2>1, RowByType DEF EventsCommitted
  <2> QED
    BY <2>1, <2>2, SubscribersStep
<1>2. ASSUME i \notin DOMAIN rows, NEW e \in Events, CommitEvent(e)
      PROVE  subscribers'[rows'[i].event] # NULL
  <2>1. rows' = Append(rows, FanoutRow(e)) /\ rows \in Seq(PipelineRow)
    BY <1>0, <1>2 DEF CommitEvent, RowsTypeOK
  <2>2. rows'[i] = FanoutRow(e)
    BY <1>2, <2>1
  <2>3. subscribers'[e] = {s \in Subscriptions : enabled[s] = TRUE}
    BY <1>0, <1>2 DEF CommitEvent, RowsTypeOK
  <2> QED
    BY <2>2, <2>3, WebhookAssumption DEF FanoutRow
<1> QED
  BY <1>0, <1>1, <1>2, RowAdditions, RowTypesDiffer DEF DeliveryRowsAdded

\* The event of an open fan-out is committed.
LEMMA OpenIsCommitted ==
    ASSUME PipelineTypeOK, EventsCommitted, NEW m \in Materializers, fanout[m] # NULL
    PROVE  /\ fanout[m].event \in Events
           /\ subscribers[fanout[m].event] # NULL
           /\ fanout[m].event = rows[Current(m)].event
           /\ Current(m) \in DOMAIN rows
<1>1. RowsTypeOK /\ DispatchersTypeOK /\ TypeOK
  BY DEF PipelineTypeOK
<1>2. Handles(m, FANOUT) /\ fanout[m].event = rows[Current(m)].event
  BY <1>1 DEF DispatchersTypeOK
<1>3. Current(m) \in DOMAIN rows /\ rows[Current(m)].type = FANOUT
  BY <1>1, <1>2, CurrentInBatch DEF Handles
<1> QED
  BY <1>1, <1>2, <1>3 DEF EventsCommitted, TypeOK

\* What a fan-out has read.
LEMMA ReadsStep ==
    PipelineTypeOK /\ SubscribersStayEnabled /\ EventsCommitted /\ ReadsReachSubscribers
        /\ [PipelineNext]_pipelineVars => ReadsReachSubscribers'
<1> SUFFICES ASSUME PipelineTypeOK, SubscribersStayEnabled, EventsCommitted,
                    ReadsReachSubscribers, [PipelineNext]_pipelineVars,
                    NEW m \in Materializers, fanout'[m] # NULL, fanout'[m].subscriptions # NULL
             PROVE  subscribers'[fanout'[m].event] \ everDisabled' \subseteq
                        fanout'[m].subscriptions
  BY DEF ReadsReachSubscribers
<1>0. TypeOK /\ RowsTypeOK /\ DispatchersTypeOK /\ [Next]_vars
  BY PipelineStep DEF PipelineTypeOK
<1>1. everDisabled \subseteq everDisabled'
  BY <1>0, HistoryGrows
<1>2. CASE fanout'[m] = fanout[m]
  <2>1. fanout[m].event \in Events /\ subscribers[fanout[m].event] # NULL
    BY <1>2, OpenIsCommitted
  <2>2. subscribers'[fanout[m].event] = subscribers[fanout[m].event]
    BY <2>1, SubscribersStep
  <2> QED
    BY <1>1, <1>2, <2>2 DEF ReadsReachSubscribers
<1>3. ASSUME NEW k \in Materializers, FindSubscriptions(k), fanout'[m] # fanout[m]
      PROVE  subscribers'[fanout'[m].event] \ everDisabled' \subseteq fanout'[m].subscriptions
  <2>1. /\ fanout[m] # NULL /\ k = m
        /\ fanout'[m].event = fanout[m].event
        /\ fanout'[m].subscriptions = {s \in Subscriptions : enabled[s] = TRUE}
    BY <1>0, <1>3 DEF FindSubscriptions, TypeOK
  <2>2. fanout[m].event \in Events /\ subscribers[fanout[m].event] # NULL
    BY <2>1, OpenIsCommitted
  <2>3. subscribers'[fanout[m].event] = subscribers[fanout[m].event]
    BY <2>2, SubscribersStep
  <2>4. subscribers[fanout[m].event] \subseteq Subscriptions
    BY <1>0, <2>2 DEF RowsTypeOK
  <2> QED
    BY <1>1, <2>1, <2>2, <2>3, <2>4 DEF SubscribersStayEnabled
<1>4. ASSUME NEW k \in Materializers, NEW e \in Events, FindSource(k, e), fanout'[m] # fanout[m]
      PROVE  FALSE
  BY <1>0, <1>4 DEF FindSource, TypeOK
<1>5. ASSUME NEW k \in Materializers, materializeDeliveries(k) \/ FanoutFails(k)
      PROVE  fanout'[m] = fanout[m]
  BY <1>0, <1>5 DEF materializeDeliveries, FanoutFails, TypeOK
<1>6. \/ UNCHANGED fanout
      \/ \E k \in Materializers :
            \/ \E e \in Events : FindSource(k, e)
            \/ FindSubscriptions(k)
            \/ materializeDeliveries(k)
            \/ FanoutFails(k)
  BY <1>0, StepCases DEF create, setEnabled, StartJob, TaskReads, ClaimRead, StopDisabled,
        claimAttempt, post, markDelivered, MarkDeliveredThrows, recordFailure, TaskWrites, Tick,
        vars, fanoutVars
<1> QED
  BY <1>2, <1>3, <1>4, <1>5, <1>6

\* Which rows are marked, and by whom.
LEMMA MarkCases ==
    ASSUME [PipelineNext]_pipelineVars, NEW i \in published', i \notin published
    PROVE  \E m \in Materializers : (MarkPublished(m) \/ Materialize(m)) /\ i = Current(m)
<1>1. \/ UNCHANGED published
      \/ \E m \in Materializers :
            (MarkPublished(m) \/ Materialize(m)) /\ published' = published \cup {Current(m)}
  BY DEF PipelineNext, Dispatch, Advance, pipelineVars, table, CommitEvent, Subscribe, FetchBatch,
         BeginFanout, SkipFanout, ReadSubscriptions, Materialize, Publish, MarkPublished,
         MaterializeFails, PublishFails, MarkFails, Restart, Promote, Stall, Take, Work,
         Complete, Postpone, RecordFails, Throw, Die, TimePasses
<1> QED
  BY <1>1

\* What a published fan-out has left behind.
LEMMA ReachStep ==
    PipelineTypeOK /\ FanoutInv /\ [PipelineNext]_pipelineVars => FanoutReachesSubscribers'
<1> SUFFICES ASSUME PipelineTypeOK, FanoutInv, [PipelineNext]_pipelineVars,
                    NEW i \in published', rows'[i].type = FANOUT,
                    NEW s \in subscribers'[rows'[i].event] \ everDisabled'
             PROVE  status'[<<s, rows'[i].event>>] # NULL
  BY DEF FanoutReachesSubscribers, FANOUT
<1> DEFINE e == rows[i].event
<1>0. TypeOK /\ RowsTypeOK /\ DispatchersTypeOK /\ [Next]_vars
  BY PipelineStep DEF PipelineTypeOK
<1>1. everDisabled \subseteq everDisabled'
  BY <1>0, HistoryGrows
\* For a row that is there, it is enough that the delivery appears.
<1>2. ASSUME i \in DOMAIN rows
      PROVE  /\ rows'[i] = rows[i]
             /\ e \in Events
             /\ s \in subscribers[e] \ everDisabled
             /\ <<s, e>> \in Deliveries
  <2>1. rows'[i] = rows[i] /\ rows[i] \in PipelineRow
    BY <1>0, <1>2, RowsStep DEF RowsGrow, RowsTypeOK
  <2>2. e \in Events /\ subscribers[e] # NULL
    BY <1>2, <2>1, RowByType DEF FanoutInv, EventsCommitted
  <2>3. subscribers'[e] = subscribers[e] /\ subscribers[e] \subseteq Subscriptions
    BY <1>0, <2>2, SubscribersStep DEF FanoutInv, RowsTypeOK
  <2> QED
    BY <1>1, <2>1, <2>2, <2>3 DEF Deliveries
<1>3. CASE i \in published
  <2>1. i \in DOMAIN rows
    BY <1>0, <1>3 DEF RowsTypeOK
  <2>2. status[<<s, e>>] # NULL
    BY <1>2, <1>3, <2>1 DEF FanoutInv, FanoutReachesSubscribers
  <2> QED
    BY <1>0, <1>2, <2>1, <2>2, StatusStays
<1>4. ASSUME i \notin published, NEW m \in Materializers, Materialize(m), i = Current(m)
      PROVE  status'[<<s, rows'[i].event>>] # NULL
  <2>1. /\ materializeDeliveries(m)
        /\ fanout[m] # NULL
        /\ fanout[m].subscriptions # NULL
    BY <1>4 DEF Materialize, materializeDeliveries
  <2>2. fanout[m].event = e /\ i \in DOMAIN rows
    BY <1>4, <2>1, OpenIsCommitted DEF FanoutInv
  <2>3. s \in fanout[m].subscriptions
    BY <1>2, <2>1, <2>2 DEF FanoutInv, ReadsReachSubscribers
  <2>4. CASE status[<<s, e>>] = NULL
    <3>1. <<s, e>> \in CreatedDeliveries(m)
      BY <2>2, <2>3, <2>4 DEF CreatedDeliveries
    <3>2. status'[<<s, e>>] = "PENDING"
      BY <1>2, <2>1, <2>2, <3>1 DEF materializeDeliveries
    <3> QED
      BY <1>2, <2>2, <3>2, WebhookAssumption DEF WebhookDeliveryStatus, ClaimableStatuses
  <2>5. CASE status[<<s, e>>] # NULL
    BY <1>0, <1>2, <2>2, <2>5, StatusStays
  <2> QED
    BY <2>4, <2>5
<1>5. ASSUME NEW m \in Materializers, MarkPublished(m), i = Current(m) PROVE FALSE
  <2>1. i \in DOMAIN rows /\ rows[i].type = DELIVERY
    BY <1>0, <1>5, CurrentInBatch DEF MarkPublished, DispatchersTypeOK
  <2> QED
    BY <1>2, <2>1, RowTypesDiffer
<1> QED
  BY <1>3, <1>4, <1>5, MarkCases

\* Whichever dispatcher fans an event out, however late and after however
\* many failures: whoever subscribed to it and stayed gets a delivery.
THEOREM FanoutMissesNobody == PipelineSpec => []FanoutReachesSubscribers
<1>1. PipelineInit => FanoutInv
  BY DEF PipelineInit, Init, FanoutInv, SubscribersStayEnabled, EventsCommitted,
         ReadsReachSubscribers, FanoutReachesSubscribers
<1>2. PipelineTypeOK /\ FanoutInv /\ [PipelineNext]_pipelineVars => FanoutInv'
  BY SubscribersStep, EventsCommittedStep, ReadsStep, ReachStep DEF FanoutInv
<1>3. FanoutInv => FanoutReachesSubscribers
  BY DEF FanoutInv
<1> QED
  BY <1>1, <1>2, <1>3, PipelineTypeCorrect, PTL DEF PipelineSpec

-----------------------------------------------------------------------------
(* Waiting work is not completed. As in PaymentPipeline: the job that a    *)
(* delivery waits for does not exist when the delivery begins to wait, and *)
(* no task that is handed it returns without the claim, as long as the     *)
(* subscription is not disabled. Requests are made in turn, and what a     *)
(* task read is current until the attempt it read of is counted.           *)

RetryingWasTried == \A d \in Deliveries : status[d] = "RETRYING" => attemptCount[d] > 0

RequestInTurn(d, n) ==
    /\ status[d] # NULL
    /\ n <= attemptCount[d] + 1
    /\ n = attemptCount[d] + 1 => Waits(d) \/ Settled(d)

RequestsInTurn == \A request \in outbox : RequestInTurn(request.delivery, request.attemptNumber)

SnapshotFits(t) ==
    /\ job[t].expectedAttemptNumber = AttemptNumber(t)
    /\ pc[t] = "claimable" =>
        /\ snapshot[t].status = "RETRYING" =>
                snapshot[t].attemptCount > 0 /\ IsDue(snapshot[t], job[t])
        /\ \/ attemptCount[job[t].delivery] > snapshot[t].attemptCount
           \/ Row(job[t].delivery) = snapshot[t]
           \/ Settled(job[t].delivery)

SnapshotsFit == \A t \in Tasks : pc[t] = "claimable" \/ InFlight(t) => SnapshotFits(t)

TurnInv == RetryingWasTried /\ RequestsInTurn /\ SnapshotsFit

\* How a step can change the row of a delivery.
RowUnchanged(d) ==
    /\ status'[d] = status[d]
    /\ attemptCount'[d] = attemptCount[d]
    /\ nextAttemptAt'[d] = nextAttemptAt[d]

LEMMA RowCases ==
    ASSUME TypeOK, ClaimInv, FailuresFit, [Next]_vars, NEW d \in Deliveries
    PROVE  \/ RowUnchanged(d)
           \/ /\ \E m \in Materializers : materializeDeliveries(m)
              /\ status[d] = NULL /\ status'[d] = "PENDING"
              /\ attemptCount'[d] = attemptCount[d]
           \/ /\ \E t \in Tasks : claimAttempt(t) /\ job[t].delivery = d
              /\ status[d] \in ClaimableStatuses /\ status'[d] = status[d]
              /\ attemptCount'[d] = attemptCount[d] + 1
           \/ /\ status[d] \in ClaimableStatuses /\ Settled(d)'
              /\ attemptCount'[d] = attemptCount[d]
              /\ nextAttemptAt'[d] = NULL
           \/ \E t \in Tasks :
                /\ recordFailure(t) /\ job[t].delivery = d
                /\ status[d] \in ClaimableStatuses /\ status'[d] = "RETRYING"
                /\ attemptCount[d] = AttemptNumber(t)
                /\ attemptCount'[d] = attemptCount[d]
                /\ nextAttemptAt'[d] # NULL
<1> USE DEF RowUnchanged
<1>1. ASSUME NEW m \in Materializers, materializeDeliveries(m), ~RowUnchanged(d)
      PROVE  /\ status[d] = NULL /\ status'[d] = "PENDING"
             /\ attemptCount'[d] = attemptCount[d]
  BY <1>1, Materializing DEF ClaimInv
<1>2. ASSUME NEW t \in Tasks, claimAttempt(t), ~RowUnchanged(d)
      PROVE  /\ job[t].delivery = d
             /\ status[d] \in ClaimableStatuses /\ status'[d] = status[d]
             /\ attemptCount'[d] = attemptCount[d] + 1
  <2>1. /\ job[t].delivery \in Deliveries
        /\ status[job[t].delivery] \in ClaimableStatuses
        /\ attemptCount' = [attemptCount EXCEPT ![job[t].delivery] = @ + 1]
        /\ nextAttemptAt' = [nextAttemptAt EXCEPT ![job[t].delivery] = NULL]
        /\ UNCHANGED status
    BY <1>2, Claiming DEF claimAttempt
  <2> QED
    BY <1>2, <2>1 DEF TypeOK
<1>3. ASSUME NEW t \in Tasks, Update(t), ~RowUnchanged(d)
      PROVE  /\ status[d] \in ClaimableStatuses
             /\ attemptCount'[d] = attemptCount[d]
             /\ \/ Settled(d)' /\ nextAttemptAt'[d] = NULL
                \/ /\ recordFailure(t) /\ job[t].delivery = d
                   /\ status'[d] = "RETRYING"
                   /\ attemptCount[d] = AttemptNumber(t)
                   /\ nextAttemptAt'[d] # NULL
  <2>1. job[t].delivery = d /\ attemptCount' = attemptCount
    BY <1>3, Updating
  <2>2. /\ status[d] \in ClaimableStatuses
        /\ \/ status'[d] \in {"DELIVERED", "FAILED"} /\ nextAttemptAt'[d] = NULL
           \/ /\ recordFailure(t)
              /\ status'[d] = failure[t].status
              /\ nextAttemptAt'[d] = failure[t].nextAttemptAt
              /\ attemptCount[d] = AttemptNumber(t)
    BY <1>3, <2>1, UpdatedStatus
  <2>3. ASSUME recordFailure(t)
        PROVE  /\ failure[t].status = "RETRYING" => failure[t].nextAttemptAt # NULL
               /\ failure[t].status = "FAILED" => failure[t].nextAttemptAt = NULL
    BY <2>3, WebhookAssumption DEF recordFailure, FailuresFit, FailureFits
  <2>4. recordFailure(t) => failure[t].status \in {"RETRYING", "FAILED"}
    BY DEF TypeOK, FailureType, recordFailure
  <2> QED
    BY <2>1, <2>2, <2>3, <2>4 DEF Settled
<1>4. \/ UNCHANGED deliveryRow
      \/ \E m \in Materializers : materializeDeliveries(m)
      \/ \E t \in Tasks : claimAttempt(t) \/ Update(t)
  BY StepCases DEF Update, create, setEnabled, FindSource, FindSubscriptions, FanoutFails,
                   StartJob, ClaimRead, post, Tick, TaskReads, vars
<1>5. UNCHANGED deliveryRow => RowUnchanged(d)
  BY DEF deliveryRow
<1> QED
  BY <1>1, <1>2, <1>3, <1>4, <1>5

LEMMA TriedStep ==
    TypeOK /\ ClaimInv /\ FailuresFit /\ RetryingWasTried /\ [Next]_vars => RetryingWasTried'
<1> SUFFICES ASSUME TypeOK, ClaimInv, FailuresFit, RetryingWasTried, [Next]_vars,
                    NEW d \in Deliveries, status'[d] = "RETRYING"
             PROVE  attemptCount'[d] > 0
  BY DEF RetryingWasTried
<1>1. attemptCount[d] \in Nat
  BY DEF TypeOK
<1>2. ASSUME NEW t \in Tasks, recordFailure(t) PROVE AttemptNumber(t) \in Nat \ {0}
  BY <1>2, AttemptNumberType DEF recordFailure
<1> QED
  BY <1>1, <1>2, RowCases DEF RowUnchanged, Settled, RetryingWasTried

\* A request stays in turn.
LEMMA InTurnStays ==
    ASSUME TypeOK, ClaimInv, FailuresFit, [Next]_vars, NEW d \in Deliveries, NEW n \in Nat,
           RequestInTurn(d, n)
    PROVE  RequestInTurn(d, n)'
<1>1. attemptCount[d] \in Nat /\ NULL \notin WebhookDeliveryStatus
  BY WebhookAssumption DEF TypeOK
<1>2. ClaimableStatuses \subseteq WebhookDeliveryStatus
      /\ {"DELIVERED", "FAILED"} \subseteq WebhookDeliveryStatus
  BY DEF WebhookDeliveryStatus
<1>3. CASE RowUnchanged(d)
  BY <1>3 DEF RowUnchanged, RequestInTurn, Waits, Settled
<1>4. ASSUME status[d] \in ClaimableStatuses, status'[d] = status[d],
             attemptCount'[d] = attemptCount[d] + 1
      PROVE  RequestInTurn(d, n)'
  BY <1>1, <1>4 DEF RequestInTurn
<1>5. ASSUME status[d] \in ClaimableStatuses, Settled(d)', attemptCount'[d] = attemptCount[d]
      PROVE  RequestInTurn(d, n)'
  BY <1>1, <1>2, <1>5 DEF RequestInTurn, Settled
<1>6. ASSUME status'[d] = "RETRYING", attemptCount'[d] = attemptCount[d],
             nextAttemptAt'[d] # NULL
      PROVE  RequestInTurn(d, n)'
  BY <1>1, <1>2, <1>6 DEF RequestInTurn, Waits, ClaimableStatuses
<1>7. status[d] # NULL
  BY DEF RequestInTurn
<1> QED
  BY <1>3, <1>4, <1>5, <1>6, <1>7, RowCases

\* A request is made in turn: the first by a fan-out, the others by the
\* failure of the attempt before.
LEMMA RequestsStep ==
    TypeOK /\ ClaimInv /\ FailuresFit /\ RetryingWasTried /\ RequestsInTurn /\ [Next]_vars
        => RequestsInTurn'
<1> SUFFICES ASSUME TypeOK, ClaimInv, FailuresFit, RetryingWasTried, RequestsInTurn,
                    [Next]_vars, NEW request \in outbox'
             PROVE  RequestInTurn(request.delivery, request.attemptNumber)'
  BY DEF RequestsInTurn, RequestInTurn, Waits, Settled
<1>1. CASE request \in outbox
  BY <1>1, InTurnStays DEF RequestsInTurn, TypeOK
<1>2. ASSUME NEW m \in Materializers, materializeDeliveries(m), request \notin outbox
      PROVE  RequestInTurn(request.delivery, request.attemptNumber)'
  <2>1. PICK s \in fanout[m].subscriptions :
            request = DeliveryRequest(<<s, fanout[m].event>>, 1, NULL)
    BY <1>2 DEF materializeDeliveries
  <2>2. PICK d \in Deliveries : d = <<s, fanout[m].event>>
    BY <1>2 DEF materializeDeliveries, TypeOK, Deliveries
  <2>3. request.delivery = d /\ request.attemptNumber = 1
    BY <2>1, <2>2 DEF DeliveryRequest
  <2>4. attemptCount[d] \in Nat /\ status[d] \in WebhookDeliveryStatus \cup {NULL}
    BY DEF TypeOK
  <2>5. CASE status[d] = NULL
    <3>1. d \in CreatedDeliveries(m)
      BY <2>2, <2>5 DEF CreatedDeliveries
    <3>2. status'[d] = "PENDING" /\ attemptCount'[d] = 0
      BY <1>2, <3>1 DEF materializeDeliveries
    <3>3. RequestInTurn(d, 1)'
      BY <3>2, WebhookAssumption
         DEF RequestInTurn, Waits, WebhookDeliveryStatus, ClaimableStatuses
    <3> QED
      BY <2>3, <3>3 DEF RequestInTurn, Waits, Settled
  <2>6. CASE status[d] # NULL
    <3>1. 1 = attemptCount[d] + 1 => Waits(d) \/ Settled(d)
      BY <2>4, <2>6 DEF RetryingWasTried, Waits, Settled, WebhookDeliveryStatus,
                        ClaimableStatuses
    <3>2. RequestInTurn(d, 1)
      BY <2>4, <2>6, <3>1 DEF RequestInTurn
    <3>3. RequestInTurn(d, 1)'
      BY <3>2, InTurnStays
    <3> QED
      BY <2>3, <3>3 DEF RequestInTurn, Waits, Settled
  <2> QED
    BY <2>5, <2>6
<1>3. ASSUME NEW t \in Tasks, recordFailure(t), request \notin outbox
      PROVE  RequestInTurn(request.delivery, request.attemptNumber)'
  <2>1. /\ ResultMatches(t) /\ pc[t] = "failing"
        /\ failure[t].status = "RETRYING"
        /\ request = DeliveryRequest(job[t].delivery, AttemptNumber(t) + 1,
                                     failure[t].nextAttemptAt)
    BY <1>3 DEF recordFailure, RetryOf
  <2>2. PICK d \in Deliveries : d = job[t].delivery
    BY <2>1 DEF TypeOK, JobType
  <2>3. /\ request.delivery = d
        /\ request.attemptNumber = attemptCount[d] + 1
        /\ attemptCount[d] \in Nat
    BY <2>1, <2>2 DEF DeliveryRequest, ResultMatches, TypeOK
  <2>4. /\ status'[d] = "RETRYING"
        /\ nextAttemptAt'[d] = failure[t].nextAttemptAt
        /\ attemptCount' = attemptCount
    BY <1>3, <2>1, <2>2 DEF recordFailure, TypeOK
  <2>5. nextAttemptAt'[d] # NULL
    BY <2>1, <2>4, WebhookAssumption DEF FailuresFit, FailureFits
  <2>6. status'[d] # NULL
    BY <2>4, WebhookAssumption DEF WebhookDeliveryStatus, ClaimableStatuses
  <2> QED
    BY <2>3, <2>4, <2>5, <2>6 DEF RequestInTurn, Waits
<1> QED
  BY StepCases, <1>1, <1>2, <1>3
     DEF create, setEnabled, FindSource, FindSubscriptions, FanoutFails, StartJob, TaskReads,
         ClaimRead, StopDisabled, claimAttempt, post, markDelivered, MarkDeliveredThrows, Tick,
         vars

\* What a task read, while others work on the row.
LEMMA OtherSnapshots ==
    ASSUME TypeOK, ClaimInv, FailuresFit, SnapshotsFit, [Next]_vars,
           NEW u \in Tasks, pc[u] = "claimable", job'[u] = job[u], snapshot'[u] = snapshot[u]
    PROVE  SnapshotFits(u)'
<1> PICK d \in Deliveries : d = job[u].delivery
  BY DEF TypeOK, JobType
<1> DEFINE Kept == \/ attemptCount[d] > snapshot[u].attemptCount
                   \/ Row(d) = snapshot[u]
                   \/ Settled(d)
<1>1. SnapshotFits(u) /\ Kept
  BY DEF SnapshotsFit, SnapshotFits
<1>2. attemptCount[d] \in Nat /\ snapshot[u] \in RowType /\ snapshot[u].attemptCount \in Nat
  BY DEF TypeOK, RowType
<1>3. status[d] # NULL
  BY DEF ClaimInv, RowsExist
<1>4. ClaimableStatuses \cap {"DELIVERED", "FAILED"} = {}
  BY DEF ClaimableStatuses
<1>5. Kept'
  <2>1. CASE RowUnchanged(d)
    BY <1>1, <2>1 DEF RowUnchanged, Row, Settled
  <2>2. ASSUME status[d] \in ClaimableStatuses, attemptCount'[d] = attemptCount[d] + 1
        PROVE  Kept'
    BY <1>1, <1>2, <1>4, <2>2 DEF Row, Settled
  <2>3. ASSUME NEW t \in Tasks, recordFailure(t), job[t].delivery = d,
               status[d] \in ClaimableStatuses, attemptCount[d] = AttemptNumber(t),
               attemptCount'[d] = attemptCount[d]
        PROVE  Kept'
    <3>1. AttemptNumber(t) # 0 /\ nextAttemptAt[d] = NULL
      BY <2>3, AttemptNumberType DEF recordFailure, ClaimInv, AttemptExclusive, InFlight
    <3>2. Row(d) # snapshot[u]
      <4> SUFFICES ASSUME Row(d) = snapshot[u] PROVE FALSE
        OBVIOUS
      <4>1. /\ snapshot[u].status = status[d]
            /\ snapshot[u].attemptCount = attemptCount[d]
            /\ snapshot[u].nextAttemptAt = nextAttemptAt[d]
        BY DEF Row
      <4>2. status[d] # "PENDING"
        BY <2>3, <3>1, <4>1 DEF ClaimInv, SnapshotsClaimable
      <4>3. status[d] = "RETRYING"
        BY <2>3, <4>2 DEF ClaimableStatuses
      <4> QED
        BY <1>1, <3>1, <4>1, <4>3 DEF SnapshotFits, IsDue
    <3>3. attemptCount[d] > snapshot[u].attemptCount
      BY <1>1, <1>4, <2>3, <3>2 DEF Settled
    <3> QED
      BY <2>3, <3>3
  <2> QED
    BY <1>3, <2>1, <2>2, <2>3, RowCases DEF Row, Settled
<1> QED
  BY <1>1, <1>5 DEF SnapshotFits, AttemptNumber, Row, Settled, IsDue

LEMMA SnapshotsStep ==
    TypeOK /\ ClaimInv /\ FailuresFit /\ RetryingWasTried /\ SnapshotsFit /\ [Next]_vars
        => SnapshotsFit'
<1> SUFFICES ASSUME TypeOK, ClaimInv, FailuresFit, RetryingWasTried, SnapshotsFit, [Next]_vars,
                    NEW u \in Tasks, pc'[u] = "claimable" \/ InFlight(u)'
             PROVE  SnapshotFits(u)'
  BY DEF SnapshotsFit, InFlight
\* A task that stays where it is, or moves on with its job and what it read.
<1>1. ASSUME pc[u] = "claimable" \/ InFlight(u), job'[u] = job[u], snapshot'[u] = snapshot[u],
             pc'[u] = pc[u] \/ InFlight(u)'
      PROVE  SnapshotFits(u)'
  <2>1. SnapshotFits(u)
    BY <1>1 DEF SnapshotsFit
  <2>2. CASE pc[u] = "claimable"
    BY <1>1, <2>2, OtherSnapshots
  <2>3. CASE pc[u] # "claimable"
    <3>1. pc'[u] # "claimable"
      BY <1>1, <2>3 DEF InFlight
    <3> QED
      BY <1>1, <2>1, <3>1 DEF SnapshotFits, AttemptNumber
  <2> QED
    BY <2>2, <2>3
<1>2. CASE pc'[u] = pc[u] /\ job'[u] = job[u] /\ snapshot'[u] = snapshot[u]
  BY <1>1, <1>2 DEF InFlight
<1>3. ASSUME NEW t \in Tasks, Finish(t) PROVE SnapshotFits(u)'
  BY <1>2, <1>3 DEF Finish, TypeOK, InFlight
<1>4. ASSUME NEW t \in Tasks, NEW request \in outbox, StartJob(t, request)
      PROVE  SnapshotFits(u)'
  BY <1>2, <1>4 DEF StartJob, TypeOK, InFlight
<1>5. ASSUME NEW t \in Tasks, ClaimRead(t) PROVE SnapshotFits(u)'
  <2>1. CASE u = t
    <3>1. /\ pc'[u] = "claimable"
          /\ snapshot'[u] = Row(job[u].delivery)
          /\ MayClaim(Row(job[u].delivery), job[u])
          /\ UNCHANGED <<job, deliveryRow>>
      BY <1>5, <2>1 DEF ClaimRead, TaskReads, InFlight, TypeOK
    <3>2. job[u].delivery \in Deliveries
      BY <1>5, <2>1 DEF ClaimRead, TypeOK, JobType
    <3>3. Row(job[u].delivery)' = Row(job[u].delivery)
      BY <3>1 DEF Row, deliveryRow
    <3> QED
      BY <3>1, <3>2, <3>3 DEF SnapshotFits, MayClaim, Row, AttemptNumber, RetryingWasTried, IsDue
  <2>2. CASE u # t
    BY <1>2, <1>5, <2>2 DEF ClaimRead, TypeOK
  <2> QED
    BY <2>1, <2>2
<1>6. ASSUME NEW t \in Tasks,
             \/ claimAttempt(t)
             \/ MarkDeliveredThrows(t)
             \/ \E success \in BOOLEAN : post(t, success)
      PROVE  SnapshotFits(u)'
  <2>1. job' = job /\ snapshot' = snapshot
    BY <1>6 DEF claimAttempt, MarkDeliveredThrows, post
  <2>2. CASE u = t
    <3>1. (pc[u] = "claimable" \/ InFlight(u)) /\ InFlight(u)'
      BY <1>6, <2>2 DEF claimAttempt, MarkDeliveredThrows, post, InFlight, TypeOK
    <3> QED
      BY <1>1, <2>1, <3>1
  <2>3. CASE u # t
    <3>1. pc'[u] = pc[u]
      BY <1>6, <2>3 DEF claimAttempt, MarkDeliveredThrows, post, TypeOK
    <3> QED
      BY <1>2, <2>1, <3>1
  <2> QED
    BY <2>2, <2>3
<1>7. CASE UNCHANGED local
  BY <1>2, <1>7 DEF local
<1> QED
  BY StepCases, <1>3, <1>4, <1>5, <1>6, <1>7
     DEF create, setEnabled, FindSource, FindSubscriptions, FanoutFails, materializeDeliveries,
         StopDisabled, markDelivered, recordFailure, Tick, vars

LEMMA TurnInvariant == Spec => []TurnInv
<1>1. Init => TurnInv
  BY WebhookAssumption
     DEF Init, TurnInv, RetryingWasTried, RequestsInTurn, SnapshotsFit, InFlight,
         WebhookDeliveryStatus, ClaimableStatuses
<1>2. TypeOK /\ ClaimInv /\ FailuresFit /\ TurnInv /\ [Next]_vars => TurnInv'
  BY TriedStep, RequestsStep, SnapshotsStep DEF TurnInv
<1>3. RetryInv => FailuresFit
  BY DEF RetryInv
<1> QED
  BY <1>1, <1>2, <1>3, TypeCorrect, ClaimInvariant, RetryInvariant, PTL DEF Spec

\* A task that is handed the job a delivery waits for does not return without
\* the claim, unless the subscription was disabled.
LEMMA TicketClaims ==
    ASSUME TypeOK, ClaimInv, RetryInv, OutcomeInv, TurnInv, NEW t \in Tasks, pc[t] # "idle",
           Waits(job[t].delivery), job[t].delivery[1] \notin everDisabled,
           job[t].expectedAttemptNumber = attemptCount[job[t].delivery] + 1
    PROVE  /\ ~ClaimRefused(t) /\ ~StopDisabled(t) /\ ~ClaimLost(t)
           /\ ~markDelivered(t) /\ ~recordFailure(t)
<1> PICK d \in Deliveries : d = job[t].delivery
  BY DEF TypeOK, JobType
<1>1. attemptCount[d] \in Nat /\ d[1] \in Subscriptions
  BY DEF TypeOK, Deliveries
\* It waits for an attempt that is still allowed.
<1>2. /\ \/ status[d] = "PENDING" /\ attemptCount[d] = 0
         \/ status[d] = "RETRYING" /\ attemptCount[d] > 0 /\ nextAttemptAt[d] # NULL
      /\ attemptCount[d] + 1 <= MaxAttempts
  <2>1. nextAttemptAt[d] # NULL => status[d] = "RETRYING" /\ attemptCount[d] + 1 <= MaxAttempts
    BY DEF RetryInv, RetriesFit
  <2> QED
    BY <1>1, <2>1, WebhookAssumption DEF Waits, TurnInv, RetryingWasTried
<1>3. IsEnabled(d)
  <2>1. status[d] # NULL
    BY <1>2, WebhookAssumption DEF WebhookDeliveryStatus, ClaimableStatuses
  <2> QED
    BY <1>1, <2>1 DEF OutcomeInv, SubscriptionsExist, TypeOK, IsEnabled
<1>4. ~ClaimRefused(t)
  <2>1. status[d] \in ClaimableStatuses
    BY <1>2 DEF ClaimableStatuses
  <2>2. IsNotDue(Row(d), job[t]) \/ MayClaim(Row(d), job[t])
    <3>1. nextAttemptAt[d] \in Int \cup {NULL} /\ job[t].claimedAt \in Int
      BY DEF TypeOK, JobType
    <3> QED
      BY <1>2, <3>1 DEF IsNotDue, MayClaim, IsDue, Row
  <2> QED
    BY <2>1, <2>2 DEF ClaimRefused, Row
<1>5. ~StopDisabled(t)
  BY DEF StopDisabled, OutcomeInv, ReasonsHold
<1>6. pc[t] = "claimable" \/ InFlight(t) => SnapshotFits(t)
  BY DEF TurnInv, SnapshotsFit
<1>7. ~InFlight(t)
  BY <1>1, <1>6 DEF ClaimInv, AttemptExclusive, SnapshotFits
<1>8. ~ClaimLost(t)
  <2> SUFFICES ASSUME pc[t] = "claimable" PROVE ClaimMatches(t)
    BY DEF ClaimLost
  <2>1. snapshot[t].attemptCount \in Nat
    BY DEF TypeOK, RowType
  <2>2. attemptCount[d] = snapshot[t].attemptCount
    BY <1>1, <1>6, <2>1 DEF SnapshotFits, AttemptNumber
  <2>3. ~Settled(d)
    BY <1>2 DEF Settled
  <2>4. Row(d) = snapshot[t]
    BY <1>1, <1>6, <2>1, <2>2, <2>3 DEF SnapshotFits
  <2>5. SnapshotCurrent(t)
    BY <2>2, <2>4 DEF SnapshotCurrent, Row
  <2>6. status[d] = "RETRYING" => IsDue(Row(d), job[t])
    BY <1>6, <2>4 DEF SnapshotFits, Row
  <2> QED
    BY <1>3, <2>5, <2>6 DEF ClaimMatches
<1> QED
  BY <1>4, <1>5, <1>7, <1>8 DEF markDelivered, recordFailure, InFlight

-----------------------------------------------------------------------------
(* The jobs of the queue                                                   *)

RequestsHaveRows == \A r \in outbox : \E i \in DOMAIN rows : rows[i] = DeliveryRow(r)

IsAskedFor(id) == \E r \in outbox : webhookDeliveryJobId(r) = id

RunningAskedFor == \A t \in Tasks : pc[t] # "idle" => IsAskedFor(TaskJob(t))

JobsAskedFor == \A id \in JobIds : jobState[id] # "absent" => IsAskedFor(id)

Ticket(d) == <<d, attemptCount[d] + 1>>

TicketsOpen ==
    \A d \in Deliveries :
        Waits(d) /\ d[1] \notin everDisabled => jobState[Ticket(d)] # "completed"

\* Every request comes with its row.
LEMMA HaveRequestRowsStep ==
    PipelineTypeOK /\ RequestsHaveRows /\ [PipelineNext]_pipelineVars => RequestsHaveRows'
<1> SUFFICES ASSUME PipelineTypeOK, RequestsHaveRows, [PipelineNext]_pipelineVars,
                    NEW r \in outbox'
             PROVE  \E i \in DOMAIN rows' : rows'[i] = DeliveryRow(r)
  BY DEF RequestsHaveRows, DeliveryRow, DELIVERY
<1>0. TypeOK /\ RowsTypeOK /\ DispatchersTypeOK
  BY DEF PipelineTypeOK
<1>1. CASE r \in outbox
  BY <1>0, <1>1, RowsStep DEF RequestsHaveRows, RowsGrow
<1>2. CASE r \notin outbox
  BY <1>0, <1>2, RowAdditions
<1> QED
  BY <1>1, <1>2

LEMMA AskedForStays ==
    ASSUME [Next]_vars, NEW id, IsAskedFor(id)
    PROVE  IsAskedFor(id)'
BY OutboxGrows DEF IsAskedFor, webhookDeliveryJobId

\* A task starts with the job of a row.
LEMMA RunningStep == TypeOK /\ RunningAskedFor /\ [Next]_vars => RunningAskedFor'
<1> SUFFICES ASSUME TypeOK, RunningAskedFor, [Next]_vars, NEW u \in Tasks, pc'[u] # "idle"
             PROVE  IsAskedFor(TaskJob(u))'
  BY DEF RunningAskedFor
<1>1. ASSUME pc[u] # "idle", job'[u] = job[u] PROVE IsAskedFor(TaskJob(u))'
  <2>1. IsAskedFor(TaskJob(u)) /\ TaskJob(u)' = TaskJob(u)
    BY <1>1 DEF RunningAskedFor, TaskJob
  <2> QED
    BY <2>1, OutboxGrows DEF IsAskedFor, webhookDeliveryJobId
<1>2. ASSUME NEW t \in Tasks, NEW request \in outbox, StartJob(t, request)
      PROVE  IsAskedFor(TaskJob(u))'
  <2>1. CASE u = t
    <3>1. /\ request \in outbox'
          /\ TaskJob(u)' = webhookDeliveryJobId(request)
      BY <1>2, <2>1 DEF StartJob, TaskJob, webhookDeliveryJobId, TypeOK
    <3> QED
      BY <3>1 DEF IsAskedFor, webhookDeliveryJobId
  <2>2. CASE u # t
    BY <1>1, <1>2, <2>2 DEF StartJob, TypeOK
  <2> QED
    BY <2>1, <2>2
<1>3. ASSUME NEW t \in Tasks, Finish(t) PROVE pc[u] # "idle" /\ job'[u] = job[u]
  BY <1>3 DEF Finish, TypeOK
<1>4. ASSUME NEW t \in Tasks,
             \/ ClaimRead(t) \/ claimAttempt(t) \/ MarkDeliveredThrows(t)
             \/ \E success \in BOOLEAN : post(t, success)
      PROVE  pc[u] # "idle" /\ job'[u] = job[u]
  BY <1>4 DEF ClaimRead, claimAttempt, MarkDeliveredThrows, post, TypeOK
<1>5. CASE UNCHANGED local
  BY <1>1, <1>5 DEF local
<1> QED
  BY StepCases, <1>1, <1>2, <1>3, <1>4, <1>5
     DEF create, setEnabled, FindSource, FindSubscriptions, FanoutFails, materializeDeliveries,
         StopDisabled, markDelivered, recordFailure, Tick, vars

\* Jobs come into the queue by rows only.
LEMMA JobsAskedForStep ==
    PipelineTypeOK /\ RunningAskedFor /\ JobsAskedFor /\ [PipelineNext]_pipelineVars
        => JobsAskedFor'
<1> SUFFICES ASSUME PipelineTypeOK, RunningAskedFor, JobsAskedFor,
                    [PipelineNext]_pipelineVars, NEW id \in JobIds, jobState'[id] # "absent"
             PROVE  IsAskedFor(id)'
  BY DEF JobsAskedFor
<1>1. QueueTypeOK /\ RowsTypeOK /\ DispatchersTypeOK /\ [Next]_vars
  BY PipelineStep DEF PipelineTypeOK
<1>2. SUFFICES ASSUME jobState[id] = "absent" PROVE IsAskedFor(id)
  BY <1>1, AskedForStays DEF JobsAskedFor
<1>3. ~UNCHANGED queue
  BY <1>2 DEF queue
<1>4. ASSUME NEW m \in Materializers, Handles(m, DELIVERY), AddJob(rows[Current(m)].request)
      PROVE  IsAskedFor(id)
  <2>1. id = webhookDeliveryJobId(rows[Current(m)].request)
    BY <1>1, <1>2, <1>4, AddingJob
  <2>2. rows[Current(m)].request \in outbox
    BY <1>1, <1>4, CurrentInBatch, RowByType DEF Handles
  <2> QED
    BY <2>1, <2>2 DEF IsAskedFor
<1>5. ASSUME NEW t \in Tasks, NEW state \in {"completed", "delayed", "failed"},
             Release(t, state), pc[t] # "idle"
      PROVE  IsAskedFor(id)
  <2>1. id = TaskJob(t)
    BY <1>1, <1>2, <1>5, MovingJob
  <2> QED
    BY <1>5, <2>1 DEF RunningAskedFor
<1>6. ASSUME NEW other \in JobIds,
             PromoteJob(other) \/ LockLapses(other) \/ \E t \in Tasks : HandOut(t, other)
      PROVE  FALSE
  BY <1>1, <1>2, <1>6, QueueSteps
<1>7. ASSUME NEW t \in Tasks, Complete(t) PROVE pc[t] # "idle"
  BY <1>7 DEF Complete, ClaimRefused, StopDisabled, ClaimLost, markDelivered, recordFailure
<1> QED
  BY <1>3, <1>4, <1>5, <1>6, <1>7, QueueCases

\* How a delivery comes to wait: it waited for the same job before, or that
\* job was never asked for.
LEMMA BeginsToWait ==
    ASSUME TypeOK, ClaimInv, FailuresFit, TurnInv, [Next]_vars, NEW d \in Deliveries, Waits(d)'
    PROVE  (Waits(d) /\ Ticket(d)' = Ticket(d)) \/ ~IsAskedFor(Ticket(d)')
\* Nobody asked for an attempt out of turn.
<1>1. ASSUME ~RequestInTurn(d, attemptCount[d] + 1) PROVE ~IsAskedFor(Ticket(d))
  BY <1>1 DEF TurnInv, RequestsInTurn, IsAskedFor, Ticket, webhookDeliveryJobId
<1>2. CASE RowUnchanged(d)
  BY <1>2 DEF RowUnchanged, Waits, Ticket
<1>3. ASSUME status[d] = NULL, attemptCount'[d] = attemptCount[d] PROVE ~IsAskedFor(Ticket(d)')
  BY <1>1, <1>3 DEF RequestInTurn, Ticket
<1>4. ASSUME NEW t \in Tasks, claimAttempt(t), job[t].delivery = d PROVE FALSE
  <2>1. attemptCount[d] \in Nat /\ attemptCount'[d] = attemptCount[d] + 1 /\ nextAttemptAt'[d] = NULL
    BY <1>4 DEF claimAttempt, TypeOK
  <2> QED
    BY <2>1 DEF Waits
<1>5. Settled(d)' => nextAttemptAt'[d] # NULL
  BY DEF Settled, Waits
<1>6. ASSUME NEW t \in Tasks, recordFailure(t), job[t].delivery = d,
             status[d] \in ClaimableStatuses, attemptCount[d] = AttemptNumber(t),
             attemptCount'[d] = attemptCount[d]
      PROVE  ~IsAskedFor(Ticket(d)')
  <2>1. InFlight(t) /\ attemptCount[d] # 0
    BY <1>6, AttemptNumberType DEF recordFailure, InFlight
  <2>2. ~Waits(d)
    BY <1>6, <2>1 DEF ClaimInv, AttemptExclusive, Waits
  <2>3. ~Settled(d)
    BY <1>6 DEF ClaimableStatuses, Settled
  <2>4. ~RequestInTurn(d, attemptCount[d] + 1)
    BY <2>2, <2>3 DEF RequestInTurn
  <2> QED
    BY <1>1, <1>6, <2>4 DEF Ticket
<1> QED
  BY <1>2, <1>3, <1>4, <1>5, <1>6, RowCases

\* Only a call that returned has its job reported done.
LEMMA TicketsStep ==
    ASSUME PipelineTypeOK, ClaimInv, RetryInv, OutcomeInv, TurnInv, RunningAskedFor,
           JobsAskedFor, TicketsOpen, [PipelineNext]_pipelineVars,
           NEW d \in Deliveries, Waits(d)', d[1] \notin everDisabled',
           attemptCount'[d] + 1 \in 1..MaxAttempts
    PROVE  jobState'[Ticket(d)'] # "completed"
<1>1. TypeOK /\ QueueTypeOK /\ RowsTypeOK /\ DispatchersTypeOK /\ [Next]_vars
  BY PipelineStep DEF PipelineTypeOK
<1>2. PICK id \in JobIds : id = Ticket(d)'
  BY DEF Ticket, JobIds
<1>3. d[1] \notin everDisabled
  BY <1>1, HistoryGrows
<1>4. (Waits(d) /\ id = Ticket(d)) \/ ~IsAskedFor(id)
  BY <1>1, <1>2, BeginsToWait DEF RetryInv
<1>5. jobState[id] # "completed"
  BY <1>3, <1>4 DEF TicketsOpen, JobsAskedFor
<1>6. SUFFICES ASSUME jobState'[id] = "completed" PROVE FALSE
  BY <1>2
<1>7. PICK t \in Tasks : Complete(t) /\ TaskJob(t) = id
  <2>1. ~UNCHANGED queue
    BY <1>5, <1>6 DEF queue
  <2>2. ASSUME NEW m \in Materializers, AddJob(rows[Current(m)].request) PROVE FALSE
    BY <1>1, <1>5, <1>6, <2>2, AddingJob
  <2>3. ASSUME NEW other \in JobIds,
               PromoteJob(other) \/ LockLapses(other) \/ \E t \in Tasks : HandOut(t, other)
        PROVE  FALSE
    BY <1>1, <1>5, <1>6, <2>3, QueueSteps
  <2>4. ASSUME NEW t \in Tasks, NEW state \in {"delayed", "failed"}, Release(t, state)
        PROVE  FALSE
    BY <1>1, <1>5, <1>6, <2>4, MovingJob
  <2>5. ASSUME NEW t \in Tasks, Release(t, "completed") PROVE TaskJob(t) = id
    BY <1>1, <1>5, <1>6, <2>5, MovingJob
  <2> QED
    BY <2>1, <2>2, <2>3, <2>4, <2>5, QueueCases
<1>8. pc[t] # "idle"
  BY <1>7 DEF Complete, ClaimRefused, StopDisabled, ClaimLost, markDelivered, recordFailure
<1>9. Waits(d) /\ id = Ticket(d)
  BY <1>4, <1>7, <1>8 DEF RunningAskedFor
<1>10. job[t].delivery = d /\ job[t].expectedAttemptNumber = attemptCount[d] + 1
  BY <1>7, <1>9 DEF TaskJob, Ticket
<1> QED
  BY <1>1, <1>3, <1>7, <1>8, <1>9, <1>10, TicketClaims DEF Complete

\* A delivery that waits, waits for an attempt that it may still make.
LEMMA WaitsInRange ==
    ASSUME TypeOK, RetryInv, NEW d \in Deliveries, Waits(d)
    PROVE  /\ attemptCount[d] + 1 \in 1..MaxAttempts
           /\ Requested(d, attemptCount[d] + 1)
BY WebhookAssumption DEF Waits, RetryInv, RetriesFit, FirstRequested, TypeOK

LEMMA TicketsInvariant == PipelineSpec => [](RunningAskedFor /\ JobsAskedFor /\ TicketsOpen)
<1>1. PipelineInit => RunningAskedFor /\ JobsAskedFor /\ TicketsOpen
  <2>1. PipelineInit => RunningAskedFor /\ JobsAskedFor
    BY DEF PipelineInit, Init, QueueInit, RunningAskedFor, JobsAskedFor
  <2>2. ASSUME PipelineInit, NEW d \in Deliveries PROVE ~Waits(d)
    <3>1. status[d] = NULL /\ nextAttemptAt[d] = NULL
      BY <2>2 DEF PipelineInit, Init
    <3> QED
      BY <3>1, WebhookAssumption DEF Waits, WebhookDeliveryStatus, ClaimableStatuses
  <2> QED
    BY <2>1, <2>2 DEF TicketsOpen
<1>2. PipelineTypeOK => TypeOK
  BY DEF PipelineTypeOK
<1>3. PipelineTypeOK /\ [PipelineNext]_pipelineVars => [Next]_vars
  BY PipelineStep DEF PipelineTypeOK
<1>4. PipelineTypeOK /\ ClaimInv /\ RetryInv /\ OutcomeInv /\ TurnInv /\ RunningAskedFor
        /\ JobsAskedFor /\ TicketsOpen /\ [PipelineNext]_pipelineVars /\ TypeOK' /\ RetryInv'
        => TicketsOpen'
  <2> SUFFICES ASSUME PipelineTypeOK, ClaimInv, RetryInv, OutcomeInv, TurnInv,
                      RunningAskedFor, JobsAskedFor, TicketsOpen, [PipelineNext]_pipelineVars,
                      TypeOK', RetryInv',
                      NEW d \in Deliveries, Waits(d)', d[1] \notin everDisabled'
               PROVE  jobState'[Ticket(d)'] # "completed"
    BY DEF TicketsOpen, Waits, Ticket
  <2>1. attemptCount'[d] + 1 \in 1..MaxAttempts
    BY WebhookAssumption DEF Waits, RetryInv, RetriesFit, TypeOK
  <2> QED
    BY <2>1, TicketsStep
<1>5. /\ Spec => []ClaimInv
      /\ Spec => []RetryInv
      /\ Spec => []OutcomeInv
      /\ Spec => []TurnInv
  BY ClaimInvariant, RetryInvariant, OutcomeInvariant, TurnInvariant
<1> QED
  BY <1>1, <1>2, <1>3, <1>4, <1>5, PipelineTypeCorrect, PipelineImplementsDelivery,
     RunningStep, JobsAskedForStep, PTL DEF PipelineSpec, ImplementsDelivery

LEMMA HaveRequestRows == PipelineSpec => []RequestsHaveRows
<1>1. PipelineInit => RequestsHaveRows
  BY DEF PipelineInit, Init, RequestsHaveRows
<1> QED
  BY <1>1, PipelineTypeCorrect, HaveRequestRowsStep, PTL DEF PipelineSpec

\* As long as a delivery of a subscription that was never disabled waits to be
\* claimed, the row of its job is still to be published, or the job is in the
\* queue and was not reported done.
THEOREM WaitingWorkIsKept == PipelineSpec => []WaitingWorkNotCompleted
<1>1. TypeOK /\ RetryInv /\ RequestsHaveRows /\ MarkedAreKnown /\ TicketsOpen
        => WaitingWorkNotCompleted
  <2> SUFFICES ASSUME TypeOK, RetryInv, RequestsHaveRows, MarkedAreKnown, TicketsOpen,
                      NEW d \in Deliveries, Waits(d), d[1] \notin everDisabled
               PROVE  \E i \in DOMAIN rows :
                        /\ rows[i].type = DELIVERY
                        /\ rows[i].request.delivery = d
                        /\ rows[i].request.attemptNumber = attemptCount[d] + 1
                        /\ \/ i \notin published
                           \/ jobState[webhookDeliveryJobId(rows[i].request)]
                                \notin {"absent", "completed"}
    BY DEF WaitingWorkNotCompleted
  <2>1. PICK r \in outbox : r.delivery = d /\ r.attemptNumber = attemptCount[d] + 1
    BY WaitsInRange DEF Requested
  <2>2. PICK i \in DOMAIN rows : rows[i] = DeliveryRow(r)
    BY DEF RequestsHaveRows
  <2>3. /\ rows[i].type = DELIVERY
        /\ rows[i].request.delivery = d
        /\ rows[i].request.attemptNumber = attemptCount[d] + 1
        /\ webhookDeliveryJobId(rows[i].request) = Ticket(d)
    BY <2>1, <2>2 DEF DeliveryRow, webhookDeliveryJobId, Ticket
  <2>4. jobState[Ticket(d)] # "completed"
    BY DEF TicketsOpen
  <2>5. i \notin published \/ jobState[Ticket(d)] # "absent"
    BY <2>3 DEF MarkedAreKnown, Known
  <2> QED
    BY <2>3, <2>4, <2>5
<1>2. Spec => [](TypeOK /\ RetryInv)
  BY TypeCorrect, RetryInvariant, PTL
<1> QED
  BY <1>1, <1>2, HaveRequestRows, MarkedInvariant, TicketsInvariant,
     PipelineImplementsDelivery, PTL DEF ImplementsDelivery

=============================================================================
