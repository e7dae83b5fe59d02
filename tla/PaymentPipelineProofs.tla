------------------------ MODULE PaymentPipelineProofs ------------------------
(***************************************************************************)
(* The pipeline implements PaymentProcessing, and so inherits what is      *)
(* proved about it; and no work is lost between the outbox and the queue.  *)
(***************************************************************************)
EXTENDS PaymentPipeline, PaymentProcessingProofs, SequenceTheorems

\* Every step of the pipeline is a step of a task, the API or the clock, or
\* leaves everything PaymentProcessing knows of unchanged.
LEMMA PipelineStep == [PipelineNext]_pipelineVars => [Next]_vars
<1> SUFFICES ASSUME [PipelineNext]_pipelineVars PROVE [Next]_vars
  OBVIOUS
<1>1. ASSUME NEW p \in Payments, Submit(p) PROVE Next
  BY <1>1 DEF Submit, Next
<1>2. ASSUME NEW d \in Dispatchers,
             Dispatch(d) \/ PublishFails(d) \/ MarkFails(d) \/ Restart(d)
      PROVE  UNCHANGED vars
  BY <1>2 DEF Dispatch, FetchBatch, Publish, MarkPublished, PublishFails, MarkFails, Restart
<1>3. ASSUME NEW id \in JobIds, Promote(id) \/ Stall(id) PROVE UNCHANGED vars
  BY <1>3 DEF Promote, Stall
<1>4. ASSUME NEW t \in Tasks, NEW id \in JobIds, Take(t, id) PROVE Next
  BY <1>4 DEF Take, Next
<1>5. ASSUME NEW t \in Tasks, Advance(t) PROVE Next
  <2>1. TaskStep(t)
    BY <1>5 DEF Advance, Work, Complete, Postpone, TaskStep
  <2> QED
    BY <2>1 DEF Next
<1>6. ASSUME NEW t \in Tasks, Throw(t) \/ Die(t) PROVE Next
  BY <1>6 DEF Throw, Die, Next
<1>7. CASE TimePasses
  BY <1>7 DEF TimePasses, Next
<1>8. CASE UNCHANGED pipelineVars
  BY <1>8 DEF pipelineVars
<1> QED
  BY <1>1, <1>2, <1>3, <1>4, <1>5, <1>6, <1>7, <1>8 DEF PipelineNext

\* The dispatcher and the queue only decide when a task runs, and with which
\* of the outbox's rows.
THEOREM PipelineImplementsProcessing == PipelineSpec => ImplementsProcessing
<1>1. PipelineInit => Init
  BY DEF PipelineInit
<1> QED
  BY <1>1, PipelineStep, PTL DEF PipelineSpec, ImplementsProcessing, Spec

\* Claims are exclusive in the pipeline, whatever fails in it.
COROLLARY PipelineClaimsAreExclusive == PipelineSpec => []ClaimExclusive
BY PipelineImplementsProcessing, ClaimsAreExclusive, PTL DEF ImplementsProcessing

\* The pipeline takes every payment through the promised lifecycle.
COROLLARY PipelineImplementsLifecycle == PipelineSpec => ImplementsLifecycle
BY PipelineImplementsProcessing, ProcessorImplementsLifecycle, PTL DEF ImplementsProcessing

-----------------------------------------------------------------------------
(* The outbox and its unpublished rows                                     *)

\* Rows are never deleted, and one transaction writes at most one payment row.
LEMMA OutboxStep ==
    ASSUME [Next]_vars
    PROVE  /\ outbox \subseteq outbox'
           /\ \A r, s \in outbox' \ outbox :
                r.type \in PaymentJobTypes /\ s.type \in PaymentJobTypes => r = s
<1>1. ASSUME NEW rows, outbox' = outbox \cup rows,
             \A r, s \in rows :
                r.type \in PaymentJobTypes /\ s.type \in PaymentJobTypes => r = s
      PROVE  /\ outbox \subseteq outbox'
             /\ \A r, s \in outbox' \ outbox :
                  r.type \in PaymentJobTypes /\ s.type \in PaymentJobTypes => r = s
  BY <1>1
<1>2. \A p \in Payments : createWebhookDeliveriesOutboxEvent(p).type \notin PaymentJobTypes
  BY DEF createWebhookDeliveriesOutboxEvent, WebhookRequest, PaymentJobTypes
<1>3. \A t \in Tasks :
        createWebhookDeliveriesOutboxEvent(job[t].payment).type \notin PaymentJobTypes
  BY DEF createWebhookDeliveriesOutboxEvent, WebhookRequest, PaymentJobTypes
<1>4. ASSUME NEW p \in Payments, createPaymentSubmission(p)
      PROVE  \E rows : /\ outbox' = outbox \cup rows
                       /\ \A r, s \in rows :
                            r.type \in PaymentJobTypes /\ s.type \in PaymentJobTypes => r = s
  <2> DEFINE rows == {createWebhookDeliveriesOutboxEvent(p), ProcessRequest(p)}
  <2>1. outbox' = outbox \cup rows
    BY <1>4 DEF createPaymentSubmission
  <2>2. \A r, s \in rows : r.type \in PaymentJobTypes /\ s.type \in PaymentJobTypes => r = s
    BY <1>2
  <2> HIDE DEF rows
  <2> QED
    BY <2>1, <2>2
<1>5. ASSUME NEW t \in Tasks, claimPaymentAttempt(t)
      PROVE  \E rows : /\ outbox' = outbox \cup rows
                       /\ \A r, s \in rows :
                            r.type \in PaymentJobTypes /\ s.type \in PaymentJobTypes => r = s
  <2> DEFINE rows == {createWebhookDeliveriesOutboxEvent(job[t].payment)}
  <2>1. outbox' = outbox \cup rows
    BY <1>5 DEF claimPaymentAttempt
  <2>2. \A r, s \in rows : r = s
    OBVIOUS
  <2> HIDE DEF rows
  <2> QED
    BY <2>1, <2>2
<1>6. ASSUME NEW t \in Tasks, transitionProcessingPayment(t), ~UNCHANGED outbox
      PROVE  \E rows : /\ outbox' = outbox \cup rows
                       /\ \A r, s \in rows :
                            r.type \in PaymentJobTypes /\ s.type \in PaymentJobTypes => r = s
  <2>1. \A r, s \in RetrySchedule(t) : r = s
    BY DEF RetrySchedule
  <2> DEFINE rows == {createWebhookDeliveriesOutboxEvent(job[t].payment)} \cup RetrySchedule(t)
  <2>2. outbox' = outbox \cup rows
    BY <1>6 DEF transitionProcessingPayment
  <2>3. \A r, s \in rows : r.type \in PaymentJobTypes /\ s.type \in PaymentJobTypes => r = s
    BY <1>3, <2>1
  <2> QED
    BY <2>2, <2>3
<1>7. ASSUME UNCHANGED outbox
      PROVE  /\ outbox \subseteq outbox'
             /\ \A r, s \in outbox' \ outbox :
                  r.type \in PaymentJobTypes /\ s.type \in PaymentJobTypes => r = s
  BY <1>7
<1> QED
  BY StepCases, <1>1, <1>4, <1>5, <1>6, <1>7
     DEF StartJob, ClaimRead, executePayment, Tick, vars, stored

\* A sequence without its i-th element.
Without(seq, i) == SubSeq(seq, 1, i - 1) \o SubSeq(seq, i + 1, Len(seq))

LEMMA RemovingAt ==
    ASSUME NEW S, NEW seq \in Seq(S), NEW i \in DOMAIN seq
    PROVE  /\ Without(seq, i) \in Seq(S)
           /\ \A j \in DOMAIN seq : j # i =>
                \E k \in DOMAIN Without(seq, i) : Without(seq, i)[k] = seq[j]
<1>0. Len(seq) \in Nat /\ DOMAIN seq = 1..Len(seq)
  BY LenProperties
<1>1. /\ Len(seq) \in Nat
      /\ DOMAIN seq = 1..Len(seq)
      /\ i \in Nat /\ i >= 1 /\ i <= Len(seq)
      /\ \A j \in DOMAIN seq : j \in Nat /\ j >= 1 /\ j <= Len(seq)
  BY <1>0
<1> DEFINE before == SubSeq(seq, 1, i - 1)
           after == SubSeq(seq, i + 1, Len(seq))
<1>2. /\ before \in Seq(S)
      /\ Len(before) = i - 1
      /\ \A k \in 1..(i - 1) : before[k] = seq[k]
  <2>1. \A k \in 1..(i - 1) : seq[k] \in S
    BY <1>1, ElementOfSeq
  <2>2. 1 \in Int /\ i - 1 \in Int
    BY <1>1
  <2>3. /\ before \in Seq(S)
        /\ Len(before) = IF 1 <= i - 1 THEN (i - 1) - 1 + 1 ELSE 0
        /\ \A k \in 1..((i - 1) - 1 + 1) : before[k] = seq[1 + k - 1]
    BY <2>1, <2>2, SubSeqProperties
  <2> QED
    BY <1>1, <2>3
<1>3. /\ after \in Seq(S)
      /\ Len(after) = Len(seq) - i
      /\ \A k \in 1..(Len(seq) - i) : after[k] = seq[k + i]
  <2>1. \A k \in (i + 1)..Len(seq) : seq[k] \in S
    BY <1>1, ElementOfSeq
  <2>2. i + 1 \in Int /\ Len(seq) \in Int
    BY <1>1
  <2>3. /\ after \in Seq(S)
        /\ Len(after) = IF i + 1 <= Len(seq) THEN Len(seq) - (i + 1) + 1 ELSE 0
        /\ \A k \in 1..(Len(seq) - (i + 1) + 1) : after[k] = seq[(i + 1) + k - 1]
    BY <2>1, <2>2, SubSeqProperties
  <2>4. Len(after) = Len(seq) - i
    BY <1>1, <2>3
  <2>5. ASSUME NEW k \in 1..(Len(seq) - i) PROVE after[k] = seq[k + i]
    <3>1. k \in 1..(Len(seq) - (i + 1) + 1) /\ (i + 1) + k - 1 = k + i
      BY <1>1
    <3> QED
      BY <2>3, <3>1
  <2> QED
    BY <2>3, <2>4, <2>5
<1> DEFINE left == before \o after
<1> HIDE DEF before, after
<1>4. /\ left \in Seq(S)
      /\ Len(left) = Len(before) + Len(after)
      /\ \A k \in 1..(Len(before) + Len(after)) :
            left[k] = IF k <= Len(before) THEN before[k] ELSE after[k - Len(before)]
  BY <1>2, <1>3, ConcatProperties
<1> HIDE DEF left
<1>5. DOMAIN left = 1..(Len(seq) - 1)
  BY <1>1, <1>2, <1>3, <1>4, LenProperties
<1>6. ASSUME NEW j \in DOMAIN seq, j # i PROVE \E k \in DOMAIN left : left[k] = seq[j]
  <2>1. CASE j < i
    <3>1. j \in DOMAIN left /\ left[j] = seq[j]
      BY <1>1, <1>2, <1>3, <1>4, <1>5, <2>1
    <3> QED
      BY <3>1
  <2>2. CASE j > i
    <3>1. j - 1 \in 1..(Len(before) + Len(after)) /\ ~(j - 1 <= Len(before))
      BY <1>1, <1>2, <1>3, <2>2
    <3>2. left[j - 1] = after[(j - 1) - (i - 1)]
      BY <1>2, <1>4, <3>1
    <3>3. j - i \in 1..(Len(seq) - i) /\ (j - 1) - (i - 1) = j - i /\ (j - i) + i = j
      BY <1>1, <2>2
    <3>4. left[j - 1] = seq[j]
      BY <1>3, <3>2, <3>3
    <3>5. j - 1 \in DOMAIN left
      BY <1>1, <1>5, <2>2
    <3> QED
      BY <3>4, <3>5
  <2>3. j < i \/ j > i
    BY <1>1, <1>6
  <2> QED
    BY <2>1, <2>2, <2>3
<1>7. Without(seq, i) = left
  BY DEF Without, left, before, after
<1> QED
  BY <1>4, <1>6, <1>7

\* Work that is written stays unpublished until it is marked.
LEMMA GrowingBacklog ==
    ASSUME BacklogTypeOK, [Next]_vars, OutboxGrows
    PROVE  /\ BacklogTypeOK'
           /\ \A r \in outbox' :
                r.type \in PaymentJobTypes /\ (r \notin outbox \/ InBacklog(r)) => InBacklog(r)'
<1>1. /\ outbox \subseteq outbox'
      /\ \A r, s \in outbox' \ outbox :
            r.type \in PaymentJobTypes /\ s.type \in PaymentJobTypes => r = s
  BY OutboxStep
<1>2. DOMAIN backlog' = PaymentJobTypes
  BY DEF OutboxGrows
<1>3. ASSUME NEW type \in PaymentJobTypes
      PROVE  /\ backlog'[type] \in Seq(RowsOf(type)')
             /\ \A r \in outbox' : r.type = type /\ (r \notin outbox \/ InBacklog(r)) =>
                    \E i \in DOMAIN backlog'[type] : backlog'[type][i] = r
  <2> DEFINE new == {r \in outbox' \ outbox : r.type = type}
  <2>1. backlog'[type] = IF new = {} THEN backlog[type]
                         ELSE Append(backlog[type], CHOOSE r \in new : TRUE)
    BY DEF OutboxGrows
  <2>2. PICK S : S = RowsOf(type)'
    OBVIOUS
  <2>3. backlog[type] \in Seq(S) /\ new \subseteq S
    BY <1>1, <2>2, SeqMonotonic DEF BacklogTypeOK, RowsOf
  <2>4. \A r \in outbox' : r.type = type /\ r \notin outbox => r \in new
    OBVIOUS
  <2>5. \A r, s \in new : r = s
    BY <1>1
  <2>6. \A r : r.type = type /\ InBacklog(r) => \E i \in DOMAIN backlog[type] : backlog[type][i] = r
    BY DEF InBacklog
  <2> HIDE DEF new
  <2>7. CASE new = {}
    BY <2>1, <2>2, <2>3, <2>4, <2>6, <2>7
  <2>8. CASE new # {}
    <3>1. PICK r0 \in new : backlog'[type] = Append(backlog[type], r0)
      BY <2>1, <2>8
    <3>2. /\ backlog'[type] \in Seq(S)
          /\ Len(backlog'[type]) = Len(backlog[type]) + 1
          /\ \A i \in 1..Len(backlog[type]) : backlog'[type][i] = backlog[type][i]
          /\ backlog'[type][Len(backlog[type]) + 1] = r0
      BY <2>3, <3>1, AppendProperties
    <3>3. /\ Len(backlog[type]) \in Nat
          /\ DOMAIN backlog[type] = 1..Len(backlog[type])
          /\ DOMAIN backlog'[type] = 1..(Len(backlog[type]) + 1)
      BY <2>3, <3>2, LenProperties
    <3>4. ASSUME NEW r \in outbox', r.type = type, r \notin outbox \/ InBacklog(r)
          PROVE  \E i \in DOMAIN backlog'[type] : backlog'[type][i] = r
      <4>1. CASE r \notin outbox
        <5>1. r = r0
          BY <2>4, <2>5, <3>1, <3>4, <4>1
        <5>2. Len(backlog[type]) + 1 \in DOMAIN backlog'[type]
          BY <3>3
        <5> QED
          BY <3>2, <5>1, <5>2
      <4>2. CASE InBacklog(r)
        <5>1. PICK i \in DOMAIN backlog[type] : backlog[type][i] = r
          BY <2>6, <3>4, <4>2
        <5>2. i \in DOMAIN backlog'[type] /\ backlog'[type][i] = r
          BY <3>2, <3>3, <5>1
        <5> QED
          BY <5>2
      <4> QED
        BY <3>4, <4>1, <4>2
    <3> QED
      BY <2>2, <3>2, <3>4
  <2> QED
    BY <2>7, <2>8
<1> QED
  BY <1>2, <1>3 DEF BacklogTypeOK, InBacklog

LEMMA LeavingBacklog ==
    ASSUME BacklogTypeOK, UNCHANGED outbox, NEW request, request.type \in PaymentJobTypes,
           Leaves(request)
    PROVE  /\ BacklogTypeOK'
           /\ \A r : r.type \in PaymentJobTypes /\ r # request /\ InBacklog(r) => InBacklog(r)'
<1>1. CASE UNCHANGED backlog
  BY <1>1 DEF BacklogTypeOK, RowsOf, InBacklog
<1>2. ASSUME ~UNCHANGED backlog
      PROVE  /\ BacklogTypeOK'
             /\ \A r : r.type \in PaymentJobTypes /\ r # request /\ InBacklog(r) => InBacklog(r)'
  <2> DEFINE type == request.type
             rows == backlog[type]
  <2>1. PICK i \in DOMAIN rows :
            /\ rows[i] = request
            /\ backlog' = [backlog EXCEPT ![type] =
                                SubSeq(@, 1, i - 1) \o SubSeq(@, i + 1, Len(@))]
    BY <1>2 DEF Leaves
  <2>2. rows \in Seq(RowsOf(type)) /\ DOMAIN backlog = PaymentJobTypes
    BY DEF BacklogTypeOK
  <2>3. /\ DOMAIN backlog' = PaymentJobTypes
        /\ backlog'[type] = Without(rows, i)
        /\ \A other \in PaymentJobTypes : other # type => backlog'[other] = backlog[other]
    BY <2>1, <2>2 DEF Without
  <2>4. /\ backlog'[type] \in Seq(RowsOf(type))
        /\ \A j \in DOMAIN rows : j # i =>
                \E k \in DOMAIN backlog'[type] : backlog'[type][k] = rows[j]
    <3> DEFINE left == Without(rows, i)
    <3>1. /\ left \in Seq(RowsOf(type))
          /\ \A j \in DOMAIN rows : j # i => \E k \in DOMAIN left : left[k] = rows[j]
      <4>1. rows \in Seq(RowsOf(type)) /\ i \in DOMAIN rows
        BY <2>1, <2>2
      <4> HIDE DEF rows
      <4> QED
        BY <4>1, RemovingAt
    <3> HIDE DEF left
    <3> QED
      BY <2>3, <3>1 DEF left
  <2>5. BacklogTypeOK'
    BY <2>3, <2>4 DEF BacklogTypeOK, RowsOf
  <2>6. ASSUME NEW r, r.type \in PaymentJobTypes, r # request, InBacklog(r)
        PROVE  InBacklog(r)'
    <3>1. PICK j \in DOMAIN backlog[r.type] : backlog[r.type][j] = r
      BY <2>6 DEF InBacklog
    <3>2. CASE r.type = type
      <4>1. j # i
        BY <2>1, <2>6, <3>1, <3>2
      <4>2. PICK k \in DOMAIN backlog'[type] : backlog'[type][k] = rows[j]
        BY <2>4, <3>1, <3>2, <4>1
      <4> QED
        BY <3>1, <3>2, <4>2 DEF InBacklog
    <3>3. CASE r.type # type
      BY <2>3, <2>6, <3>1, <3>3 DEF InBacklog
    <3> QED
      BY <3>2, <3>3
  <2> QED
    BY <2>5, <2>6
<1> QED
  BY <1>1, <1>2

\* The row a dispatcher works on is one of the type whose turn it is.
LEMMA HeadInBatch ==
    ASSUME DispatchersTypeOK, NEW d \in Dispatchers, dispatcherPc[d] # "polling"
    PROVE  /\ Head(batch[d]) \in outbox
           /\ Head(batch[d]).type = mode[d]
           /\ mode[d] \in PaymentJobTypes
<1>1. batch[d] \in Seq(RowsOf(mode[d])) /\ batch[d] # <<>> /\ mode[d] \in PaymentJobTypes
  BY DEF DispatchersTypeOK
<1>2. Head(batch[d]) \in RowsOf(mode[d])
  BY <1>1, HeadTailProperties
<1> QED
  BY <1>1, <1>2 DEF RowsOf

\* What any step does to the unpublished rows: one that is marked published
\* is the row in some dispatcher's hand.
LEMMA BacklogStep ==
    ASSUME BacklogTypeOK, DispatchersTypeOK, [PipelineNext]_pipelineVars
    PROVE  /\ BacklogTypeOK'
           /\ \A r \in outbox' :
                r.type \in PaymentJobTypes /\ (r \notin outbox \/ InBacklog(r)) =>
                    \/ InBacklog(r)'
                    \/ \E d \in Dispatchers : dispatcherPc[d] = "marking" /\ r = Head(batch[d])
<1>1. [Next]_vars /\ outbox \subseteq outbox'
  BY PipelineStep, OutboxStep
<1>2. CASE OutboxGrows
  BY <1>1, <1>2, GrowingBacklog
<1>3. ASSUME UNCHANGED <<backlog, outbox>>
      PROVE  /\ BacklogTypeOK'
             /\ \A r \in outbox' :
                  r.type \in PaymentJobTypes /\ (r \notin outbox \/ InBacklog(r)) => InBacklog(r)'
  BY <1>3 DEF BacklogTypeOK, RowsOf, InBacklog
<1>4. ASSUME NEW d \in Dispatchers, MarkPublished(d)
      PROVE  /\ BacklogTypeOK'
             /\ \A r \in outbox' :
                  r.type \in PaymentJobTypes /\ (r \notin outbox \/ InBacklog(r)) =>
                      \/ InBacklog(r)'
                      \/ dispatcherPc[d] = "marking" /\ r = Head(batch[d])
  <2>1. UNCHANGED outbox /\ dispatcherPc[d] = "marking" /\ Leaves(Head(batch[d]))
    BY <1>4 DEF MarkPublished, vars, stored
  <2>2. Head(batch[d]).type \in PaymentJobTypes
    BY <2>1, HeadInBatch
  <2> QED
    BY <2>1, <2>2, LeavingBacklog
<1>5. ASSUME NEW d \in Dispatchers,
             FetchBatch(d) \/ Publish(d) \/ PublishFails(d) \/ MarkFails(d) \/ Restart(d)
      PROVE  UNCHANGED <<backlog, outbox>>
  BY <1>5 DEF FetchBatch, Publish, PublishFails, MarkFails, Restart, vars, stored
<1>6. ASSUME NEW id \in JobIds, Promote(id) \/ Stall(id) \/ \E t \in Tasks : Take(t, id)
      PROVE  UNCHANGED <<backlog, outbox>>
  BY <1>6 DEF Promote, Stall, Take, StartJob, vars, stored
<1>7. ASSUME NEW t \in Tasks, Work(t) \/ Complete(t) PROVE OutboxGrows
  BY <1>7 DEF Work, Complete
<1>8. ASSUME NEW t \in Tasks, Postpone(t) \/ Throw(t) \/ Die(t)
      PROVE  UNCHANGED <<backlog, outbox>>
  BY <1>8 DEF Postpone, ClaimNotDue, Throw, Die, Abandon, stored
<1>9. ASSUME TimePasses \/ UNCHANGED pipelineVars PROVE UNCHANGED <<backlog, outbox>>
  BY <1>9 DEF TimePasses, Tick, pipelineVars, vars, stored
<1>10. ASSUME NEW p \in Payments, Submit(p) PROVE OutboxGrows
  BY <1>10 DEF Submit
<1> QED
  BY <1>2, <1>3, <1>4, <1>5, <1>6, <1>7, <1>8, <1>9, <1>10 DEF PipelineNext, Dispatch, Advance

-----------------------------------------------------------------------------
(* The queue                                                               *)

\* A job that was added stays known to the queue.
JobsStay == \A id \in JobIds : jobState[id] # "absent" => jobState'[id] # "absent"

LEMMA AddingJob ==
    ASSUME QueueTypeOK, NEW request, AddJob(request)
    PROVE  /\ QueueTypeOK' /\ JobsStay
           /\ JobId(request) \in JobIds => jobState'[JobId(request)] # "absent"
           /\ \A id \in JobIds : id # JobId(request) => jobState'[id] = jobState[id]
           /\ \A id \in JobIds : jobState'[id] \in {jobState[id], "waiting", "delayed"}
<1>1. PICK state \in {"waiting", "delayed"} : Add(JobId(request), state)
  BY DEF AddJob
<1> QED
  BY <1>1 DEF Add, QueueTypeOK, JobStates, JobsStay

LEMMA MovingJob ==
    ASSUME QueueTypeOK, NEW t \in Tasks, NEW state \in {"completed", "delayed", "failed"},
           Release(t, state)
    PROVE  /\ QueueTypeOK' /\ JobsStay
           /\ \A id \in JobIds : jobState'[id] = jobState[id] \/ id = TaskJob(t)
           /\ \A id \in JobIds : jobState'[id] \in {jobState[id], state}
BY DEF Release, MoveJob, QueueTypeOK, JobStates, JobsStay

LEMMA QueueSteps ==
    ASSUME QueueTypeOK, NEW id \in JobIds,
           PromoteJob(id) \/ LockLapses(id) \/ \E t \in Tasks : HandOut(t, id)
    PROVE  /\ QueueTypeOK' /\ JobsStay
           /\ \A other \in JobIds :
                jobState'[other] \in {jobState[other], "waiting", "active", "failed"}
           /\ \A other \in JobIds : jobState[other] = "absent" => jobState'[other] = "absent"
<1>1. CASE PromoteJob(id)
  BY <1>1 DEF PromoteJob, QueueTypeOK, JobStates, JobsStay
<1>2. ASSUME NEW t \in Tasks, HandOut(t, id)
      PROVE  /\ QueueTypeOK' /\ JobsStay
             /\ \A other \in JobIds : jobState'[other] \in {jobState[other], "active"}
             /\ \A other \in JobIds : jobState[other] = "absent" => jobState'[other] = "absent"
  BY <1>2 DEF HandOut, QueueTypeOK, JobStates, JobsStay
<1>3. CASE LockLapses(id)
  <2>1. jobState' \in [JobIds -> JobStates] /\ jobOwner' \in [JobIds -> Tasks \cup {NULL}]
    BY <1>3 DEF LockLapses, QueueTypeOK, JobStates
  <2>2. stalledCount' \in [JobIds -> 0..MaxStalledCount]
    BY <1>3, PipelineAssumption DEF LockLapses, QueueTypeOK
  <2>3. /\ JobsStay
        /\ \A other \in JobIds : jobState'[other] \in {jobState[other], "waiting", "failed"}
        /\ \A other \in JobIds : jobState[other] = "absent" => jobState'[other] = "absent"
    BY <1>3 DEF LockLapses, QueueTypeOK, JobsStay
  <2> QED
    BY <2>1, <2>2, <2>3 DEF QueueTypeOK
<1> QED
  BY <1>1, <1>2, <1>3

\* The steps that leave the queue alone.
LEMMA QueueCases ==
    ASSUME [PipelineNext]_pipelineVars
    PROVE  \/ UNCHANGED queue
           \/ \E d \in Dispatchers :
                dispatcherPc[d] = "publishing" /\ AddJob(Head(batch[d])) /\ UNCHANGED vars
           \/ \E id \in JobIds : /\ \/ PromoteJob(id) \/ LockLapses(id)
                                    \/ \E t \in Tasks : HandOut(t, id)
                                 /\ UNCHANGED stored
           \/ \E t \in Tasks : Complete(t) /\ Release(t, "completed")
           \/ \E t \in Tasks, state \in {"delayed", "failed"} :
                Release(t, state) /\ pc[t] # "idle" /\ UNCHANGED stored
<1>1. ASSUME NEW d \in Dispatchers, Publish(d) \/ PublishFails(d)
      PROVE  \/ UNCHANGED queue
             \/ dispatcherPc[d] = "publishing" /\ AddJob(Head(batch[d])) /\ UNCHANGED vars
  BY <1>1 DEF Publish, PublishFails
<1>2. ASSUME NEW id \in JobIds, Promote(id) \/ Stall(id) \/ \E t \in Tasks : Take(t, id)
      PROVE  /\ PromoteJob(id) \/ LockLapses(id) \/ \E t \in Tasks : HandOut(t, id)
             /\ UNCHANGED stored
  BY <1>2 DEF Promote, Stall, Take, StartJob, vars, stored
<1>3. ASSUME NEW t \in Tasks, Complete(t) PROVE Release(t, "completed") \/ UNCHANGED queue
  BY <1>3 DEF Complete
<1>4. ASSUME NEW t \in Tasks, Postpone(t) \/ Throw(t)
      PROVE  \E state \in {"delayed", "failed"} :
                Release(t, state) /\ pc[t] # "idle" /\ UNCHANGED stored
  BY <1>4 DEF Postpone, Throw, ClaimNotDue, Abandon
<1>5. ASSUME NEW d \in Dispatchers,
             FetchBatch(d) \/ MarkPublished(d) \/ MarkFails(d) \/ Restart(d)
      PROVE  UNCHANGED queue
  BY <1>5 DEF FetchBatch, MarkPublished, MarkFails, Restart
<1>6. ASSUME NEW t \in Tasks, Work(t) \/ Die(t) PROVE UNCHANGED queue
  BY <1>6 DEF Work, Die
<1>7. ASSUME (\E p \in Payments : Submit(p)) \/ TimePasses \/ UNCHANGED pipelineVars
      PROVE  UNCHANGED queue
  BY <1>7 DEF Submit, TimePasses, pipelineVars
<1> QED
  BY <1>1, <1>2, <1>3, <1>4, <1>5, <1>6, <1>7 DEF PipelineNext, Dispatch, Advance

\* What any step does to the queue.
LEMMA QueueStep ==
    ASSUME QueueTypeOK, [PipelineNext]_pipelineVars
    PROVE  QueueTypeOK' /\ JobsStay
<1>1. CASE UNCHANGED queue
  BY <1>1 DEF queue, QueueTypeOK, JobsStay
<1> QED
  BY <1>1, QueueCases, AddingJob, QueueSteps, MovingJob

-----------------------------------------------------------------------------
(* The dispatchers                                                         *)

\* A dispatcher moves on to rows of the type whose turn it then is.
LEMMA DispatcherMoves ==
    ASSUME DispatchersTypeOK, outbox \subseteq outbox', NEW d \in Dispatchers,
           NEW p \in {"polling", "publishing", "marking"}, NEW type \in PaymentJobTypes,
           NEW b, b \in Seq(RowsOf(type)),
           p = "polling" <=> b = <<>>,
           dispatcherPc' = [dispatcherPc EXCEPT ![d] = p],
           mode' = [mode EXCEPT ![d] = type],
           DOMAIN batch' = Dispatchers,
           \A k \in Dispatchers : batch'[k] = IF k = d THEN b ELSE batch[k]
    PROVE  DispatchersTypeOK'
<1>1. /\ dispatcherPc' \in [Dispatchers -> {"polling", "publishing", "marking"}]
      /\ mode' \in [Dispatchers -> PaymentJobTypes]
      /\ DOMAIN batch' = Dispatchers
  BY DEF DispatchersTypeOK
<1>2. ASSUME NEW k \in Dispatchers
      PROVE  /\ batch'[k] \in Seq(RowsOf(mode'[k]))
             /\ dispatcherPc'[k] = "polling" <=> batch'[k] = <<>>
  BY DEF DispatchersTypeOK
<1>3. ASSUME NEW k \in Dispatchers PROVE batch'[k] \in Seq(RowsOf(mode[k])')
  <2>1. PICK S : S = RowsOf(mode[k])'
    OBVIOUS
  <2>2. RowsOf(mode'[k]) \subseteq S
    BY <2>1 DEF RowsOf
  <2>3. PICK s : s = batch'[k]
    OBVIOUS
  <2>4. PICK R : R = RowsOf(mode'[k])
    OBVIOUS
  <2>5. s \in Seq(R) /\ R \subseteq S
    BY <1>2, <2>2, <2>3, <2>4
  <2>6. s \in Seq(S)
    BY <2>5, SeqMonotonic
  <2> QED
    BY <2>1, <2>3, <2>6
<1> QED
  BY <1>1, <1>2, <1>3 DEF DispatchersTypeOK

\* A dispatcher moves on to the next row, or to the other type.
LEMMA NextEventTyped ==
    ASSUME DispatchersTypeOK, outbox \subseteq outbox', NEW d \in Dispatchers,
           dispatcherPc[d] # "polling", NextEvent(d)
    PROVE  DispatchersTypeOK'
<1> DEFINE rest == Tail(batch[d])
<1>0. /\ DOMAIN batch' = Dispatchers
      /\ \A k \in Dispatchers : batch'[k] = IF k = d THEN rest ELSE batch[k]
  BY DEF NextEvent, DispatchersTypeOK
<1>1. batch[d] \in Seq(RowsOf(mode[d])) /\ batch[d] # <<>> /\ mode[d] \in PaymentJobTypes
  BY DEF DispatchersTypeOK
<1>2. rest \in Seq(RowsOf(mode[d])) /\ Len(rest) = Len(batch[d]) - 1 /\ Len(batch[d]) \in Nat
  BY <1>1, HeadTailProperties, LenProperties
<1>4. OtherMode(mode[d]) \in PaymentJobTypes
  BY DEF OtherMode, PaymentJobTypes
<1> HIDE DEF rest
<1>3. rest = <<>> <=> Len(batch[d]) = 1
  <2>1. Len(rest) = 0 <=> rest = <<>>
    BY <1>2, EmptySeq
  <2> QED
    BY <1>2, <2>1
<1>6. CASE Len(batch[d]) = 1
  <2>1. /\ dispatcherPc' = [dispatcherPc EXCEPT ![d] = "polling"]
        /\ mode' = [mode EXCEPT ![d] = OtherMode(mode[d])]
    BY <1>6 DEF NextEvent
  <2>2. rest = <<>> /\ <<>> \in Seq(RowsOf(OtherMode(mode[d])))
    BY <1>3, <1>6, EmptySeq
  <2> QED
    BY <1>0, <1>4, <2>1, <2>2, DispatcherMoves
<1>7. CASE Len(batch[d]) # 1
  <2>1. /\ dispatcherPc' = [dispatcherPc EXCEPT ![d] = "publishing"]
        /\ mode' = [mode EXCEPT ![d] = mode[d]]
    BY <1>7 DEF NextEvent, DispatchersTypeOK
  <2> QED
    BY <1>0, <1>1, <1>2, <1>3, <1>7, <2>1, DispatcherMoves
<1> QED
  BY <1>6, <1>7

\* The dispatchers' steps, and the steps that leave them alone.
LEMMA DispatcherCases ==
    ASSUME [PipelineNext]_pipelineVars
    PROVE  \/ UNCHANGED dispatchers
           \/ \E d \in Dispatchers :
                \/ FetchBatch(d)
                \/ Publish(d)
                \/ dispatcherPc[d] # "polling" /\ NextEvent(d)
                \/ Restart(d)
<1>1. ASSUME NEW d \in Dispatchers, PublishFails(d) \/ MarkPublished(d) \/ MarkFails(d)
      PROVE  dispatcherPc[d] # "polling" /\ NextEvent(d)
  BY <1>1 DEF PublishFails, MarkPublished, MarkFails
<1>2. ASSUME \/ \E p \in Payments : Submit(p)
             \/ \E id \in JobIds : Promote(id) \/ Stall(id)
             \/ \E t \in Tasks, id \in JobIds : Take(t, id)
             \/ \E t \in Tasks : Advance(t) \/ Throw(t) \/ Die(t)
             \/ TimePasses
             \/ UNCHANGED pipelineVars
      PROVE  UNCHANGED dispatchers
  BY <1>2 DEF Submit, Promote, Stall, Take, Advance, Work, Complete, Postpone, Throw, Die,
              TimePasses, pipelineVars
<1> QED
  BY <1>1, <1>2 DEF PipelineNext, Dispatch

LEMMA DispatchersStep ==
    ASSUME BacklogTypeOK, DispatchersTypeOK, [PipelineNext]_pipelineVars
    PROVE  DispatchersTypeOK'
<1>0. outbox \subseteq outbox'
  BY PipelineStep, OutboxStep
<1>1. CASE UNCHANGED dispatchers
  <2>1. dispatcherPc' = dispatcherPc /\ mode' = mode /\ batch' = batch
    BY <1>1 DEF dispatchers
  <2>2. ASSUME NEW k \in Dispatchers PROVE batch[k] \in Seq(RowsOf(mode[k])')
    <3>1. PICK S : S = RowsOf(mode[k])'
      OBVIOUS
    <3>2. RowsOf(mode[k]) \subseteq S
      BY <1>0, <2>1, <3>1 DEF RowsOf
    <3> QED
      BY <3>1, <3>2, SeqMonotonic DEF DispatchersTypeOK
  <2> QED
    BY <2>1, <2>2 DEF DispatchersTypeOK
<1>2. ASSUME NEW d \in Dispatchers, FetchBatch(d) PROVE DispatchersTypeOK'
  <2> DEFINE found == findUnpublished(mode[d])
             rows == backlog[mode[d]]
  <2>1. /\ mode[d] \in PaymentJobTypes
        /\ OtherMode(mode[d]) \in PaymentJobTypes
        /\ rows \in Seq(RowsOf(mode[d]))
    BY DEF DispatchersTypeOK, BacklogTypeOK, OtherMode, PaymentJobTypes
  <2>2. found \in Seq(RowsOf(mode[d]))
    <3> DEFINE n == IF Len(rows) < BatchSize THEN Len(rows) ELSE BatchSize
    <3>1. n \in Int /\ 1 \in Int /\ \A i \in 1..n : rows[i] \in RowsOf(mode[d])
      BY <2>1, LenProperties, ElementOfSeq, PipelineAssumption
    <3>2. found = SubSeq(rows, 1, n)
      BY DEF findUnpublished
    <3> HIDE DEF n
    <3> QED
      BY <3>1, <3>2, SubSeqProperties
  <2>3. /\ dispatcherPc[d] = "polling"
        /\ DOMAIN batch' = Dispatchers
        /\ \A k \in Dispatchers : batch'[k] = IF k = d THEN found ELSE batch[k]
        /\ IF found = <<>>
           THEN mode' = [mode EXCEPT ![d] = OtherMode(mode[d])] /\ UNCHANGED dispatcherPc
           ELSE dispatcherPc' = [dispatcherPc EXCEPT ![d] = "publishing"] /\ UNCHANGED mode
    BY <1>2 DEF FetchBatch, DispatchersTypeOK
  <2> HIDE DEF found
  <2>4. CASE found = <<>>
    <3>1. dispatcherPc' = [dispatcherPc EXCEPT ![d] = "polling"]
      BY <2>3, <2>4 DEF DispatchersTypeOK
    <3>2. found \in Seq(RowsOf(OtherMode(mode[d])))
      BY <2>4, EmptySeq
    <3>3. mode' = [mode EXCEPT ![d] = OtherMode(mode[d])]
      BY <2>3, <2>4
    <3>4. PICK type \in PaymentJobTypes : type = OtherMode(mode[d])
      BY <2>1
    <3> QED
      BY <1>0, <2>3, <2>4, <3>1, <3>2, <3>3, <3>4, DispatcherMoves
  <2>5. CASE found # <<>>
    <3>1. mode' = [mode EXCEPT ![d] = mode[d]]
      BY <2>3, <2>5 DEF DispatchersTypeOK
    <3> QED
      BY <1>0, <2>1, <2>2, <2>3, <2>5, <3>1, DispatcherMoves
  <2> QED
    BY <2>4, <2>5
<1>3. ASSUME NEW d \in Dispatchers, Publish(d) PROVE DispatchersTypeOK'
  <2>1. /\ dispatcherPc' = [dispatcherPc EXCEPT ![d] = "marking"]
        /\ mode' = [mode EXCEPT ![d] = mode[d]]
        /\ batch' = batch /\ DOMAIN batch = Dispatchers
        /\ batch[d] # <<>>
        /\ batch[d] \in Seq(RowsOf(mode[d])) /\ mode[d] \in PaymentJobTypes
    BY <1>3 DEF Publish, DispatchersTypeOK
  <2> QED
    BY <1>0, <2>1, DispatcherMoves
<1>4. ASSUME NEW d \in Dispatchers, Restart(d) PROVE DispatchersTypeOK'
  <2>1. /\ dispatcherPc' = [dispatcherPc EXCEPT ![d] = "polling"]
        /\ mode' = [mode EXCEPT ![d] = "PAYMENT_PROCESS_REQUESTED"]
        /\ DOMAIN batch' = Dispatchers
        /\ \A k \in Dispatchers : batch'[k] = IF k = d THEN <<>> ELSE batch[k]
    BY <1>4 DEF Restart, DispatchersTypeOK
  <2>2. <<>> \in Seq(RowsOf("PAYMENT_PROCESS_REQUESTED"))
    BY EmptySeq
  <2>3. "PAYMENT_PROCESS_REQUESTED" \in PaymentJobTypes
    BY DEF PaymentJobTypes
  <2> QED
    BY <1>0, <2>1, <2>2, <2>3, DispatcherMoves
<1> QED
  BY <1>0, <1>1, <1>2, <1>3, <1>4, DispatcherCases, NextEventTyped

-----------------------------------------------------------------------------
LEMMA FaultsStep ==
    ASSUME faults \in 0..MaxFaults, [PipelineNext]_pipelineVars
    PROVE  faults' \in 0..MaxFaults
<1>1. ASSUME NEW kind, Fault(kind) PROVE faults' \in 0..MaxFaults
  BY <1>1, PipelineAssumption DEF Fault
<1>2. ASSUME NEW d \in Dispatchers, PublishFails(d) \/ MarkFails(d) \/ Restart(d)
      PROVE  faults' \in 0..MaxFaults
  BY <1>1, <1>2 DEF PublishFails, MarkFails, Restart
<1>3. ASSUME NEW id \in JobIds, Stall(id) PROVE faults' \in 0..MaxFaults
  BY <1>1, <1>3 DEF Stall
<1>4. ASSUME NEW t \in Tasks, Complete(t) \/ Throw(t) \/ Die(t)
      PROVE  faults' \in 0..MaxFaults
  BY <1>1, <1>4 DEF Complete, Throw, Die
<1>5. ASSUME \/ \E p \in Payments : Submit(p)
             \/ \E d \in Dispatchers : Dispatch(d)
             \/ \E id \in JobIds : Promote(id)
             \/ \E t \in Tasks, id \in JobIds : Take(t, id)
             \/ \E t \in Tasks : Work(t) \/ Postpone(t)
             \/ TimePasses
             \/ UNCHANGED pipelineVars
      PROVE  UNCHANGED faults
  BY <1>5 DEF Submit, Dispatch, FetchBatch, Publish, MarkPublished, Promote, Take, Work,
              Postpone, TimePasses, pipelineVars
<1> QED
  BY <1>2, <1>3, <1>4, <1>5 DEF PipelineNext, Advance

LEMMA PipelineTypeStep == PipelineTypeOK /\ [PipelineNext]_pipelineVars => PipelineTypeOK'
<1> SUFFICES ASSUME TypeOK, BacklogTypeOK, DispatchersTypeOK, QueueTypeOK,
                    faults \in 0..MaxFaults, [PipelineNext]_pipelineVars
             PROVE  PipelineTypeOK'
  BY DEF PipelineTypeOK
<1>1. TypeOK'
  BY PipelineStep, TypeStep
<1>2. BacklogTypeOK' /\ DispatchersTypeOK' /\ QueueTypeOK'
  BY BacklogStep, DispatchersStep, QueueStep
<1> QED
  BY <1>1, <1>2, FaultsStep DEF PipelineTypeOK

LEMMA PipelineTypeInit == PipelineInit => PipelineTypeOK
<1> SUFFICES ASSUME PipelineInit PROVE PipelineTypeOK
  OBVIOUS
<1>1. TypeOK
  BY TypeInit DEF PipelineInit
<1>2. BacklogTypeOK
  BY EmptySeq DEF PipelineInit, BacklogTypeOK
<1>3. DispatchersTypeOK
  BY EmptySeq DEF PipelineInit, DispatchersTypeOK, PaymentJobTypes
<1>4. QueueTypeOK
  BY PipelineAssumption DEF PipelineInit, QueueInit, QueueTypeOK, JobStates
<1>5. faults \in 0..MaxFaults
  BY PipelineAssumption DEF PipelineInit
<1> QED
  BY <1>1, <1>2, <1>3, <1>4, <1>5 DEF PipelineTypeOK

\* Whatever fails and whoever restarts, the variables have their types: no
\* dispatcher works on a row of the other type or one that was not committed.
THEOREM PipelineTypeCorrect == PipelineSpec => []PipelineTypeOK
BY PipelineTypeInit, PipelineTypeStep, PTL DEF PipelineSpec

-----------------------------------------------------------------------------
(* Published means queued. A row is marked after its job was added, and a  *)
(* job stays known; that needs the job's number in range.                  *)

RequestsInRange ==
    \A request \in outbox : request.type \in PaymentJobTypes => JobId(request) \in JobIds

Queued(request) == jobState[JobId(request)] # "absent"

MarkingIsQueued ==
    \A d \in Dispatchers : dispatcherPc[d] = "marking" => Queued(Head(batch[d]))

LEMMA RequestsAreInRange == TypeOK /\ RequestsInv => RequestsInRange
BY DEF TypeOK, RequestsInv, RequestFits, RequestsInRange, OutboxRow, PaymentJobTypes, JobId,
       JobIds

\* A row that is queued stays queued.
LEMMA QueuedStays ==
    ASSUME RequestsInRange, JobsStay, NEW request \in outbox,
           request.type \in PaymentJobTypes, Queued(request)
    PROVE  Queued(request)'
BY DEF RequestsInRange, JobsStay, Queued, JobId

\* The rows in hand.
LEMMA MarkingStep ==
    PipelineTypeOK /\ RequestsInRange /\ MarkingIsQueued /\ [PipelineNext]_pipelineVars
        => MarkingIsQueued'
<1> SUFFICES ASSUME PipelineTypeOK, RequestsInRange, MarkingIsQueued,
                    [PipelineNext]_pipelineVars,
                    NEW d \in Dispatchers, dispatcherPc'[d] = "marking"
             PROVE  Queued(Head(batch[d]))'
  BY DEF MarkingIsQueued
<1>0. DispatchersTypeOK /\ QueueTypeOK /\ JobsStay
  BY QueueStep DEF PipelineTypeOK
<1>1. ASSUME dispatcherPc[d] = "marking", batch'[d] = batch[d]
      PROVE  Queued(Head(batch[d]))'
  <2>1. Head(batch[d]) \in outbox /\ Head(batch[d]).type \in PaymentJobTypes
    BY <1>0, <1>1, HeadInBatch
  <2> QED
    BY <1>0, <1>1, <2>1, QueuedStays DEF MarkingIsQueued, Queued, JobId
<1>2. CASE Publish(d)
  <2>1. AddJob(Head(batch[d])) /\ batch' = batch /\ dispatcherPc[d] = "publishing"
    BY <1>2 DEF Publish
  <2>2. Head(batch[d]) \in outbox /\ Head(batch[d]).type \in PaymentJobTypes
    BY <1>0, <2>1, HeadInBatch
  <2>3. jobState'[JobId(Head(batch[d]))] # "absent"
    BY <1>0, <2>1, <2>2, AddingJob DEF RequestsInRange
  <2> QED
    BY <2>1, <2>3 DEF Queued, JobId
<1>3. ASSUME NEW k \in Dispatchers,
             \/ FetchBatch(k)
             \/ Publish(k) /\ k # d
             \/ NextEvent(k)
             \/ Restart(k)
      PROVE  dispatcherPc[d] = "marking" /\ batch'[d] = batch[d]
  BY <1>0, <1>3 DEF FetchBatch, NextEvent, Publish, Restart, DispatchersTypeOK
<1>4. ASSUME UNCHANGED dispatchers
      PROVE  dispatcherPc[d] = "marking" /\ batch'[d] = batch[d]
  BY <1>4 DEF dispatchers
<1> QED
  BY <1>1, <1>2, <1>3, <1>4, DispatcherCases

\* The rows that are marked.
LEMMA PublishedStep ==
    PipelineTypeOK /\ RequestsInRange /\ MarkingIsQueued /\ PublishedMeansQueued
        /\ [PipelineNext]_pipelineVars => PublishedMeansQueued'
<1> SUFFICES ASSUME PipelineTypeOK, RequestsInRange, MarkingIsQueued, PublishedMeansQueued,
                    [PipelineNext]_pipelineVars,
                    NEW request \in outbox', request.type \in PaymentJobTypes,
                    ~InBacklog(request)'
             PROVE  Queued(request)'
  BY DEF PublishedMeansQueued, Queued, JobId, InBacklog, PaymentJobTypes
<1>1. BacklogTypeOK /\ DispatchersTypeOK /\ QueueTypeOK /\ JobsStay
  BY QueueStep DEF PipelineTypeOK
<1>2. \/ request \in outbox /\ ~InBacklog(request)
      \/ \E d \in Dispatchers : dispatcherPc[d] = "marking" /\ request = Head(batch[d])
  BY <1>1, BacklogStep
<1>3. request \in outbox /\ Queued(request)
  BY <1>1, <1>2, HeadInBatch DEF PublishedMeansQueued, MarkingIsQueued, Queued
<1> QED
  BY <1>1, <1>3, QueuedStays

LEMMA PublishedInvariant ==
    PipelineSpec => [](RequestsInRange /\ MarkingIsQueued /\ PublishedMeansQueued)
<1>1. PipelineInit => MarkingIsQueued /\ PublishedMeansQueued
  BY DEF PipelineInit, Init, MarkingIsQueued, PublishedMeansQueued
<1>2. PipelineTypeOK => TypeOK
  BY DEF PipelineTypeOK
<1>3. Spec => [](RequestsInv /\ SnapshotsInv)
  BY RequestsInvariant
<1> QED
  BY <1>1, <1>2, <1>3, PipelineTypeCorrect, PipelineImplementsProcessing, RequestsAreInRange,
     MarkingStep, PublishedStep, PTL DEF PipelineSpec, ImplementsProcessing

\* However many dispatchers work on the same rows, and wherever they fail or
\* die, no row is marked published before its job is in the queue.
THEOREM PublishedIsQueued == PipelineSpec => []PublishedMeansQueued
BY PublishedInvariant, PTL

-----------------------------------------------------------------------------
(* Waiting work is not completed. The job a payment waits for does not     *)
(* exist when the payment begins to wait, and no task that is handed it    *)
(* finishes without the claim. What ties jobs to payments is that every    *)
(* job, in the queue or with a task, was asked for by a row.               *)

IsAskedFor(id) == \E r \in outbox : r.type \in PaymentJobTypes /\ JobId(r) = id

RunningAskedFor == \A t \in Tasks : pc[t] # "idle" => IsAskedFor(TaskJob(t))

JobsAskedFor == \A id \in JobIds : jobState[id] # "absent" => IsAskedFor(id)

Waits(p) == status[p] \in {"PENDING", "RETRYING"}

Ticket(p) == <<p, TicketNumber(p)>>

TicketsOpen == \A p \in Payments : Waits(p) => jobState[Ticket(p)] # "completed"

LEMMA AskedForStays ==
    ASSUME [Next]_vars, NEW id, IsAskedFor(id)
    PROVE  IsAskedFor(id)'
BY OutboxStep DEF IsAskedFor, JobId

\* A task starts with the job of a row.
LEMMA RunningStep == TypeOK /\ RunningAskedFor /\ [Next]_vars => RunningAskedFor'
<1> SUFFICES ASSUME TypeOK, RunningAskedFor, [Next]_vars, NEW u \in Tasks, pc'[u] # "idle"
             PROVE  IsAskedFor(TaskJob(u))'
  BY DEF RunningAskedFor
<1>1. ASSUME pc[u] # "idle", job'[u] = job[u] PROVE IsAskedFor(TaskJob(u))'
  <2>1. IsAskedFor(TaskJob(u)) /\ TaskJob(u)' = TaskJob(u)
    BY <1>1 DEF RunningAskedFor, TaskJob
  <2> QED
    BY <2>1, OutboxStep DEF IsAskedFor, JobId
<1>2. ASSUME NEW t \in Tasks, NEW request \in outbox, StartJob(t, request)
      PROVE  IsAskedFor(TaskJob(u))'
  <2>1. CASE u = t
    <3>1. /\ request \in outbox'
          /\ request.type \in PaymentJobTypes
          /\ TaskJob(u)' = JobId(request)
      BY <1>2, <2>1 DEF StartJob, TaskJob, JobId, stored, TypeOK
    <3> QED
      BY <3>1 DEF IsAskedFor, JobId
  <2>2. CASE u # t
    BY <1>1, <1>2, <2>2 DEF StartJob, TypeOK
  <2> QED
    BY <2>1, <2>2
<1>3. ASSUME NEW t \in Tasks, Finish(t) PROVE pc[u] # "idle" /\ job'[u] = job[u]
  BY <1>3 DEF Finish, TypeOK
<1>4. ASSUME NEW t \in Tasks,
             \/ ClaimRead(t) \/ claimPaymentAttempt(t)
             \/ \E outcome \in BankOutcome : executePayment(t, outcome)
      PROVE  pc[u] # "idle" /\ job'[u] = job[u]
  BY <1>4 DEF ClaimRead, claimPaymentAttempt, executePayment, TypeOK
<1>5. ASSUME \/ \E p \in Payments : createPaymentSubmission(p)
             \/ Tick
             \/ UNCHANGED vars
      PROVE  pc[u] # "idle" /\ job'[u] = job[u]
  BY <1>5 DEF createPaymentSubmission, Tick, vars, local
<1>6. ASSUME NEW t \in Tasks, transitionProcessingPayment(t) PROVE Finish(t)
  BY <1>6 DEF transitionProcessingPayment
<1> QED
  BY <1>1, <1>2, <1>3, <1>4, <1>5, <1>6, StepCases

\* Jobs come into the queue by rows only.
LEMMA JobsAskedForStep ==
    PipelineTypeOK /\ RunningAskedFor /\ JobsAskedFor /\ [PipelineNext]_pipelineVars
        => JobsAskedFor'
<1> SUFFICES ASSUME PipelineTypeOK, RunningAskedFor, JobsAskedFor,
                    [PipelineNext]_pipelineVars, NEW id \in JobIds, jobState'[id] # "absent"
             PROVE  IsAskedFor(id)'
  BY DEF JobsAskedFor
<1>1. QueueTypeOK /\ DispatchersTypeOK /\ [Next]_vars
  BY PipelineStep DEF PipelineTypeOK
<1>2. SUFFICES ASSUME jobState[id] = "absent" PROVE IsAskedFor(id)
  BY <1>1, AskedForStays DEF JobsAskedFor
<1>3. ~UNCHANGED queue
  BY <1>2 DEF queue
<1>4. ASSUME NEW d \in Dispatchers, dispatcherPc[d] = "publishing", AddJob(Head(batch[d]))
      PROVE  IsAskedFor(id)
  <2>1. id = JobId(Head(batch[d]))
    BY <1>1, <1>2, <1>4, AddingJob
  <2> QED
    BY <1>1, <1>4, <2>1, HeadInBatch DEF IsAskedFor
<1>5. ASSUME NEW t \in Tasks, NEW state \in {"completed", "delayed", "failed"},
             Release(t, state), pc[t] # "idle"
      PROVE  IsAskedFor(id)
  <2>1. id = TaskJob(t)
    BY <1>1, <1>2, <1>5, MovingJob
  <2> QED
    BY <1>5, <2>1 DEF RunningAskedFor
<1>6. ASSUME NEW other \in JobIds,
             PromoteJob(other) \/ LockLapses(other) \/ \E t \in Tasks : HandOut(t, other)
      PROVE  FALSE
  BY <1>1, <1>2, <1>6, QueueSteps
<1>7. ASSUME NEW t \in Tasks, Complete(t) PROVE pc[t] # "idle"
  BY <1>7 DEF Complete, ClaimRefused, ClaimLost, transitionProcessingPayment
<1> QED
  BY <1>3, <1>4, <1>5, <1>6, <1>7, QueueCases

\* A payment that does not wait yet has no row for the job it will wait for.
LEMMA NotYetAskedFor ==
    ASSUME TypeOK, RequestsInv, NEW p \in Payments
    PROVE  /\ status[p] = NULL => ~IsAskedFor(<<p, NULL>>)
           /\ status[p] = "PROCESSING" => ~IsAskedFor(<<p, attemptCount[p] + 1>>)
<1>1. ASSUME NEW r \in outbox, r.type \in PaymentJobTypes, r.payment = p
      PROVE  /\ status[p] = NULL => r.number # NULL
             /\ status[p] = "PROCESSING" => r.number # attemptCount[p] + 1
  <2>1. RequestFits(r) /\ attemptCount[p] + 1 # NULL
    BY NullAssumption DEF RequestsInv, TypeOK
  <2>2. CASE r.type = "PAYMENT_PROCESS_REQUESTED"
    BY <1>1, <2>1, <2>2 DEF RequestFits
  <2>3. CASE r.type = "PAYMENT_RETRY_REQUESTED"
    <3>1. /\ r.number \in 2..MaxAttempts
          /\ r.number = attemptCount[p] + 1 => status[p] = "RETRYING"
      BY <1>1, <2>1, <2>3 DEF RequestFits
    <3>2. r.number # NULL
      BY <3>1, NullAssumption, MaxAttemptsAssumption
    <3> QED
      BY <3>1, <3>2
  <2> QED
    BY <1>1, <2>2, <2>3 DEF PaymentJobTypes
<1>2. \A r : JobId(r) = <<r.payment, r.number>>
  BY DEF JobId
<1> QED
  BY <1>1, <1>2 DEF IsAskedFor

\* How a payment comes to wait: it waited for the same job before, or for
\* none, and that job was never asked for.
LEMMA BeginsToWait ==
    ASSUME TypeOK, ClaimInv, ReplyInv, RequestsInv, [Next]_vars, NEW p \in Payments, Waits(p)'
    PROVE  \/ Waits(p) /\ Ticket(p)' = Ticket(p)
           \/ createPaymentSubmission(p) /\ ~IsAskedFor(Ticket(p)')
           \/ /\ \E t \in Tasks : transitionProcessingPayment(t) /\ job[t].payment = p
              /\ ~IsAskedFor(Ticket(p)')
<1> USE DEF Waits, Ticket, TicketNumber
<1>1. CASE status'[p] = status[p] /\ attemptCount'[p] = attemptCount[p]
  BY <1>1
<1>2. ASSUME NEW q \in Payments, createPaymentSubmission(q),
             ~(status'[p] = status[p] /\ attemptCount'[p] = attemptCount[p])
      PROVE  createPaymentSubmission(p) /\ ~IsAskedFor(Ticket(p)')
  <2>1. /\ p = q
        /\ status[p] = NULL
        /\ status'[p] = "PENDING"
    BY <1>2 DEF createPaymentSubmission, TypeOK
  <2>2. Ticket(p)' = <<p, NULL>>
    BY <2>1
  <2> QED
    BY <1>2, <2>1, <2>2, NotYetAskedFor
<1>3. ASSUME NEW t \in Tasks, claimPaymentAttempt(t)
      PROVE  status'[p] = status[p] /\ attemptCount'[p] = attemptCount[p]
  <2>1. /\ job[t].payment \in Payments
        /\ status' = [status EXCEPT ![job[t].payment] = "PROCESSING"]
        /\ attemptCount' = [attemptCount EXCEPT ![job[t].payment] = @ + 1]
    BY <1>3 DEF claimPaymentAttempt, TypeOK, JobType
  <2> QED
    BY <2>1 DEF TypeOK
<1>4. ASSUME NEW t \in Tasks, transitionProcessingPayment(t),
             ~(status'[p] = status[p] /\ attemptCount'[p] = attemptCount[p])
      PROVE  job[t].payment = p /\ ~IsAskedFor(Ticket(p)')
  <2>1. /\ job[t].payment \in Payments
        /\ status[job[t].payment] = "PROCESSING"
        /\ status' = [status EXCEPT ![job[t].payment] = reply[t].toStatus]
        /\ reply[t].toStatus \in {"COMPLETED", "FAILED", "RETRYING"}
        /\ UNCHANGED attemptCount
    BY <1>4, TransitionEffect
  <2>2. job[t].payment = p
    BY <1>4, <2>1 DEF TypeOK
  <2>3. status'[p] = "RETRYING" /\ attemptCount'[p] = attemptCount[p]
    BY <2>1, <2>2 DEF TypeOK
  <2>4. Ticket(p)' = <<p, attemptCount[p] + 1>>
    BY <2>3
  <2> QED
    BY <2>1, <2>2, <2>4, NotYetAskedFor
<1>5. ASSUME UNCHANGED <<status, attemptCount>>
      PROVE  status'[p] = status[p] /\ attemptCount'[p] = attemptCount[p]
  BY <1>5
<1> QED
  BY <1>1, <1>2, <1>3, <1>4, <1>5, StepCases
     DEF StartJob, ClaimRead, executePayment, Tick, vars, stored, paymentRow

\* Only a call that returned has its job reported done.
LEMMA TicketsStep ==
    ASSUME PipelineTypeOK, ClaimInv, ReplyInv, WaitingInv, RequestsInv, SnapshotsInv,
           RunningAskedFor, JobsAskedFor, TicketsOpen, [PipelineNext]_pipelineVars,
           TypeOK', WaitingInv'
    PROVE  TicketsOpen'
<1> SUFFICES ASSUME NEW p \in Payments, Waits(p)' PROVE jobState'[Ticket(p)'] # "completed"
  BY DEF TicketsOpen, Waits, Ticket, TicketNumber
<1>1. TypeOK /\ QueueTypeOK /\ DispatchersTypeOK /\ [Next]_vars
  BY PipelineStep DEF PipelineTypeOK
<1>2. Ticket(p)' \in JobIds
  <2>1. status'[p] = "RETRYING" => attemptCount'[p] + 1 \in 2..MaxAttempts
    BY MaxAttemptsAssumption DEF WaitingInv
  <2> QED
    BY <2>1 DEF Waits, Ticket, TicketNumber, JobIds
<1>3. PICK id \in JobIds : id = Ticket(p)'
  BY <1>2
<1>4. (Waits(p) /\ id = Ticket(p)) \/ ~IsAskedFor(id)
  BY <1>1, <1>3, BeginsToWait
<1>5. jobState[id] # "completed"
  BY <1>4 DEF TicketsOpen, JobsAskedFor
<1>6. SUFFICES ASSUME jobState'[id] = "completed" PROVE FALSE
  BY <1>3
<1>7. PICK t \in Tasks : Complete(t) /\ TaskJob(t) = id
  <2>1. ~UNCHANGED queue
    BY <1>5, <1>6 DEF queue
  <2>2. ASSUME NEW d \in Dispatchers, AddJob(Head(batch[d])) PROVE FALSE
    BY <1>1, <1>5, <1>6, <2>2, AddingJob
  <2>3. ASSUME NEW other \in JobIds,
               PromoteJob(other) \/ LockLapses(other) \/ \E t \in Tasks : HandOut(t, other)
        PROVE  FALSE
    BY <1>1, <1>5, <1>6, <2>3, QueueSteps
  <2>4. ASSUME NEW t \in Tasks, NEW state \in {"delayed", "failed"}, Release(t, state)
        PROVE  FALSE
    BY <1>1, <1>5, <1>6, <2>4, MovingJob
  <2>5. ASSUME NEW t \in Tasks, Release(t, "completed") PROVE TaskJob(t) = id
    BY <1>1, <1>5, <1>6, <2>5, MovingJob
  <2> QED
    BY <2>1, <2>2, <2>3, <2>4, <2>5, QueueCases
<1>8. pc[t] # "idle"
  BY <1>7 DEF Complete, ClaimRefused, ClaimLost, transitionProcessingPayment
<1>9. Waits(p) /\ id = Ticket(p)
  BY <1>4, <1>7, <1>8 DEF RunningAskedFor
<1>10. job[t].payment = p /\ job[t].expectedAttemptNumber = TicketNumber(p)
  BY <1>7, <1>9 DEF TaskJob, Ticket
<1>11. ~ClaimRefused(t) /\ ~ClaimLost(t)
  BY <1>1, <1>9, <1>10, TicketClaims DEF Waits
<1>12. transitionProcessingPayment(t)
  BY <1>7, <1>11 DEF Complete
<1>13. status[p] = "PROCESSING"
  BY <1>1, <1>10, <1>12, TransitionEffect
<1> QED
  BY <1>9, <1>13 DEF Waits

LEMMA TicketsInvariant == PipelineSpec => [](RunningAskedFor /\ JobsAskedFor /\ TicketsOpen)
<1>1. PipelineInit => RunningAskedFor /\ JobsAskedFor /\ TicketsOpen
  BY NullAssumption
     DEF PipelineInit, Init, QueueInit, RunningAskedFor, JobsAskedFor, TicketsOpen, Waits,
         PaymentStatus
<1>2. PipelineTypeOK => TypeOK
  BY DEF PipelineTypeOK
<1>3. /\ Spec => [](RequestsInv /\ SnapshotsInv)
      /\ Spec => [](ReplyInv /\ WaitingInv)
      /\ Spec => []ClaimInv
      /\ Spec => []TypeOK
  BY RequestsInvariant, WaitingInvariant, ClaimInvariant, TypeCorrect
<1>4. PipelineTypeOK /\ ClaimInv /\ ReplyInv /\ WaitingInv /\ RequestsInv /\ SnapshotsInv
        /\ RunningAskedFor /\ JobsAskedFor /\ TicketsOpen /\ [PipelineNext]_pipelineVars
        /\ TypeOK' /\ WaitingInv' => TicketsOpen'
  BY TicketsStep
<1> QED
  BY <1>1, <1>2, <1>3, <1>4, PipelineTypeCorrect, PipelineImplementsProcessing, PipelineStep,
     RunningStep, JobsAskedForStep, PTL DEF PipelineSpec, ImplementsProcessing

\* As long as a payment waits to be claimed, the row of its job is still to be
\* published, or the job is in the queue and was not reported done.
THEOREM WaitingWorkIsKept == PipelineSpec => []WaitingWorkNotCompleted
<1>1. TypeOK /\ WaitingInv /\ PublishedMeansQueued /\ TicketsOpen => WaitingWorkNotCompleted
  <2> SUFFICES ASSUME TypeOK, WaitingInv, PublishedMeansQueued, TicketsOpen,
                      NEW p \in Payments, Waits(p)
               PROVE  \E request \in outbox :
                        /\ IsTicket(request, p)
                        /\ \/ InBacklog(request)
                           \/ jobState[JobId(request)] \notin {"absent", "completed"}
    BY DEF WaitingWorkNotCompleted, Waits
  <2>1. \E request \in outbox : IsTicket(request, p) /\ JobId(request) = Ticket(p)
    <3>1. CASE status[p] = "PENDING"
      <4>1. /\ ProcessRequest(p) \in outbox
            /\ IsTicket(ProcessRequest(p), p)
            /\ JobId(ProcessRequest(p)) = Ticket(p)
        BY <3>1 DEF WaitingInv, IsTicket, ProcessRequest, PaymentJobTypes, JobId, Ticket,
                    TicketNumber
      <4> QED
        BY <4>1
    <3>2. CASE status[p] = "RETRYING"
      <4> DEFINE request == RetryRequest(p, attemptCount[p] + 1, nextRetryAt[p])
      <4>1. /\ request \in outbox
            /\ IsTicket(request, p)
            /\ JobId(request) = Ticket(p)
        BY <3>2 DEF WaitingInv, IsTicket, RetryRequest, PaymentJobTypes, JobId, Ticket,
                    TicketNumber
      <4> QED
        BY <4>1
    <3> QED
      BY <3>1, <3>2 DEF Waits
  <2>2. PICK request \in outbox : IsTicket(request, p) /\ JobId(request) = Ticket(p)
    BY <2>1
  <2>3. jobState[JobId(request)] # "completed"
    BY <2>2 DEF TicketsOpen
  <2>4. InBacklog(request) \/ jobState[JobId(request)] # "absent"
    BY <2>2 DEF PublishedMeansQueued, IsTicket
  <2> QED
    BY <2>2, <2>3, <2>4
<1>2. /\ Spec => [](ReplyInv /\ WaitingInv)
      /\ Spec => []TypeOK
  BY WaitingInvariant, TypeCorrect
<1> QED
  BY <1>1, <1>2, TicketsInvariant, PublishedIsQueued, PipelineImplementsProcessing, PTL
     DEF ImplementsProcessing
=============================================================================
