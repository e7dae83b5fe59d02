------------------------ MODULE SimulatedBankProofs --------------------------
(***************************************************************************)
(* With the simulated bank every reference settles as documented. What the *)
(* history of a payment looks like follows from the number of its attempts *)
(* and its status, for any bank; how many attempts there are follows from  *)
(* the answers, which the reference and the attempt number determine.      *)
(***************************************************************************)
EXTENDS SimulatedBank, PaymentPipelineProofs

-----------------------------------------------------------------------------
(* The visible history. Its first and last event are known from the audit  *)
(* trail; between them attempts begin and fail in turn.                    *)

Between(i) == IF i % 2 = 0 THEN "PROCESSING" ELSE "RETRYING"

HistoryFits(p) ==
    /\ attemptCount[p] = 0 <=> status[p] \in {NULL, "PENDING"}
    /\ status[p] # NULL =>
        Len(events[p]) = IF status[p] = "PROCESSING" THEN 2 * attemptCount[p]
                                                     ELSE 2 * attemptCount[p] + 1
    /\ \A i \in 2..(Len(events[p]) - 1) : events[p][i].toStatus = Between(i)

\* Odd and even.
LEMMA BetweenAt ==
    ASSUME NEW n \in Nat
    PROVE  Between(2 * n) = "PROCESSING" /\ Between(2 * n + 1) = "RETRYING"
<1>1. (2 * n) % 2 = 0 /\ (2 * n + 1) % 2 = 1
  BY SMT
<1> QED
  BY <1>1 DEF Between

\* Appending an event extends what lies between by the former last event.
LEMMA HistoryExtended ==
    ASSUME TypeOK, NEW p \in Payments, Trail(p), HistoryFits(p), status[p] # NULL,
           NEW e \in EventType, events'[p] = Append(events[p], e),
           status[p] = "PENDING" \/ status[p] = Between(Len(events[p]))
    PROVE  /\ Len(events'[p]) = Len(events[p]) + 1
           /\ \A i \in 2..(Len(events'[p]) - 1) : events'[p][i].toStatus = Between(i)
<1> DEFINE old == events[p]
           new == events'[p]
<1>1. old \in Seq(EventType) /\ old # <<>> /\ Len(old) \in Nat \ {0}
  BY DEF TypeOK, Trail
<1>2. /\ Len(new) = Len(old) + 1
      /\ \A i \in 1..Len(old) : new[i] = old[i]
  BY <1>1
<1>3. old[Len(old)].toStatus = status[p]
  BY <1>1 DEF Trail
<1>4. ASSUME status[p] = "PENDING" PROVE Len(old) = 1
  <2>1. attemptCount[p] = 0
    BY <1>4 DEF HistoryFits
  <2>2. Len(old) = 2 * attemptCount[p] + 1
    BY <1>4 DEF HistoryFits
  <2> QED
    BY <2>1, <2>2
<1>5. ASSUME NEW i \in 2..(Len(new) - 1) PROVE new[i].toStatus = Between(i)
  <2>1. i \in 1..Len(old) /\ new[i] = old[i]
    BY <1>1, <1>2, <1>5
  <2>2. CASE i = Len(old)
    BY <1>1, <1>3, <1>4, <2>1, <2>2
  <2>3. CASE i # Len(old)
    <3>1. i \in 2..(Len(old) - 1)
      BY <1>1, <2>1, <2>3
    <3> QED
      BY <2>1, <3>1 DEF HistoryFits
  <2> QED
    BY <2>2, <2>3
<1> QED
  BY <1>2, <1>5

\* Every step keeps every payment's history fitting.
LEMMA HistoryStep ==
    ASSUME TypeOK, ClaimInv, ReplyInv, [Next]_vars,
           NEW p \in Payments, Trail(p), HistoryFits(p)
    PROVE  HistoryFits(p)'
<1> USE DEF vars, stored, paymentRow, local, bank
<1>0. attemptCount[p] \in Nat
  BY DEF TypeOK
<1>1. ASSUME events'[p] = events[p], status'[p] = status[p],
             attemptCount'[p] = attemptCount[p]
      PROVE  HistoryFits(p)'
  BY <1>1 DEF HistoryFits, Between
<1>2. ASSUME NEW q \in Payments, createPaymentSubmission(q) PROVE HistoryFits(p)'
  <2>1. CASE q = p
    <3>1. status[p] = NULL /\ events[p] = <<>>
      BY <1>2, <2>1 DEF createPaymentSubmission, Trail
    <3>2. /\ events'[p] = <<PaymentEvent(NULL, "PENDING")>>
          /\ status'[p] = "PENDING"
          /\ attemptCount'[p] = attemptCount[p]
      BY <1>2, <2>1, <3>1 DEF createPaymentSubmission, RecordEvent, TypeOK
    <3>3. attemptCount[p] = 0
      BY <3>1 DEF HistoryFits
    <3>4. Len(events'[p]) = 1
      BY <3>2
    <3> QED
      BY <3>2, <3>3, <3>4 DEF HistoryFits
  <2>2. CASE q # p
    BY <1>1, <1>2, <2>2 DEF createPaymentSubmission, RecordEvent, TypeOK
  <2> QED
    BY <2>1, <2>2
<1>3. ASSUME NEW t \in Tasks, claimPaymentAttempt(t) PROVE HistoryFits(p)'
  <2>1. CASE job[t].payment = p
    <3>1. /\ status[p] = snapshot[t].status
          /\ status[p] \in {"PENDING", "RETRYING"}
          /\ status[p] # NULL
      BY <1>3, <2>1, NullAssumption
         DEF claimPaymentAttempt, ClaimMatches, Row, ClaimInv, SnapshotClaimable,
             PaymentStatus
    <3>2. /\ status'[p] = "PROCESSING"
          /\ attemptCount'[p] = attemptCount[p] + 1
          /\ events'[p] = Append(events[p], PaymentEvent(status[p], "PROCESSING"))
      BY <1>3, <2>1, <3>1 DEF claimPaymentAttempt, RecordEvent, TypeOK
    <3>3. PaymentEvent(status[p], "PROCESSING") \in EventType
      BY <3>1 DEF PaymentEvent, EventType, PaymentStatus
    <3>4. Len(events[p]) = 2 * attemptCount[p] + 1
      BY <3>1 DEF HistoryFits
    <3>5. status[p] = "RETRYING" => status[p] = Between(Len(events[p]))
      BY <1>0, <3>4, BetweenAt
    <3>6. /\ Len(events'[p]) = Len(events[p]) + 1
          /\ \A i \in 2..(Len(events'[p]) - 1) : events'[p][i].toStatus = Between(i)
      BY <3>1, <3>2, <3>3, <3>5, HistoryExtended
    <3>7. "PROCESSING" # NULL
      BY NullAssumption DEF PaymentStatus
    <3> QED
      BY <1>0, <3>2, <3>4, <3>6, <3>7 DEF HistoryFits, Between
  <2>2. CASE job[t].payment # p
    BY <1>1, <1>3, <2>2 DEF claimPaymentAttempt, RecordEvent, TypeOK
  <2> QED
    BY <2>1, <2>2
<1>4. ASSUME NEW t \in Tasks, transitionProcessingPayment(t) PROVE HistoryFits(p)'
  <2> DEFINE to == reply[t].toStatus
  <2>0. /\ to \in {"COMPLETED", "FAILED", "RETRYING"}
        /\ status[job[t].payment] = "PROCESSING"
        /\ status' = [status EXCEPT ![job[t].payment] = to]
        /\ events' = [events EXCEPT ![job[t].payment] =
                          Append(@, PaymentEvent("PROCESSING", to))]
        /\ attemptCount' = attemptCount
    BY <1>4, TransitionEffect
  <2>1. CASE job[t].payment = p
    <3>1. /\ status[p] = "PROCESSING"
          /\ status'[p] = to
          /\ events'[p] = Append(events[p], PaymentEvent("PROCESSING", to))
          /\ status[p] # NULL
      BY <2>0, <2>1, NullAssumption DEF TypeOK, PaymentStatus
    <3>2. PaymentEvent("PROCESSING", to) \in EventType
      BY <2>0 DEF PaymentEvent, EventType, PaymentStatus
    <3>3. Len(events[p]) = 2 * attemptCount[p] /\ attemptCount[p] # 0
      BY <3>1 DEF HistoryFits
    <3>4. status[p] = Between(Len(events[p]))
      BY <1>0, <3>1, <3>3, BetweenAt
    <3> HIDE DEF to
    <3>5. /\ Len(events'[p]) = Len(events[p]) + 1
          /\ \A i \in 2..(Len(events'[p]) - 1) : events'[p][i].toStatus = Between(i)
      BY <3>1, <3>2, <3>4, HistoryExtended
    <3>6. to \notin {NULL, "PENDING", "PROCESSING"}
      BY <2>0, NullAssumption DEF PaymentStatus
    <3> QED
      BY <1>0, <2>0, <3>1, <3>3, <3>5, <3>6 DEF HistoryFits, Between
  <2>2. CASE job[t].payment # p
    BY <1>1, <2>0, <2>2 DEF TypeOK
  <2> QED
    BY <2>1, <2>2
<1> QED
  BY StepCases, <1>1, <1>2, <1>3, <1>4 DEF StartJob, ClaimRead, executePayment, Tick

HistoriesFit == \A p \in Payments : Trail(p) /\ HistoryFits(p)

\* Every payment's history fits, whatever bank it goes to.
LEMMA HistoriesInvariant == Spec => []HistoriesFit
<1>1. Init => HistoriesFit
  BY DEF Init, HistoriesFit, Trail, HistoryFits
<1>2. TypeOK /\ ClaimInv /\ ReplyInv /\ HistoriesFit /\ [Next]_vars => HistoriesFit'
  BY TrailStep, HistoryStep DEF HistoriesFit
<1> QED
  BY <1>1, <1>2, TypeCorrect, ClaimInvariant, WaitingInvariant, PTL DEF Spec

-----------------------------------------------------------------------------
(* Attempts and answers                                                    *)

\* The simulated bank only restricts the answers.
LEMMA SimulatedStep ==
    [SimulatedNext]_simulatedVars =>
        /\ [PipelineNext]_pipelineVars
        /\ [Next]_vars
        /\ SimulatedAnswers
        /\ UNCHANGED reference
<1>1. UNCHANGED simulatedVars => SimulatedAnswers
  BY DEF simulatedVars, pipelineVars, vars, local, SimulatedAnswers
<1> QED
  BY <1>1, PipelineStep DEF SimulatedNext, simulatedVars

\* So what is proved of the pipeline may be used of it with the simulated bank.
LEMMA SimulatedIsPipeline == SimulatedSpec => PipelineSpec
<1>1. SimulatedInit => PipelineInit
  BY DEF SimulatedInit
<1> QED
  BY <1>1, SimulatedStep, PTL DEF SimulatedSpec, PipelineSpec

\* What attempt n of a payment ends as.
Ending(p, n) == ResultingStatus(simulatedAnswer(reference[p], n), n)

\* A task that heard from the simulated bank is about to record that.
ReplyFits(t) ==
    pc[t] = "recording" /\ reference[job[t].payment] # NULL =>
        reply[t].toStatus = Ending(job[t].payment, AttemptNumber(t))

RepliesFit == \A t \in Tasks : ReplyFits(t)

\* All attempts but the last ended in a retry; the last, if it has ended,
\* as the payment's status says.
OutcomesFit ==
    \A p \in Payments : reference[p] # NULL =>
        /\ \A n \in 1..(attemptCount[p] - 1) : Ending(p, n) = "RETRYING"
        /\ status[p] \notin {NULL, "PENDING", "PROCESSING"} =>
            status[p] = Ending(p, attemptCount[p])

\* The answer is that of the reference, for the attempt the task made.
LEMMA RepliesStep ==
    TypeOK /\ RepliesFit /\ [Next]_vars /\ SimulatedAnswers /\ UNCHANGED reference
        => RepliesFit'
<1> SUFFICES ASSUME TypeOK, RepliesFit, [Next]_vars, SimulatedAnswers, UNCHANGED reference,
                    NEW u \in Tasks, pc'[u] = "recording",
                    reference[job'[u].payment] # NULL
             PROVE  ReplyFits(u)'
  BY DEF RepliesFit, ReplyFits
<1>1. ASSUME job'[u] = job[u], snapshot'[u] = snapshot[u],
             reply'[u].toStatus = Ending(job[u].payment, AttemptNumber(u))
      PROVE  ReplyFits(u)'
  BY <1>1 DEF ReplyFits, Ending, AttemptNumber, ResultingStatus, simulatedAnswer,
              temporaryFailureAttempts
<1>2. ASSUME pc'[u] = pc[u], job'[u] = job[u], snapshot'[u] = snapshot[u],
             reply'[u] = reply[u]
      PROVE  ReplyFits(u)'
  BY <1>1, <1>2 DEF RepliesFit, ReplyFits
<1>3. ASSUME NEW t \in Tasks, NEW outcome \in BankOutcome, executePayment(t, outcome)
      PROVE  ReplyFits(u)'
  <2>1. CASE u = t
    <3> DEFINE p == job[u].payment
               answer == simulatedAnswer(reference[p], AttemptNumber(u))
    <3>1. /\ pc[u] = "calling"
          /\ UNCHANGED <<job, snapshot>>
      BY <1>3, <2>1 DEF executePayment
    <3>2. executePayment(u, answer)
      BY <3>1, Zenon DEF SimulatedAnswers
    <3>3. reply'[u] = Settlement(u, BankResult(answer))
      BY <3>2 DEF executePayment, TypeOK
    <3>4. BankResult(answer) = answer
      BY DEF BankResult, simulatedAnswer
    <3>5. reply'[u].toStatus = Ending(p, AttemptNumber(u))
      BY <3>3, <3>4 DEF Settlement, Ending
    <3> QED
      BY <1>1, <3>1, <3>5
  <2>2. CASE u # t
    BY <1>2, <1>3, <2>2 DEF executePayment, TypeOK
  <2> QED
    BY <2>1, <2>2
<1>4. CASE UNCHANGED local
  BY <1>2, <1>4 DEF local
<1>5. ASSUME NEW t \in Tasks, pc'[t] # "recording",
             \A v \in Tasks : v # t => /\ pc'[v] = pc[v]
                                      /\ job'[v] = job[v]
                                      /\ snapshot'[v] = snapshot[v]
                                      /\ reply'[v] = reply[v]
      PROVE  ReplyFits(u)'
  BY <1>2, <1>5 DEF ReplyFits
<1>6. ASSUME NEW t \in Tasks, Finish(t) PROVE ReplyFits(u)'
  <2>1. pc'[t] # "recording"
    BY <1>6 DEF Finish, TypeOK
  <2> QED
    BY <1>5, <1>6, <2>1 DEF Finish, TypeOK
<1>7. ASSUME NEW t \in Tasks, NEW request \in outbox, StartJob(t, request)
      PROVE  ReplyFits(u)'
  <2>1. pc'[t] # "recording"
    BY <1>7 DEF StartJob, TypeOK
  <2> QED
    BY <1>5, <1>7, <2>1 DEF StartJob, TypeOK
<1>8. ASSUME NEW t \in Tasks, ClaimRead(t) PROVE ReplyFits(u)'
  <2>1. pc'[t] # "recording"
    BY <1>8 DEF ClaimRead, TypeOK
  <2> QED
    BY <1>5, <1>8, <2>1 DEF ClaimRead, TypeOK
<1>9. ASSUME NEW t \in Tasks, claimPaymentAttempt(t) PROVE ReplyFits(u)'
  <2>1. pc'[t] # "recording"
    BY <1>9 DEF claimPaymentAttempt, TypeOK
  <2> QED
    BY <1>5, <1>9, <2>1 DEF claimPaymentAttempt, TypeOK
<1> QED
  BY StepCases, <1>3, <1>4, <1>6, <1>7, <1>8, <1>9
     DEF createPaymentSubmission, transitionProcessingPayment, Tick, vars

\* An attempt begins only after the one before it ended in a retry, and the
\* status it is settled with is the one it ends as.
LEMMA OutcomesStep ==
    TypeOK /\ ClaimInv /\ ReplyInv /\ HistoriesFit /\ RepliesFit /\ OutcomesFit /\ [Next]_vars
           /\ UNCHANGED reference
        => OutcomesFit'
<1> DEFINE Outcomes(p) ==
        /\ \A n \in 1..(attemptCount[p] - 1) : Ending(p, n) = "RETRYING"
        /\ status[p] \notin {NULL, "PENDING", "PROCESSING"} =>
            status[p] = Ending(p, attemptCount[p])
<1> SUFFICES ASSUME TypeOK, ClaimInv, ReplyInv, HistoriesFit, RepliesFit, OutcomesFit,
                    [Next]_vars, UNCHANGED reference,
                    NEW p \in Payments, reference[p] # NULL
             PROVE  Outcomes(p)'
  BY DEF OutcomesFit
<1> USE DEF vars, stored, paymentRow
<1>0. attemptCount[p] \in Nat /\ Outcomes(p)
  BY DEF TypeOK, OutcomesFit
<1>1. \A n : Ending(p, n)' = Ending(p, n)
  BY DEF Ending, ResultingStatus, simulatedAnswer, temporaryFailureAttempts
<1>2. ASSUME status'[p] = status[p], attemptCount'[p] = attemptCount[p]
      PROVE  Outcomes(p)'
  BY <1>0, <1>1, <1>2
<1>3. ASSUME NEW q \in Payments, createPaymentSubmission(q) PROVE Outcomes(p)'
  <2>1. CASE q = p
    <3>1. status'[p] = "PENDING" /\ attemptCount'[p] = attemptCount[p]
      BY <1>3, <2>1 DEF createPaymentSubmission, TypeOK
    <3> QED
      BY <1>0, <1>1, <3>1
  <2>2. CASE q # p
    BY <1>2, <1>3, <2>2 DEF createPaymentSubmission, TypeOK
  <2> QED
    BY <2>1, <2>2
<1>4. ASSUME NEW t \in Tasks, claimPaymentAttempt(t) PROVE Outcomes(p)'
  <2>1. CASE job[t].payment = p
    <3>1. /\ status[p] \in {"PENDING", "RETRYING"}
          /\ status'[p] = "PROCESSING"
          /\ attemptCount'[p] = attemptCount[p] + 1
      BY <1>4, <2>1 DEF claimPaymentAttempt, ClaimMatches, Row, ClaimInv, SnapshotClaimable,
                        TypeOK
    <3>2. status[p] = "PENDING" => attemptCount[p] = 0
      BY DEF HistoriesFit, HistoryFits
    <3>3. status[p] = "RETRYING" => Ending(p, attemptCount[p]) = "RETRYING"
      BY <1>0, NullAssumption DEF PaymentStatus
    <3>4. ASSUME NEW n \in 1..attemptCount[p] PROVE Ending(p, n) = "RETRYING"
      <4>1. CASE n = attemptCount[p]
        BY <1>0, <3>1, <3>2, <3>3, <4>1
      <4>2. CASE n # attemptCount[p]
        BY <1>0, <4>2
      <4> QED
        BY <4>1, <4>2
    <3>5. attemptCount'[p] - 1 = attemptCount[p]
      BY <1>0, <3>1
    <3> QED
      BY <1>1, <3>1, <3>4, <3>5
  <2>2. CASE job[t].payment # p
    BY <1>2, <1>4, <2>2 DEF claimPaymentAttempt, TypeOK
  <2> QED
    BY <2>1, <2>2
<1>5. ASSUME NEW t \in Tasks, transitionProcessingPayment(t) PROVE Outcomes(p)'
  <2>0. /\ status[job[t].payment] = "PROCESSING"
        /\ attemptCount[job[t].payment] = AttemptNumber(t)
        /\ status' = [status EXCEPT ![job[t].payment] = reply[t].toStatus]
        /\ attemptCount' = attemptCount
    BY <1>5, TransitionEffect
  <2>1. CASE job[t].payment = p
    <3>1. reply[t].toStatus = Ending(p, attemptCount[p])
      BY <1>5, <2>0, <2>1 DEF transitionProcessingPayment, RepliesFit, ReplyFits
    <3>2. status'[p] = Ending(p, attemptCount[p])
      BY <2>0, <2>1, <3>1 DEF TypeOK
    <3> QED
      BY <1>0, <1>1, <2>0, <3>2
  <2>2. CASE job[t].payment # p
    BY <1>2, <2>0, <2>2 DEF TypeOK
  <2> QED
    BY <2>1, <2>2
<1> QED
  BY StepCases, <1>2, <1>3, <1>4, <1>5 DEF StartJob, ClaimRead, executePayment, Tick

SettlementInv ==
    /\ HistoriesFit
    /\ RepliesFit
    /\ OutcomesFit
    /\ reference \in [Payments -> References \cup {NULL}]

\* The invariant behind the documented table holds in every reachable state.
LEMMA SettlementInvariant == SimulatedSpec => []SettlementInv
<1>1. SimulatedInit => RepliesFit /\ OutcomesFit /\ reference \in [Payments -> References \cup {NULL}]
  BY DEF SimulatedInit, PipelineInit, Init, RepliesFit, ReplyFits, OutcomesFit
<1>2. RepliesFit /\ TypeOK /\ [SimulatedNext]_simulatedVars => RepliesFit'
  BY SimulatedStep, RepliesStep
<1>3. TypeOK /\ ClaimInv /\ ReplyInv /\ HistoriesFit /\ RepliesFit /\ OutcomesFit
        /\ [SimulatedNext]_simulatedVars => OutcomesFit'
  BY SimulatedStep, OutcomesStep
<1>4. reference \in [Payments -> References \cup {NULL}] /\ [SimulatedNext]_simulatedVars
        => (reference \in [Payments -> References \cup {NULL}])'
  BY SimulatedStep
<1>5. SimulatedSpec => Spec
  BY SimulatedIsPipeline, PipelineImplementsProcessing DEF ImplementsProcessing
<1> QED
  BY <1>1, <1>2, <1>3, <1>4, <1>5, TypeCorrect, ClaimInvariant, WaitingInvariant,
     HistoriesInvariant, PTL DEF SimulatedSpec, SettlementInv

-----------------------------------------------------------------------------
(* The documented table                                                    *)

\* All attempts before the last are retried, the last ends the payment: so a
\* payment ends at the first attempt that does not end in a retry.
LEMMA EndsAtFirst ==
    ASSUME TypeOK, SettlementInv, NEW p \in Payments, reference[p] # NULL,
           status[p] \in Terminal, NEW n \in Nat \ {0}, Ending(p, n) # "RETRYING",
           \A m \in 1..(n - 1) : Ending(p, m) = "RETRYING"
    PROVE  attemptCount[p] = n /\ status[p] = Ending(p, n)
<1>1. attemptCount[p] \in Nat
  BY DEF TypeOK
<1>2. status[p] \notin {NULL, "PENDING", "PROCESSING", "RETRYING"}
  BY NullAssumption DEF Terminal, PaymentStatus
<1>3. attemptCount[p] # 0
  BY <1>2 DEF SettlementInv, HistoriesFit, HistoryFits
<1>4. /\ \A m \in 1..(attemptCount[p] - 1) : Ending(p, m) = "RETRYING"
      /\ status[p] = Ending(p, attemptCount[p])
  BY <1>2 DEF SettlementInv, OutcomesFit
<1>5. ~(n < attemptCount[p])
  BY <1>1, <1>4
<1>6. ~(attemptCount[p] < n)
  BY <1>1, <1>2, <1>3, <1>4
<1> QED
  BY <1>1, <1>4, <1>5, <1>6

\* What is visible of a payment that ended is what the documentation lists.
LEMMA HistoryVisible ==
    ASSUME TypeOK, SettlementInv, NEW p \in Payments, status[p] \in Terminal
    PROVE  Visible(p) = History(status[p], attemptCount[p])
<1> DEFINE trail == events[p]
           n == attemptCount[p]
<1>1. status[p] \notin {NULL, "PENDING", "PROCESSING", "RETRYING"}
  BY NullAssumption DEF Terminal, PaymentStatus
<1>2. n \in Nat \ {0} /\ Len(trail) = 2 * n + 1
  BY <1>1 DEF TypeOK, SettlementInv, HistoriesFit, HistoryFits
<1>3. /\ trail \in Seq(EventType)
      /\ trail # <<>>
  BY <1>1 DEF TypeOK, SettlementInv, HistoriesFit, Trail
<1>4. DOMAIN trail = 1..(2 * n + 1)
  BY <1>2, <1>3
<1>5. ASSUME NEW i \in 1..(2 * n + 1)
      PROVE  trail[i].toStatus = CASE i = 1 -> "PENDING"
                                   [] i = 2 * n + 1 -> status[p]
                                   [] i % 2 = 0 -> "PROCESSING"
                                   [] OTHER -> "RETRYING"
  <2>1. CASE i = 1
    <3>1. trail[1] = PaymentEvent(NULL, "PENDING")
      BY <1>3 DEF SettlementInv, HistoriesFit, Trail
    <3>2. trail[i].toStatus = "PENDING"
      BY <2>1, <3>1 DEF PaymentEvent
    <3>3. i # 2 * n + 1 /\ i % 2 # 0
      BY <1>2, <2>1
    <3> QED
      BY <2>1, <3>2, <3>3
  <2>2. CASE i = 2 * n + 1
    <3>1. trail[i].toStatus = status[p]
      BY <1>2, <1>3, <2>2 DEF SettlementInv, HistoriesFit, Trail
    <3>2. i # 1 /\ i % 2 # 0
      BY <1>2, <2>2
    <3> QED
      BY <2>2, <3>1, <3>2
  <2>3. CASE i # 1 /\ i # 2 * n + 1
    <3>1. i \in 2..(Len(trail) - 1)
      BY <1>2, <2>3
    <3>2. trail[i].toStatus = Between(i)
      BY <3>1 DEF SettlementInv, HistoriesFit, HistoryFits
    <3> QED
      BY <2>3, <3>2 DEF Between
  <2> QED
    BY <2>1, <2>2, <2>3
<1> QED
  BY <1>4, <1>5 DEF Visible, History

\* Each row of the documented table tells the first attempt that does not end
\* in a retry, unless the attempts are used up before it.
LEMMA DocumentedEnd ==
    ASSUME TypeOK, SettlementInv, NEW p \in Payments, NEW row \in Documented,
           reference[p] = row.markers, status[p] \in Terminal
    PROVE  Visible(p) = IF row.at <= MaxAttempts
                        THEN History(row.ends, row.at)
                        ELSE History("FAILED", MaxAttempts)
<1> DEFINE at == IF row.at <= MaxAttempts THEN row.at ELSE MaxAttempts
           ends == IF row.at <= MaxAttempts THEN row.ends ELSE "FAILED"
<1>1. reference[p] # NULL
  <2>1. row.markers \in SUBSET Markers
    BY DEF Documented, Markers
  <2> QED
    BY <2>1, ReferencesAssumption
<1>2. /\ at \in Nat \ {0}
      /\ Ending(p, at) = ends
      /\ \A m \in 1..(at - 1) : Ending(p, m) = "RETRYING"
      /\ ends # "RETRYING"
  <2> USE MaxAttemptsAssumption
          DEF Ending, ResultingStatus, simulatedAnswer, temporaryFailureAttempts
  <2>1. CASE row = [markers |-> {}, ends |-> "COMPLETED", at |-> 1]
    BY <2>1
  <2>2. CASE row = [markers |-> {"PERM_FAIL"}, ends |-> "FAILED", at |-> 1]
    BY <2>2
  <2>3. CASE row = [markers |-> {"TEMP_FAIL"}, ends |-> "FAILED", at |-> MaxAttempts]
    BY <2>3
  <2>4. CASE row = [markers |-> {"TEMP_FAIL", "TEMP_FAIL_ONCE"}, ends |-> "COMPLETED",
                    at |-> 2]
    BY <2>4
  <2>5. CASE row = [markers |-> {"TEMP_FAIL", "TEMP_FAIL_TWICE"}, ends |-> "COMPLETED",
                    at |-> 3]
    BY <2>5
  <2> QED
    BY <2>1, <2>2, <2>3, <2>4, <2>5 DEF Documented
<1> HIDE DEF at, ends
<1>3. attemptCount[p] = at /\ status[p] = ends
  BY <1>1, <1>2, EndsAtFirst
<1>4. Visible(p) = History(ends, at)
  BY <1>3, HistoryVisible
<1> QED
  BY <1>4 DEF at, ends

\* Each reference of the documented table ends its payments as the table says,
\* with the documented history, or at the last attempt if there are too few.
THEOREM ReferencesSettleAsDocumented == SimulatedSpec => []SettlesAsDocumented
<1>1. TypeOK /\ SettlementInv => SettlesAsDocumented
  BY DocumentedEnd DEF SettlesAsDocumented
<1>2. SimulatedSpec => []TypeOK
  BY SimulatedIsPipeline, PipelineImplementsProcessing, TypeCorrect, PTL
     DEF ImplementsProcessing
<1> QED
  BY <1>1, <1>2, SettlementInvariant, PTL

=============================================================================
