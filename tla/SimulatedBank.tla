---------------------------- MODULE SimulatedBank ----------------------------
(***************************************************************************)
(* The pipeline with the bank that the service is run with: SimulatedBank- *)
(* Client answers by the payment's reference and the attempt number, and   *)
(* never throws. What remains of a reference is which markers it contains. *)
(* A payment without one goes to another BankClient, which may do what     *)
(* PaymentProcessing allows a bank.                                        *)
(***************************************************************************)
EXTENDS PaymentPipeline

CONSTANT References     \* each the set of the markers it contains

Markers == {"PERM_FAIL", "TEMP_FAIL", "TEMP_FAIL_ONCE", "TEMP_FAIL_TWICE"}

\* A string that contains either of the longer markers contains TEMP_FAIL.
ASSUME ReferencesAssumption ==
    /\ \A r \in References :
        /\ r \subseteq Markers
        /\ r \cap {"TEMP_FAIL_ONCE", "TEMP_FAIL_TWICE"} # {} => "TEMP_FAIL" \in r
    /\ \A r \in SUBSET Markers : NULL # r

VARIABLE reference      \* [Payments -> References \cup {NULL}], NULL: another bank

simulatedVars == <<pipelineVars, reference>>

\* Mutant: the shortest marker is looked for first.
temporaryFailureAttemptsShortestFirst(r) ==
    IF "TEMP_FAIL" \in r THEN MaxAttempts
    ELSE IF "TEMP_FAIL_ONCE" \in r THEN 1
    ELSE IF "TEMP_FAIL_TWICE" \in r THEN 2
    ELSE 0

\* MaxAttempts is as good as infinity: no attempt has a greater number.
temporaryFailureAttempts(r) ==
    IF "TEMP_FAIL_TWICE" \in r THEN 2
    ELSE IF "TEMP_FAIL_ONCE" \in r THEN 1
    ELSE IF "TEMP_FAIL" \in r THEN MaxAttempts
    ELSE 0

simulatedAnswer(r, attemptNumber) ==
    IF attemptNumber <= temporaryFailureAttempts(r) THEN "TEMPORARY_FAILURE"
    ELSE IF "PERM_FAIL" \in r THEN "PERMANENT_FAILURE"
    ELSE "SUCCESS"

\* Every call of it that returns is answered by the simulated bank.
SimulatedAnswers ==
    \A t \in Tasks :
        pc[t] = "calling" /\ pc'[t] = "recording" /\ reference[job[t].payment] # NULL =>
            executePayment(t, simulatedAnswer(reference[job[t].payment], AttemptNumber(t)))

SimulatedInit == PipelineInit /\ reference \in [Payments -> References \cup {NULL}]

SimulatedNext == PipelineNext /\ SimulatedAnswers /\ UNCHANGED reference

SimulatedSpec == SimulatedInit /\ [][SimulatedNext]_simulatedVars

-----------------------------------------------------------------------------
(* Properties                                                              *)

\* The table of the documentation, for references with one marker: how the
\* payment ends, and at which attempt if there are as many.
Documented ==
    {[markers |-> {}, ends |-> "COMPLETED", at |-> 1],
     [markers |-> {"PERM_FAIL"}, ends |-> "FAILED", at |-> 1],
     [markers |-> {"TEMP_FAIL"}, ends |-> "FAILED", at |-> MaxAttempts],
     [markers |-> {"TEMP_FAIL", "TEMP_FAIL_ONCE"}, ends |-> "COMPLETED", at |-> 2],
     [markers |-> {"TEMP_FAIL", "TEMP_FAIL_TWICE"}, ends |-> "COMPLETED", at |-> 3]}

\* The visible history of a payment that ends so at attempt n.
History(ends, n) ==
    [i \in 1..(2 * n + 1) |->
        CASE i = 1 -> "PENDING"
          [] i = 2 * n + 1 -> ends
          [] i % 2 = 0 -> "PROCESSING"
          [] OTHER -> "RETRYING"]

Visible(p) == [i \in DOMAIN events[p] |-> events[p][i].toStatus]

(* A reference settles its payment as documented, with the documented      *)
(* history, though jobs come early, late and twice and workers, retries    *)
(* and dispatchers fail on the way; with fewer attempts than it takes to   *)
(* succeed the payment fails at the last.                                  *)
SettlesAsDocumented ==
    \A p \in Payments, row \in Documented :
        reference[p] = row.markers /\ status[p] \in Terminal =>
            IF row.at <= MaxAttempts
            THEN Visible(p) = History(row.ends, row.at)
            ELSE Visible(p) = History("FAILED", MaxAttempts)
=============================================================================
