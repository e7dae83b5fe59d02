------------------------------- MODULE JobQueue -------------------------------
(***************************************************************************)
(* BullMQ, not part of this code, by what the code relies on: jobs have an *)
(* identifier chosen by the publisher, adding an identifier that exists    *)
(* does nothing, finished jobs are kept, a job is handed to one worker at  *)
(* a time under a lock, and a job whose lock lapses is handed out again,   *)
(* MaxStalledCount times.                                                  *)
(***************************************************************************)
EXTENDS Naturals

CONSTANTS
    NULL,           \* no worker
    JobIds,
    Workers,        \* concurrent calls of the job handler
    MaxStalledCount \* the limit of takeovers of a job (1 by default)

VARIABLES
    jobState, jobOwner,     \* per identifier its state and who holds its lock
    stalledCount            \* and how often it was taken over

QueueInit ==
    /\ jobState = [id \in JobIds |-> "absent"]
    /\ jobOwner = [id \in JobIds |-> NULL]
    /\ stalledCount = [id \in JobIds |-> 0]

\* Queue.add: no effect when the identifier exists, whatever became of it.
Add(id, state) ==
    /\ jobState' = [jobState EXCEPT ![id] = IF @ = "absent" THEN state ELSE @]
    /\ UNCHANGED <<jobOwner, stalledCount>>

\* Its clock need not agree with the workers': a job may come early.
PromoteJob(id) ==
    /\ jobState[id] = "delayed"
    /\ jobState' = [jobState EXCEPT ![id] = "waiting"]
    /\ UNCHANGED <<jobOwner, stalledCount>>

HandOut(w, id) ==
    /\ jobState[id] = "waiting"
    /\ jobState' = [jobState EXCEPT ![id] = "active"]
    /\ jobOwner' = [jobOwner EXCEPT ![id] = w]
    /\ UNCHANGED stalledCount

\* Nobody renews the lock of the job, or its worker did not in time.
LockLapses(id) ==
    /\ jobState[id] = "active"
    /\ jobOwner' = [jobOwner EXCEPT ![id] = NULL]
    /\ IF stalledCount[id] < MaxStalledCount
       THEN /\ jobState' = [jobState EXCEPT ![id] = "waiting"]
            /\ stalledCount' = [stalledCount EXCEPT ![id] = @ + 1]
       ELSE /\ jobState' = [jobState EXCEPT ![id] = "failed"]
            /\ UNCHANGED stalledCount

\* Only the holder of the lock can move the job on.
MoveJob(w, id, state) ==
    /\ IF jobOwner[id] = w
       THEN /\ jobState' = [jobState EXCEPT ![id] = state]
            /\ jobOwner' = [jobOwner EXCEPT ![id] = NULL]
       ELSE UNCHANGED <<jobState, jobOwner>>
    /\ UNCHANGED stalledCount

JobStates == {"absent", "waiting", "delayed", "active", "completed", "failed"}

QueueTypeOK ==
    /\ jobState \in [JobIds -> JobStates]
    /\ jobOwner \in [JobIds -> Workers \cup {NULL}]
    /\ stalledCount \in [JobIds -> 0..MaxStalledCount]
=============================================================================
