--------------------------- MODULE BackgroundJobs ---------------------------
(***************************************************************************)
(* Durable background jobs of one kind (tenant, DataSource, job type): the *)
(* rows of background_jobs, the workers of several API replicas that claim *)
(* them under a lease, and the clients that enqueue and cancel.            *)
(*                                                                         *)
(* Every repository method is one transaction, hence one step; a failed    *)
(* one may have committed.  A worker's handler runs between two of them.   *)
(* Worker identities are fresh per process, so a crashed worker does not   *)
(* come back and its replacement is another member of Workers.             *)
(*                                                                         *)
(* Abstracted: clocks (a lease is live or expired, a retry delay is over   *)
(* or not), the order in which eligible rows are claimed, payloads (the    *)
(* cursor into the batches of semantic inference), job types without a     *)
(* handler, which no caller enqueues.                                      *)
(***************************************************************************)
EXTENDS Naturals, Sequences, FiniteSets

CONSTANTS
    Workers,        \* worker processes, one per replica start
    Nobody,         \* NULL worker_id
    Batches,        \* batches of semantic inference targets
    MaxAttempts,    \* max_attempts of every job
    MaxRequests,    \* bound: jobs enqueued by clients
    MaxFaults       \* bound: crashes, stalls and failed transactions

ASSUME WorkerAssumption == Nobody \notin Workers
ASSUME BoundAssumption ==
    /\ {Batches, MaxAttempts} \subseteq Nat \ {0}
    /\ {MaxRequests, MaxFaults} \subseteq Nat

VARIABLES
    jobs,       \* the background_jobs table, in order of insertion
    worker,     \* local state of each worker's run_once
    client,     \* the enqueueing request: its insert may find a conflict
    done,       \* history: batches whose proposals a handler has persisted
    faults      \* how many faults have been spent

vars == <<jobs, worker, client, done, faults>>

\* "purged" is a row that operational retention has deleted.
Statuses == {"queued", "running", "succeeded", "failed", "cancelled", "purged"}

Final == {"succeeded", "failed", "cancelled"}

\* "after" is the job this one continues, 0 for a client's job; "more" is the
\* result's remaining_target_count > 0.
Job == [status : Statuses, cursor : 1..Batches, attempts : Nat, due : BOOLEAN,
        expired : BOOLEAN, worker : Workers \cup {Nobody}, after : Nat, more : BOOLEAN]

WorkerSteps == {"idle", "handling", "completing", "failing", "dead"}

\* The claimed job as the worker read it, and the outcome of its handler.
Worker == [step : WorkerSteps, job : Nat, attempt : Nat, more : BOOLEAN]

NewJob(cursor, after) ==
    [status |-> "queued", cursor |-> cursor, attempts |-> 0, due |-> TRUE,
     expired |-> FALSE, worker |-> Nobody, after |-> after, more |-> FALSE]

Free == [step |-> "idle", job |-> 0, attempt |-> 0, more |-> FALSE]

Init ==
    /\ jobs = <<>>
    /\ worker = [w \in Workers |-> Free]
    /\ client = "ready"
    /\ done = {}
    /\ faults = 0

-----------------------------------------------------------------------------
(* Clients.                                                                *)

Rows == DOMAIN jobs
Active(j) == jobs[j].status \in {"queued", "running"}
SomeActive == \E j \in Rows : Active(j)

Requested == {j \in Rows : jobs[j].after = 0}

\* INSERT ... ON CONFLICT DO NOTHING against the unique index on active jobs.
Enqueue ==
    /\ client # "conflict"
    /\ Cardinality(Requested) < MaxRequests
    /\ \/ ~SomeActive /\ jobs' = Append(jobs, NewJob(1, 0)) /\ client' = "ready"
       \/ SomeActive /\ client' = "conflict" /\ UNCHANGED jobs
    /\ UNCHANGED <<worker, done, faults>>

\* The conflicting job is looked up; it may have finished in between, and then
\* the request fails.
ResolveConflict ==
    /\ client = "conflict"
    /\ client' = IF SomeActive THEN "ready" ELSE "refused"
    /\ UNCHANGED <<jobs, worker, done, faults>>

\* The row as the transactions that end a claim leave it.  Mutant: worker_id
\* survives the end of the claim.
Unclaimed_KeepsWorker(job, status) ==
    [job EXCEPT !.status = status, !.expired = FALSE]
Unclaimed(job, status) ==
    [job EXCEPT !.status = status, !.expired = FALSE, !.worker = Nobody]

Cancel(j) ==
    /\ jobs[j].status = "queued"
    /\ jobs' = [jobs EXCEPT ![j] = Unclaimed(jobs[j], "cancelled")]
    /\ UNCHANGED <<worker, client, done, faults>>

\* Retention deletes finished rows older than its cutoff.
Purge(j) ==
    /\ jobs[j].status \in Final
    /\ jobs' = [jobs EXCEPT ![j].status = "purged"]
    /\ UNCHANGED <<worker, client, done, faults>>

-----------------------------------------------------------------------------
(* A worker's run_once.                                                    *)

\* Mutant: expired leases are not recovered.
Claimable_QueuedOnly(j) == jobs[j].due /\ jobs[j].status = "queued"
Claimable(j) ==
    /\ jobs[j].due
    /\ jobs[j].status = "queued" \/ (jobs[j].status = "running" /\ jobs[j].expired)

Claim(w, j) ==
    /\ worker[w].step = "idle"
    /\ Claimable(j)
    /\ jobs' = [jobs EXCEPT ![j] = [jobs[j] EXCEPT
                    !.status = "running", !.worker = w, !.expired = FALSE, !.attempts = @ + 1]]
    /\ worker' = [worker EXCEPT ![w] = [Free EXCEPT !.step = "handling", !.job = j,
                                                    !.attempt = jobs[j].attempts + 1]]
    /\ UNCHANGED <<client, done, faults>>

\* infer_missing_descriptions for a batch: persisted, nothing left to infer, or
\* an error before or after its proposals were written.
Outcomes(batch) ==
    {[step |-> "completing", more |-> batch < Batches, persisted |-> TRUE],
     [step |-> "completing", more |-> FALSE, persisted |-> FALSE]}
    \cup {[step |-> "failing", more |-> FALSE, persisted |-> p] : p \in BOOLEAN}

Handle(w) ==
    /\ worker[w].step = "handling"
    /\ LET batch == jobs[worker[w].job].cursor
       IN  \E outcome \in Outcomes(batch) :
              /\ done' = IF outcome.persisted THEN done \cup {batch} ELSE done
              /\ worker' = [worker EXCEPT ![w] = [worker[w] EXCEPT
                                !.step = outcome.step, !.more = outcome.more]]
    /\ UNCHANGED <<jobs, client, faults>>

\* Mutant: the row is matched by id and status, not by worker.
Owns_AnyWorker(w) == worker[w].job \in Rows /\ jobs[worker[w].job].status = "running"
Owns(w) ==
    /\ worker[w].job \in Rows
    /\ jobs[worker[w].job].status = "running" /\ jobs[worker[w].job].worker = w

Succeeded(w) ==
    [jobs EXCEPT ![worker[w].job] =
        [Unclaimed(jobs[worker[w].job], "succeeded") EXCEPT !.more = worker[w].more]]

\* The continuation, in the transaction that finished the job.  Mutant: it is
\* inserted first and conflicts with the job that is still running.
Continued_InsertedFirst(w, table) == table
Continued(w, table) ==
    IF worker[w].more
    THEN Append(table, NewJob(table[worker[w].job].cursor + 1, worker[w].job))
    ELSE table

Finished(w) == jobs' = Continued(w, Succeeded(w))

Goto(w, step) == worker' = [worker EXCEPT ![w].step = step]
Return(w) == worker' = [worker EXCEPT ![w] = Free]

\* A refused completion is an error of the same try block, so the worker then
\* tries to fail the job.
Complete(w) ==
    /\ worker[w].step = "completing"
    /\ \/ Owns(w) /\ Finished(w) /\ Return(w)
       \/ ~Owns(w) /\ UNCHANGED jobs /\ Goto(w, "failing")
    /\ UNCHANGED <<client, done, faults>>

\* fail_background_job: another attempt after a delay, or the end.
Failed(w) ==
    LET j == worker[w].job
        again == jobs[j].attempts < MaxAttempts
    IN  jobs' = [jobs EXCEPT ![j] =
                    [Unclaimed(jobs[j], IF again THEN "queued" ELSE "failed")
                        EXCEPT !.due = ~again]]

Fail(w) ==
    /\ worker[w].step = "failing"
    /\ \/ Owns(w) /\ Failed(w)
       \/ ~Owns(w) /\ UNCHANGED jobs
    /\ Return(w)
    /\ UNCHANGED <<client, done, faults>>

\* The heartbeat thread renews the lease, even one that has expired.
Heartbeat(w) ==
    /\ worker[w].step \in {"handling", "completing", "failing"}
    /\ Owns(w) /\ jobs[worker[w].job].expired
    /\ jobs' = [jobs EXCEPT ![worker[w].job].expired = FALSE]
    /\ UNCHANGED <<worker, client, done, faults>>

-----------------------------------------------------------------------------
(* Time and faults.                                                        *)

\* The retry delay of a queued job is over.
BecomesDue(j) ==
    /\ jobs[j].status = "queued" /\ ~jobs[j].due
    /\ jobs' = [jobs EXCEPT ![j].due = TRUE]
    /\ UNCHANGED <<worker, client, done, faults>>

\* Some live worker still works on the row under its own claim, so that its
\* heartbeat renews the lease three times per period.
Attended(j) ==
    \E w \in Workers : /\ worker[w].job = j /\ Owns(w)
                       /\ worker[w].step \in {"handling", "completing", "failing"}

LeaseExpires(j) ==
    /\ jobs[j].status = "running" /\ ~jobs[j].expired
    /\ ~Attended(j)
    /\ jobs' = [jobs EXCEPT ![j].expired = TRUE]
    /\ UNCHANGED <<worker, client, done, faults>>

Fault == faults < MaxFaults /\ faults' = faults + 1 /\ UNCHANGED <<client, done>>

\* Heartbeats fail or the process stalls for longer than the lease.
Stall(j) ==
    /\ jobs[j].status = "running" /\ ~jobs[j].expired
    /\ Attended(j)
    /\ Fault
    /\ jobs' = [jobs EXCEPT ![j].expired = TRUE]
    /\ UNCHANGED worker

FaultyComplete(w) ==
    /\ worker[w].step = "completing"
    /\ Fault
    /\ UNCHANGED jobs \/ (Owns(w) /\ Finished(w))
    /\ Goto(w, "failing")

FaultyFail(w) ==
    /\ worker[w].step = "failing"
    /\ Fault
    /\ UNCHANGED jobs \/ (Owns(w) /\ Failed(w))
    /\ Return(w)

Crash(w) ==
    /\ worker[w].step # "dead"
    /\ Fault
    /\ worker' = [worker EXCEPT ![w] = [Free EXCEPT !.step = "dead"]]
    /\ UNCHANGED jobs

WorkerStep(w) ==
    (\E j \in Rows : Claim(w, j)) \/ Handle(w) \/ Complete(w) \/ Fail(w) \/ Heartbeat(w)

TimeStep == \E j \in Rows : BecomesDue(j) \/ LeaseExpires(j)

Next ==
    \/ Enqueue \/ ResolveConflict
    \/ \E j \in Rows : Cancel(j) \/ Purge(j) \/ Stall(j)
    \/ \E w \in Workers : WorkerStep(w) \/ FaultyComplete(w) \/ FaultyFail(w) \/ Crash(w)
    \/ TimeStep

Spec == Init /\ [][Next]_vars

\* Workers poll and their handlers return; time passes.
FairSpec == Spec /\ WF_vars(TimeStep) /\ \A w \in Workers : WF_vars(WorkerStep(w))

-----------------------------------------------------------------------------
(* Properties.                                                             *)

\* Types, and the row format: exactly the running rows carry a worker.
TypeOK ==
    /\ jobs \in Seq(Job)
    /\ \A j \in Rows : jobs[j].worker # Nobody <=> jobs[j].status = "running"
    /\ worker \in [Workers -> Worker]
    /\ client \in {"ready", "conflict", "refused"}
    /\ done \subseteq 1..Batches
    /\ faults \in 0..MaxFaults

\* A worker that lost its lease cannot end the claim of its successor: a
\* running job is finished, failed or put back only by the worker that holds
\* its latest attempt, and the outcome of a finished job stays, whichever of a
\* late worker, a retry and a cancellation came first
\* (complete_background_job, fail_background_job).
LateWorkersAreRefused ==
    [][\A j \in Rows :
          /\ jobs[j].status = "running" /\ jobs'[j].status # "running" =>
                \E w \in Workers :
                    /\ worker'[w] # worker[w]
                    /\ worker[w].job = j /\ worker[w].attempt = jobs[j].attempts
          /\ jobs[j].status \in Final =>
                jobs'[j] \in {jobs[j], [jobs[j] EXCEPT !.status = "purged"]}]_vars

\* Continuations are enqueued transactionally: a job that succeeded with
\* targets left has exactly one continuation, whatever crashed, was retried or
\* ran twice, and only such a job has one; so no batch is skipped, and a job
\* at a cursor exists only after a handler persisted the batch before it
\* (complete_background_job).
ContinuationIsDurable ==
    \A j \in Rows :
        /\ Cardinality({k \in Rows : jobs[k].after = j}) = IF jobs[j].more THEN 1 ELSE 0
        /\ jobs[j].cursor > 1 => jobs[j].cursor - 1 \in done

\* Crash recovery: as long as one worker survives, no job stays queued or running for
\* ever, even when its worker died (claim_background_job).
JobsFinish ==
    \A j \in 1..(MaxRequests * Batches) :
        (j \in Rows /\ Active(j)) ~>
            ((j \in Rows /\ ~Active(j)) \/ \A w \in Workers : worker[w].step = "dead")

\* "Bounded retry" (docs/implementation-status.md:50): no job is attempted more
\* often than its max_attempts.
AttemptsAreBounded == \A j \in Rows : jobs[j].attempts <= MaxAttempts

=============================================================================
