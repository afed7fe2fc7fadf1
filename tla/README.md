# SQLVerity AI: TLA+ models and proofs

SQLVerity AI turns questions into SQL that people inspect, approve and run:

    question -> governed context -> SQL proposal -> validation -> EXPLAIN -> approval -> read-only result

Several API replicas serve it over one catalog database. Each replica has a pool of
request threads, a job worker thread and, per dialect, an executor for the analysed
database. Replicas share nothing but the catalog, so the difficult behaviour lives in the
order in which their transactions, their reads before those transactions and their calls to
other systems interleave, and in what a crash or a lost answer leaves behind. That is what
these modules model.

Paths below are relative to the repository. `repository.py` is
`packages/catalog/sqlverity_catalog/repository.py`, `execution.py` is
`packages/query/sqlverity_query/execution.py`.

## Inventory

| Component | State | Operations | What makes it correct |
|---|---|---|---|
| Query execution (`execution.py`, `query_state.py`) | `query_requests` row: state, EXPLAIN revision and plan, approval snapshot | explain, approve, execute, cancel | a ticket's statement runs at most once, it is the approved one, under the approved policy; final states stay |
| Read-only executors (`connectors/*_executor.py`) | per process: request id -> live connection | explain, execute, cancel | one statement per request and process; cancellation reaches it |
| LLM gateway and budget (`gateway.py`, `cost_engine`, `budget.py`) | account row, reservations, usage events, budgets | reserve, start, settle, mark uncertain, release, reconcile | no overcommitment; every call counted once; money handed out is not silently freed |
| Background jobs (`jobs/worker.py`) | `background_jobs` rows, worker identity | enqueue, claim, heartbeat, complete and continue, fail, cancel | late workers change nothing; continuations neither lost nor doubled; every job ends |
| Request quotas (`security/quota.py`) | window counters and leases per scope | acquire, renew, run with lease, release | both quotas hold across replicas; leases are freed by their owners |
| Retention (`operations/retention.py`) | none of its own | purge finished jobs and idle quota rows | never frees a live lease, never removes an active job |
| Catalog ingestion and explorer (`catalog/ingestion.py`, `explorer.py`, `manual_schema.py`, `ddl_import.py`) | versions, objects, columns, relationships | introspect, import, ingest a snapshot, explore | what is bound to a version fits that version, though a version is the latest before it is complete |
| Semantic governance (`governance.py`, `business_concepts.py`, `analytics_semantics.py`, `semantic_inference.py`) | immutable definitions, one current resolution per key | propose, correct, infer, all with an expected timestamp | authority never falls; what a definition rests on stands; confirmed names are unique |
| Query memory (`query/memory.py`) | none of its own: concepts and the query ticket | correct a mapping, interpret a correction in words | the ticket made from the old mapping does not survive |
| Authorized queries (`authorized_query/service.py`) | numbered definitions, each with its catalog version | register | the order of definitions is that of their versions |
| Learning loop (`learning/*`) | corrected examples, final feedback, golden candidates, reviews: all append-only | correct, record feedback, promote, review | one active example per question; candidates are earned |
| Context retrieval (`retrieval/context_builder.py`) | none | build context | what it selects hangs together though it reads nine times |
| SQL generation (`query/generation.py`, `privacy.py`) | preflight confirmations, transfer receipts | preflight, generate, repair | nothing leaves without a confirmation that matches it, each used once |
| Provider transport and adapters (`provider_http.py`, `*_provider.py`) | circuit breaker per process | post with retry, parse the answer | an open breaker bounds what still goes out, and closes; complete answers are delivered, tokens counted once |
| SQL validator (`sql_engine/validator.py`) | none | validate | outside these models: a pure function over syntax trees |
| Authentication and access, connectors, result processing, backup, evaluation, observability, web console | various | | outside these models, see "Not modelled" |

Interactions: the API middleware takes quota leases around every request. The query
endpoints call the execution service on worker threads, which calls the repository (one
process-wide lock, one transaction per writing method) and an executor. Generation and
semantic inference call the gateway, which reserves money before it calls a provider.
Inference also runs as a background job, one batch per job, each continued by the next.
Ingestion, inference, stewards, query memory and the registration of authorized queries all
write meaning through the same propose methods; generation and the learning loop read it
back, bound to the catalog version that was the latest when they looked. Retention and
operators act on the same tables from outside.

## Modules

| Module | Models | Runs |
|---|---|---|
| `QueryState` | states and transition table of `query_state.py` | |
| `QueryExecution` | the execution service, the ticket's repository methods, the executors' registry | `ticket_*` |
| `QueryTicket` | abstract ticket: one permit, spent on the granted statement | refined by `QueryExecution` |
| `QueryExecutionProofs` | theorems about `QueryExecution` | |
| `QueryApprovalProofs` | further theorems about `QueryExecution`: what is approved is what runs, and the refinement of `QueryTicket` | |
| `LLMBudget` | `LLMGateway.generate_structured` and the budget methods of the repository | `llm_budget` |
| `LLMBudgetProofs` | theorems about `LLMBudget` | |
| `BackgroundJobs` | job worker, job methods of the repository, enqueueing clients | `background_jobs`, `jobs_attempts` |
| `BackgroundJobsProofs` | theorems about `BackgroundJobs` | |
| `RequestQuota` | quota manager and quota methods of the repository | `request_quota` |
| `RequestQuotaProofs` | theorems about `RequestQuota` | |
| `SqlGeneration` | preflight and generation with single-use confirmations, egress policies, transfer receipts, ticket creation | `sql_generation`, `generation_policy` |
| `SqlGenerationProofs` | theorems about `SqlGeneration` | |
| `CatalogStore` | catalog versions, the repository lock, how a service reads the latest version | |
| `SemanticGovernance` | proposals, corrections and inference of descriptions, concepts, metrics, rules | `governance_names` |
| `CatalogIngestion` | introspection, manual schema, DDL import, explorer | |
| `AuthorizedQueries` | registration of authorized queries | |
| `LearningLoop` | corrected examples, feedback, golden candidates, reviews | |
| `ContextRetrieval` | the context builder | |
| `IntentMemory` | corrections of a mapping, and the ticket they concern | |
| `CatalogServices` | the composition of the seven modules above | `catalog_services` |
| `CatalogServicesProofs` | theorems about `CatalogServices` | |
| `ProviderTransport` | retries, circuit breaker and adapters of the LLM providers | `provider_transport` |
| `ProviderTransportProofs` | theorems about `ProviderTransport` | |
| `MC*` | deployments and function-valued constants for TLC | |

### QueryExecution

`ticket` is the row (columns grouped: `plan` is what EXPLAIN wrote, `approval` the approval
snapshot, digests replaced by what they digest), `policy` the cost policy with its revision,
`catalog` the latest catalog version, `active` each replica's executor registry for this
request, `op` the local variables and the program counter of the call a worker is in.

A service call is split where other actors can intervene: `Load` (read the row),
`Prepare*` (catalog version, revalidation, binding, comparison with the approval),
`Check*Policy`, `ReadForTransition` (the read and the checks at the head of
`transition_query_request`), then one of `CommitTransition`, `TransitionPolicyChanged`,
`TransitionConflict` (its transaction), `StartStatement`/`FinishStatement`/`StatementFails`
(the executor), `RecordExplain`, `LookUpFailed`, `ProcessResult`, `SignalDatabase`. Every
early return and exception is a disjunct that ends in `Finish`. `CatalogFree` is the
`@_locked` decorator: it orders threads of one replica and nothing else.

`SqlOf` gives each replica the SQL its validator and row limit make of the stored text, so
that a rolling configuration change is covered. Capabilities and secrets are constants of
the data source. Faults: a catalog call that fails (`CatalogFault`), a replica that stops
(`Crash`).

### LLMBudget

One tenant and currency. Each call has at most one reservation and one usage event, indexed
by the call. The account row is a lock held to the end of the transaction that updated it;
admission reads the balance after taking it and is three steps (`LockAccount`,
`ReadBalance`, `InsertHold`), the other transactions are one. `Fault*` actions let a
transaction fail or commit unnoticed, `Crash` stops the process anywhere. `aged` are holds
not updated for an hour, which an operator may reconcile; `MonthEnds` moves the calendar.

### BackgroundJobs

One (tenant, DataSource, job type), so the unique index allows one active job. Rows are in
insertion order; a lease is live or expired. Worker identities contain the process id and a
random part, so a restarted worker is another member of `Workers`. `Stall` expires the lease
of a worker that still works (failed heartbeats, a suspended process); without it a lease
expires only when nobody attends to the row.

### RequestQuota

`Requests` are clients that send one request after another, each a fresh lease id as far as
the tables can tell. A request reads its replica's clock before it waits for the scope's row
lock and uses that reading in the transaction (`req.now`, `req.beatNow`), however late it runs.
`docs/operations-runbook.md:81` asks for synchronized clocks; the model lets them differ:
`clock` is the one furthest ahead, a reading is up to `Lag` ticks behind it, and a lease counts as
alive until that clock has passed it. From then on a replica that is ahead may delete it although its owner
still thinks it lives, so the properties promise nothing of it; the owner's heartbeat then stops the
work (`LostWorkStops`). Acquisition is two steps under the lock (count, insert). The heartbeat task is cancelled with
the operation, but the thread of a renewal under way is not: it may commit while the scopes are released, or after.
One bound: a client waits for such a thread before it sends again, as the model would otherwise
need a renewal for each request it ever sent. `Purge` is retention with any past cutoff and cascades to the
leases.

### SqlGeneration

`SQLGenerationService.preflight` and `.generate`, below `query/sqlverity_query/`, with
`PreflightConfirmationManager` (`privacy.py`) and the policy decision of the gateway.
`policies` are the rows of `provider_egress_policies` (tenant-wide and of the DataSource,
which hides the other), `row` the status of each confirmation token, `receipts` the transfer
receipts, `tickets` the catalog version of each new query request; `calls` is a history of
what was sent. `preflight` and `generation` hold the local variables of the requests in
progress; `seen` is what `_assemble_preflight` computed.

A preflight is `BuildContext`, `EvaluatePreflight`, `IssueConfirmation`, `RecordPreflight`; a
generation is `StartGeneration` (context), `VerifyPreflight`, `ConsumeConfirmation` or
`RejectConfirmation`, `SendPrompt` or `GatewayRefuses`, `SemanticFallback`, `AnswerUnusable`
or `CreateTicket`, `RecordConfirmed`; the refusals share `RecordRefusal`. The policy is read
three times (preflight, verification, gateway) and may differ each time.

A policy is reduced to its ceiling: one that denies for another reason has ceiling 0, and
ranks start at 1. `updated_at`, which the binding contains, is a version number: two updates
of a policy are assumed to have different timestamps. The HMAC is left out: a client presents
tokens it was given, with any question. Each replica has its own clock for the expiry. There
are no fault actions: no code resumes or retries a request, so a request lost at any point
(a crash, a failed transaction, an answer that never arrives) is one that takes no further
step, which the specification, without fairness, allows everywhere. The budget, retrieval,
the SQL parser and the proposal's text are inputs (`GatewayRefuses`, `Rank`,
`AnswerUnusable`).

### CatalogStore and CatalogServices

`CatalogStore` holds what the catalog services share. `versions` are the catalog versions in
order with what they contain so far; `holder` is, per process, the thread inside a repository
method that reads and then writes in a transaction of its own (`_locked` is per process, so
another process may write in between); `view` is what a service call has read of the latest
version: its number, its tables and its columns are three repository methods, so three steps.
A column whose table was not read is the `KeyError` of the services' name lookup (`lost`).
`calls` bounds the service calls of each thread.

`CatalogServices` composes `SemanticGovernance`, `CatalogIngestion`, `AuthorizedQueries`,
`LearningLoop`, `ContextRetrieval` and `IntentMemory`, which extend one another in that
order of need. Each thread serves one kind of call; all of them act on the same versions,
resolutions and examples.

* `SemanticGovernance`: `resolution` is the current row per key (status, payload, the catalog
  version it names, the timestamp a correction must repeat); `proposal` the call of each
  thread. A call looks at the catalog, checks references, dependencies and unique names (each
  its own method), then reads the resolution, decides by the epistemic ranking (`Resolved`) and writes.
  Descriptions, concepts, metrics and rules differ in their checks only; what a metric or a rule
  rests on belongs to its payload (`DepsOf[k][p]`), so a correction may change it. `Inferers` run one
  batch of description inference, whose answer (`Phrases`) arrives outside every lock.
* `CatalogIngestion`: `ingest_snapshot` numbers a version and then inserts objects, columns,
  relationships and imported comments one by one; it may fail after each, and the version stays
  the latest as far as it got. Introspection, manual schemas and DDL scripts differ in how a
  snapshot comes about and in what refuses it.
* `AuthorizedQueries`: the draft, the ingestion of the virtual table and the insertion of the
  definition, which must still be the next number.
* `LearningLoop`: every call makes its checks in several methods and inserts in a last one,
  where the unique indexes on revisions, feedback, candidates and reviews decide.
* `ContextRetrieval`: the nine reads, in the code's order, then one pure selection: seeds by
  name, likeness and word (of the examples only the first is tried once governed meaning fills
  the limit), breadth-first expansion over relationships, columns up to a target
  and the final filters. Scores are abstracted to any order among equals.
* `IntentMemory`: a correction becomes a confirmed concept, then the ticket is cancelled or
  returned according to the state the correction then reads, while its requester goes on with
  it. The ticket moves by the table of `QueryState`.

### ProviderTransport

One provider in one process: `failures`, `tripped` and `remaining` are the breaker's count and
its open period, `call` the call of each thread, `burst` a history. The breaker is asked in
`Begin`, once per call; `Send`, `NoAnswer` (a transient status or none), `Answer` (any other
status), `RecordSuccess` and `RecordFailure` follow. The adapters (`OllamaResponse` and so on)
are what each makes of a body: whether it accepts it and how it counts tokens. OpenAI's SDK
retries by itself with no breaker.

## Runs

| Run | Instance | Shows |
|---|---|---|
| `ticket_replicas` | 3 threads on 2 replicas with different SQL, 2 estimates, 1 EXPLAIN, 1 policy change, 1 fault; 2.3 million states | at most one execution, of the approved statement, under the approved policy; each transition commits what its own checks saw; a late EXPLAIN never moves under an approval; the abstract ticket is implemented |
| `ticket_threads` | 2 threads in one process, parameterised ticket with 2 bindings, 2 policies, 2 catalog versions, fair | in one process a fresh approval is not withdrawn; an admitted execution settles |
| `ticket_reopen` | 2 replicas | counterexample: a fresh approval is withdrawn |
| `llm_budget` | 2 calls of 2 units, a budget of 3, charges 0, 1, 3 (below and above the estimate), 2 months, 1 fault | admission fits the budget; ledger agrees; no silent release; no result without usage; holds leave flight |
| `background_jobs` | 2 workers, 2 batches, 2 attempts, 2 client jobs, 1 fault | late workers refused and finished jobs left alone; continuations durable, once and in order; jobs finish |
| `jobs_attempts` | 1 batch, 1 attempt | counterexample: more attempts than allowed |
| `sql_generation` | 2 preflights, 2 generations, 2 replicas, 2 catalog versions (the second classifies a column higher), ceilings 0 to 2, 2 events; symmetric; 4.4 million states | a confirmation serves one generation, which is the one disclosed; calls keep to the number disclosed, follow the receipt, and receipts tell the truth; tickets belong to the catalog version confirmed |
| `generation_policy` | the same | counterexample: a prompt is sent that no confirmation covers |
| `request_quota` | 2 clients, 2 scopes (one slot for the user, one request per window for the tenant), window and TTL of 2 ticks, clocks 1 tick apart, 3 requests, 1 fault, fair; 1.35 million states | both quotas; leases follow their request, all or none; owners free their leases; work whose lease is gone stops |
| `catalog_services` | 19 deployments (`MCServices`) of at most 4 calls each, threads in one process or in two, over up to 4 tables, 3 columns, 3 relationships, 5 keys; 314 265 states | authority never falls; definitions rest on confirmed ground and on objects of their version; definitions of authorized queries follow catalog versions; one active example; candidates earned; contexts hang together, expand to the nearest tables and keep what matched; pending tickets are invalidated |
| `governance_names` | 2 stewards of one process, 1 call each | counterexample: one business term is confirmed for two concepts |
| `provider_transport` | 3 threads, 2 attempts, threshold 2, recovery of 2 ticks, 5 adapters, 3 bodies, fair; 1.8 million states | an open breaker bounds what goes out; it recovers; complete answers are delivered with tokens counted once |

Why the bounds are enough. A race over a ticket needs at most two calls, plus an observer;
the third thread of `ticket_replicas` adds threads that share a lock next to one that does
not. One EXPLAIN and one policy change give every property both an old and a new revision,
and the withdrawal of an approval needs the second policy that `ticket_threads` and
`ticket_reopen` have. Two calls of 2 against a budget of 3 fit one at a time, so every
admission matters, and charges 1 and 3 lie on both sides of the estimate. Two batches are the
shortest chain of continuations; two attempts are a retry and an exhaustion. Two clients and
three requests are a holder, a competitor and a replacement, across two windows. One fault
separates every "committed but not acknowledged" case; a second one would only repeat it for
another actor. The safety properties of `request_quota` were also checked once with four ticks
(6.2 million states) without a difference. In `sql_generation` two tokens and two requests are one confirmation
presented twice and two confirmations competing; the two events are any two of policy
updates, a publication and expiries, so that a policy can change and change back, or change
while a confirmation expires. `generation.py` has no fairness-dependent promise, so the module
states none.

In `catalog_services` a deployment is one workload: two or three services with one to three
calls each. Services that write or read the same rows meet in some deployment (registrations
only each other: for the rest of the catalog a registration is an ingestion), since each hazard
of the catalog needs one call that has checked and one that writes before it writes; a third
call where the checked thing must first be there. The catalogs are the smallest on which
the selections differ: a chain of four tables has neighbours at one hop, at two, and beyond the
bound of three tables, and a term with two meanings is one that can be corrected and one that can
collide. In `provider_transport` two failures open the breaker while a third thread is still
under way, two ticks separate a breaker about to close from one just opened, and the bodies
are one every adapter accepts, one whose cached tokens exceed its input (an error for some,
ordinary for Claude) and an unfinished one. All bounds (`Max*`) are constants and guard only the action that
counts them.

`CHECK_DEADLOCK FALSE` is set in every run: a ticket in a final state with its bounds used up,
finished calls, jobs, requests and generations legitimately stop.

### Fairness

* `ticket_threads`: `WF_vars(Progress(w))`. A thread that has begun a call is scheduled and
  statements end because the executor sets a statement timeout on the server. Nothing is
  assumed of new calls. The run has no faults: a ticket whose replica dies while executing
  stays `executing` (see below).
* `llm_budget`: `WF_vars(CallStep(c))`. A live process goes on and providers have a timeout.
* `background_jobs`: weak fairness of each worker's loop (it polls) and of time. Faults are
  bounded, so a worker that neither dies nor stalls for ever remains unless all died.
* `request_quota`: weak fairness of `Admit` (a transaction that holds a row lock ends) and of the
  start of a renewal (the heartbeat sleeps a third of the TTL), strong fairness of
  `FinishRenewal`: row locks are released by every transaction, but other requests may take them
  again in between, and the database queues waiters. Nothing is assumed of the operation itself.
* `provider_transport`: `WF_vars(Tick)`: time passes. No thread is assumed to be scheduled, so
  calls under way may fail at any time, and may never.
* `catalog_services` and `sql_generation` state no fairness: their calls answer or stop, and
  nothing resumes them.

## Where the code differs from what it says

1. `ticket_reopen`. `execution.py:283` reopens "only a still-approved request bound to an
   obsolete policy", and `repository.py:940` refuses anything else, but judges a copy read
   before the transaction, and the UPDATE compares only state and EXPLAIN revision. Replica A
   meets the changed policy and reads the approved row; replica B reopens it and it is approved
   again under the new policy, with the same EXPLAIN revision; A's UPDATE matches and withdraws
   the new approval. `ticket_threads` shows the same property holds in one process.
2. `jobs_attempts`. `docs/implementation-status.md:50` promises bounded retry;
   `claim_background_job` takes over expired leases without looking at `max_attempts`.
3. `generation_policy`. ADR-023 (lines 46-47) requires a new preflight when the policy changes.
   `generate` decides on the policy, and the gateway decides again on the policy it then reads:
   a request found blocked, which `generation.py:294` passes to the gateway only for the error,
   is sent without any confirmation if the policy was relaxed in between, and its receipt says
   that nothing was.
4. `governance_names`. ADR-013 (lines 36-37): "Confirming a term already owned by another
   confirmed concept in the same DataSource fails with an explicit conflict"; ADR-014 (line 30)
   says it of metrics and rules. The names are compared in one repository method and the concept
   is written in a later one. Two stewards of one process confirm one term for two concepts, and
   the term then matches neither.

Smaller observations without a run, each visible in a module:

* Tickets: `cancel` asks the executor only if the copy it loaded was executing, so a ticket that
  starts meanwhile is cancelled in the catalog only and its statement runs to its end or its
  timeout, its rows discarded. The catalog version is compared once, in `_prepare`; the
  statement may be sent after the catalog has moved. An execution that starts while its
  EXPLAIN is still in the executor's registry fails as already active. ADR-007 line 21 allows
  EXPLAIN for approved tickets, the code only for previews. A replica that dies while it
  executes leaves its ticket `executing`; no code recovers it.
* Generation: a provider call that fails after dispatch leaves no terminal receipt, although
  ADR-023 item 7 records every terminal confirmation outcome.
* Budget: a call refused by the open breaker, which was never sent, leaves its hold uncertain
  until an operator reconciles it; a model without pricing is dispatched although a budget is
  created between the question and the call.
* Jobs and quotas: `heartbeat_background_job` renews an expired lease as long as nobody has
  claimed it; the unique index on active jobs treats rows without a DataSource as distinct; a
  retention cutoff inside the current rate window resets that window's counter, which is why
  `QuotasHold` exempts windows whose counter retention deleted.
* Governance: between processes the read that decides and the write that follows can be
  separated, and a confirmation may be overwritten unseen; `AuthorityHolds` and the dependencies in
  `DefinitionsStand` are therefore stated for one process.
* Catalog: services that read a version while it is ingested may meet a column without its
  table and fail; a failed ingestion leaves an incomplete version the latest.
* Learning: an example can be promoted although it was superseded after the check.
* Retrieval: a seed is appended before the number of seeds is compared, so that a limit is
  exceeded by what one match brings with it (`context_builder.py:337-354`; ADR-005:19-20).
* Query memory: the mapping is remembered before the ticket is touched; if the transition fails,
  the request fails although the correction stands (`memory.py:193`).
* Breaker: it is asked once per call, so retries go on while it is open, all threads may probe
  at once after recovery, a late success of an old call closes it, and a 4xx counts as success.

## Proofs

Checked by TLAPS for all values of the constants that satisfy the modules' assumptions.

**QueryExecutionProofs.** `TypeCorrect` proves `TypeOK /\ Shape`. `Shape` relates the program
counter of a call to its local variables (what a call at `commit` has read, which target a
kind of call pursues) and says that an approval exists in every state that needs one; types
alone are not inductive because `CommitTransition` copies an approval out of the row it
read. `AtMostOnce` proves `StartedAtMostOnce`. Its invariant counts who may still send: at
most one worker is an execution past admission and before dispatch, none if a statement has
been sent, and the row is then past `approved`, from which no transition leads back. The
conditional UPDATE is what gives uniqueness: it re-checks that the row is still `approved`.

**QueryApprovalProofs.** `ExplainBound` (`ApprovalBindsExplain`), `ApprovedStatement`
(`RunsWhatWasApproved`), `ChecksStillHold` (`CommitsWhatWasChecked`) and `Refinement`
(`ImplementsTicket`), all from one invariant, `CopiesAreSound`. They assume `NullAssumption`,
that the absent approval is not an approval. A call carries two copies of the row, one read when
the call begins and one read before its transaction, and the transaction only compares the state
and the EXPLAIN revision of the second with the row. A ticket can have been reopened and approved again
on another replica in between, with the same state and the same EXPLAIN, so that comparison
alone does not say that the copied approval is the one in force. `Snapshot` says what an old copy still
knows: an EXPLAIN revision is never used twice; once execution is admitted the approval stays;
while no policy exists an approval is never withdrawn; and an approval in force is not older
than the copy's. `Checked` says, per step, what the call has compared on its copies, and together
they give that it holds of the row too. In the refinement the permit is open while a worker is
between admission and dispatch; a commit maps to `Approve`, `Withdraw`, `Admit`, `Answer`,
`Fail` or `Cancel`, the start of the statement to `Send`, a crash or a failed start to `Drop`, and every
other step to a stutter.

**LLMBudgetProofs.** `TypeCorrect`; `LedgerAgrees` (`CountedOnce`); `NoSilentRelease`
(`DispatchedMoneyIsKept`), whose invariant says that a call at the clean-up step that
releases was never sent; `NoUnaccountedResult` (`ResultsAreAccounted`), whose invariant says
that a call at `record` has no reservation and a call that returned has settled;
`ClosedIsFinal` (`ClosedHoldsStay`, proved and not run), an action property from the same
invariants; `BudgetsHold` (`AdmissionFits`, an action property): the account row is held by one
call from its reading of the balance to its insertion (`Inside`), any step taken meanwhile either
leaves the balance as it is or needs the row free (`MoneyMoves`), so room that was found is still
there (`Room`) when the hold adds its estimate. The balance is a sum over the calls, which the
model writes as a fold. `Total` is that sum as a function on the sets of calls; it is shown to exist
(`SumsExist`), to be the fold's value (`FoldIsTotal`) and not to depend on the order in which
elements are taken (`TotalWithout`), each from the least natural number at which it would go wrong.
`CallAssumption` says that the calls are finitely many, as rows of a table are.

**BackgroundJobsProofs.** `TypeCorrect`; `ContinuationsAreDurable` (`ContinuationIsDurable`);
`LateWorkersRefused` (`LateWorkersAreRefused`), for any workers, batches, attempts and faults. The
invariant relates the table to itself and to the workers: a row that continues a job names one that
left targets, only a succeeded job (or a purged one) has left any, and no two rows continue the same
job. Completion needs all three: nothing continued the job while it ran, so the row it appends is the
only one. `WorkerSound` says that a worker whose name is still in its row holds the latest attempt, and
that a handler which left targets persisted its batch and has another one to go to. The first holds because every
transaction either ends the claim, which clears the name, or claims, which puts the claimant's in
its place; a renewal does neither.

**RequestQuotaProofs.** `TypeCorrect`; `LeasesAreOwned` (`OnlyOwnerFreesLiveLease`);
`LeasesBelong` (`LeasesFollowRequests`); `QuotasAreBounds` (`QuotasHold`), for any requests, scopes,
limits, lease lengths, faults and `Lag` (clocks any number of ticks apart), assuming that there are finitely
many requests and that a missing counter is not a counter. A live lease is one that no replica's clock has
passed; what becomes of a lease that one clock has passed and another has not is not claimed. The number of live leases is not inductive: a renewal brings an expired
one back. What is, is that the lease rows of a scope, dead or alive, never exceed its slots,
because an admission deletes the expired rows before it inserts its own and a renewal only updates. That
count is still right at the insert since a request that has counted holds the scope's
row. The counter of a window covers its admissions, and no later window has admitted while an earlier
one can still be counted, unless the counter was purged. For the leases of one request there is one expiry,
and a lease is missing only when it is past: a renewal finds all of them or changes none, and no reading
is ahead of the clock that is furthest ahead.

**SqlGenerationProofs.** `TypeCorrect`; `SingleUse` (`ConfirmedOnce`); `Disclosed`
(`ConfirmedAsDisclosed`); `Ticketed` (`TicketsAreConfirmed`); `CallsTold`
(`CallsAreDisclosed`). Four invariants carry them.
`Tokens`: the row of a token that confirmed a generation is used or deleted, and one token
confirmed at most one generation; the conditional update that consumes a row needs it open, no
step opens it again because its preflight has passed the issuing step. `Proceeding`: a
request at a step that leads to a ticket is confirmed. `Versions`: a version
number that a decision has seen belongs to one policy content for ever (`changes` bounds all
versions in use, and an update takes a new one), so that the binding, which contains the
version but neither the ceiling nor the redactions, determines the decision. `Story`: the step of a
request says which calls it has made, no attempt made two, a second attempt is of a request that
asked for governed semantics, and a request holds a token only after its receipt. With single use, all calls under
a confirmation are those of one request, hence at most one per attempt.

**ProviderTransportProofs.** `TypeCorrect`; `BurstBounded` (`BurstIsBounded`);
`AnswersDelivered` (`AnswersAreDelivered`), for any threads, attempts, thresholds and bodies. Type
correctness is proved together with `CallsAreSound`: a send counts one attempt more, which stays in
range because a call that is ready to send has one left. The
invariant bounds, for each thread, what it has sent since the breaker opened plus what its call
may still send by `MaxAttempts`: the breaker is asked once, so a call that has begun keeps its attempts
and no call begins. The thread whose failure opened the breaker has none left, which gives the one
that sends nothing. `ResponseType` proves of each adapter that it answers exactly the complete
bodies and that input is cached plus uncached.

**CatalogServicesProofs.** Every property that `catalog_services` checks, for any threads,
processes, tables, columns, relationships, keys, scripts and calls. `Next` composes nine kinds of
call, so the proof first says which steps change which variables (*Frame* lemmas) and then
argues variable by variable. The invariants, which TLC also checked on the run's instance:

* `Inv == TypeOK /\ Sound /\ Learnt /\ Built` (`CatalogTypes`). Versions only grow (`Grown`) and
  examples are only appended (`Longer`), so what a call has read stays true of what is there.
  `Sound` says this of views, proposals, inferences and ingestions (the objects they
  name are in the version they name) and that a thread serves one call (`OneCall`), because the name
  lookup of a proposal may use a view only if the proposal's own call filled it.
* `Learnt` gives `Chains` (`OneActiveExample`) and `Earning` (`CandidatesAreEarned`). It says what each
  lesson knows at each step of its predecessor and its feedback. Two corrections may hold the same
  predecessor, or none, at once: that every question that has an example has one that supersedes
  nothing is what makes the unique indexes refuse the second.
* `Built` gives `Hanging` (`ContextHangsTogether`) and `Keeping` (`MatchedMeaningIsKept`): all that
  a reading holds is of the version read first, the rules of a metric are read after it, and each
  filter of the selection removes only what speaks of something outside.
* `Registered` gives `Registrations` (`DefinitionsFollowCatalogs`): while the number a registration
  drafted is still the next one, its version is later than those of all definitions. A registration that
  lost the race has a number that is no longer free.
* `Answered` gives `Invalidation` (`PendingTicketsAreInvalidated`): a ticket that has left the pending
  states never returns to them, so the copy a correction read may be old but not wrong.
* `Locked`, `Fresh` and `Settled` (`Governance`) give `Authority` (`AuthorityHolds`) and `Standing`
  (`DefinitionsStand`). A thread inside a method that reads and then writes is its process's `holder`,
  so in one process it is the only one inside (`Locked`), and the resolution it writes to is the one it read
  (`Fresh`). Hence the ranking that `Resolved` applied to a copy holds of the row. A dependency found
  confirmed is confirmed at the write, since no step lowers a confirmed resolution. Between processes
  `Settled` keeps what needs no lock: references are in their version, and a description confirmed
  as it stands is the one its client reviewed as long as its timestamp is the one expected.
* `Nearest` gives `Proximity` (`ExpansionIsNearest`). The expansion is a function over rounds, each
  expanding the next table of the queue. `Tidy`: no table is queued twice, distances ascend along the
  queue, and what is still to be expanded has one of the two largest. `Near`: a table is no further
  than its distance says. `Explored`: a table passed by has all its neighbours in the queue, no further
  than one relationship from it, or the queue was full. After as many rounds as there can be tables, the
  queue has every table within `Hops` or is full of the nearest. The orders of the tables
  met by the question are complete by counting, which is why `Tables` has to be finite.

They rest on the modules' assumptions, which the run's instance satisfies: roles are threads, scripts
and snapshots fit the schema, keys depend on keys of the right kind, and the definitions known at
first were confirmed call by call (`MeaningAssumption`). Recursive functions over the naturals (the
queue of the expansion, what an order chooses of a set) are shown to exist in the module itself
(`Iterates`), from the least-element principle.

Only model-checked: every liveness property (`AdmittedSettles`, `HoldsLeaveFlight`, `JobsFinish`,
`LostWorkStops`, `OpenBreakerRecovers`), `OnlyStaleApprovalReopened` (it fails between replicas, so there is nothing to
prove for all of them), and `AttemptsAreBounded`, `SentAsDisclosed` and `ConfirmedNamesAreUnique`,
which fail. The type invariants of `LLMBudget` and `ProviderTransport` are proved and not run.

## Not modelled

* SQL validator: a pure function from a syntax tree to a list of issues, most of it about the
  shapes sqlglot gives dialects. Its decision is an input (`SqlOf`, `AnswerUnusable`).
* Connectors: driver calls and metadata queries. The executors' registries and cancellation are in
  `QueryExecution`; collecting rows, byte limits and dialect settings are not.
* Result processing: masking and export of rows; `ProcessResult` keeps its two outcomes.
* Authentication and access: token verification is library cryptography. Principals, credentials and
  their append-only revocation have state and are left to the plan.
* Backup and restore, evaluation, load generation: offline commands, not part of the service.
* Observability: counters and spans no decision reads.
* Web console: rendering, over the modelled endpoints.
* In modelled parts: price arithmetic, validation of single values, row conversion, list
  endpoints, wording, audit details (except the event that makes a reconciliation accountable).

## Plan

The query ticket, the money, the jobs and the quotas came first because every question passes
through them; generation with its confirmations, the catalog services and the provider
transport followed. What remains, in order:

1. Access credentials: creation, expiry and append-only revocation on several replicas.
