--------------------------- MODULE QueryExecution ---------------------------
(***************************************************************************)
(* One persisted query ticket from preview to its final state, and the API *)
(* requests that race over it: EXPLAIN, approval, execution, cancellation. *)
(*                                                                         *)
(* QueryExecutionService runs each request on a worker thread of some      *)
(* replica.  A catalog method is one or more reads followed by one         *)
(* transaction; the process-wide repository lock keeps the threads of one  *)
(* replica out of each other's methods and does nothing between replicas,  *)
(* whose only meeting point is the database.  So a step of this module is  *)
(* one read, one transaction or one exchange with the analysed database.   *)
(*                                                                         *)
(* Abstracted: the ticket's text and lineage; capabilities, the secret and *)
(* the executor's configuration (constants of the data source, taken as    *)
(* granted); the two planner thresholds, folded into one estimate; digests *)
(* stand for what they digest.                                             *)
(***************************************************************************)
EXTENDS QueryState, Integers, Sequences

CONSTANTS
    Replicas,       \* API processes, each with its repository lock and executor
    Workers,        \* request threads
    ReplicaOf,      \* the replica a worker runs on
    Sqls,           \* SQL texts the stored proposal can normalise to
    SqlOf,          \* what a replica's validator and row limit make of it
    Values,         \* bound parameter values (their signature)
    NoValues,       \* parameter signature of an unparameterised statement
    Parameterized,  \* does the ticket declare parameters?
    Estimates,      \* planner estimates, integers
    NoEstimate,     \* the planner gave none
    NoPlan, NoApproval, NoWorker, NoRow,    \* NULL columns and empty variables
    MaxExplains, MaxPolicies, MaxCatalogs, MaxFaults    \* bounds

ASSUME ReplicaAssumption == ReplicaOf \in [Workers -> Replicas]
ASSUME SqlAssumption == SqlOf \in [Replicas -> Sqls]
ASSUME ParameterAssumption == Parameterized \in BOOLEAN /\ NoValues \notin Values
ASSUME EstimateAssumption == Estimates \subseteq Int /\ NoEstimate \notin Int
ASSUME BoundAssumption ==
    {MaxExplains, MaxPolicies, MaxCatalogs, MaxFaults} \subseteq Nat

VARIABLES
    ticket,     \* the query_requests row
    policy,     \* the DataSource's execution_cost_policies row
    catalog,    \* the latest catalog version of the DataSource
    active,     \* per replica, the executor's registry entry for this request
    op,         \* per worker, the service call it is in
    runs,       \* history: the statements sent to the analysed database
    faults      \* how many faults have been spent

vars == <<ticket, policy, catalog, active, op, runs, faults>>

\* The ticket was generated against this catalog version.
TicketCatalog == 1

ValueChoices == IF Parameterized THEN Values ELSE {NoValues}

Prepared == [sql : Sqls, values : Values \cup {NoValues}]

Plan == [prepared : Prepared, estimate : Estimates \cup {NoEstimate}]

Approval == [prepared : Prepared, explainRevision : Nat, policyRevision : Nat]

\* A NULL snapshot is none.
ASSUME NullAssumption == NoApproval \notin Approval

Row == [state : States, explainRevision : Nat, plan : Plan \cup {NoPlan},
        approval : Approval \cup {NoApproval}]

\* Revision 0 stands for "no policy row".
Policy == [revision : Nat, limit : Estimates \cup {NoEstimate}]

Kinds == {"none", "explain", "approve", "execute", "cancel"}

Steps == {"idle", "prepare", "policy", "transition", "commit", "dispatch",
          "on_database", "record", "look_up", "process", "signal"}

Op == [kind : Kinds, step : Steps, values : Values \cup {NoValues},
       reviewed : Nat, seen : Row \cup {NoRow}, policyRevision : Nat,
       target : States, current : Row \cup {NoRow}]

Idle == [kind |-> "none", step |-> "idle", values |-> NoValues, reviewed |-> 0,
         seen |-> NoRow, policyRevision |-> 0, target |-> "received",
         current |-> NoRow]

\* create_query_request stores an accepted proposal ready for preview.
Init ==
    /\ ticket = [state |-> "ready_for_preview", explainRevision |-> 0,
                 plan |-> NoPlan, approval |-> NoApproval]
    /\ policy = [revision |-> 0, limit |-> NoEstimate]
    /\ catalog = TicketCatalog
    /\ active = [r \in Replicas |-> NoWorker]
    /\ op = [w \in Workers |-> Idle]
    /\ runs = <<>>
    /\ faults = 0

-----------------------------------------------------------------------------
(* Service calls.                                                          *)

\* The SQL and bindings a worker prepares from the caller's parameter values.
PreparedBy(w) == [sql |-> SqlOf[ReplicaOf[w]], values |-> op[w].values]

\* Mutant: the repository is used without its lock.
CatalogFree_NoLock(w) == TRUE

\* The repository lock: no thread of the same replica is between the read and
\* the transaction of a transition.
CatalogFree(w) ==
    \A u \in Workers :
        ReplicaOf[u] = ReplicaOf[w] => u = w \/ op[u].step # "commit"

Advance(w, step) == op' = [op EXCEPT ![w].step = step]

\* The call returns, or an exception leaves it.
Finish(w) == op' = [op EXCEPT ![w] = Idle]

StartTransition(w, target) ==
    op' = [op EXCEPT ![w].step = "transition", ![w].target = target,
                     ![w].current = NoRow]

\* The state each call would move the ticket to first.
FirstTarget == [explain |-> "ready_for_preview", approve |-> "approved",
                execute |-> "executing", cancel |-> "cancelled"]

\* _load: read the row once; every call checks the state it needs on that copy.
Load(w, kind, states, step, values, reviewed) ==
    /\ op[w] = Idle
    /\ CatalogFree(w)
    /\ ticket.state \in states
    /\ op' = [op EXCEPT ![w] =
                [Idle EXCEPT !.kind = kind, !.step = step, !.values = values,
                             !.reviewed = reviewed, !.seen = ticket,
                             !.target = FirstTarget[kind]]]
    /\ UNCHANGED <<ticket, policy, catalog, active, runs, faults>>

BeginExplain(w) ==
    /\ ticket.explainRevision < MaxExplains
    /\ \E v \in ValueChoices :
          Load(w, "explain", {"ready_for_preview"}, "prepare", v, 0)

\* The client names the revision it reviewed, one that has been published.
BeginApprove(w) ==
    \E v \in ValueChoices, reviewed \in 0..ticket.explainRevision :
        Load(w, "approve", {"ready_for_preview"}, "prepare", v, reviewed)

BeginExecute(w) ==
    \E v \in ValueChoices : Load(w, "execute", {"approved"}, "prepare", v, 0)

\* Only a ticket read as executing is also cancelled on its database.
BeginCancel(w) ==
    \/ Load(w, "cancel", {"ready_for_preview", "approved"}, "transition", NoValues, 0)
    \/ Load(w, "cancel", {"executing"}, "signal", NoValues, 0)

\* _require_current_catalog
CatalogCurrent == catalog = TicketCatalog

\* _enforce_parameter_binding, on the copy of the row read by _load.
BindingExplained(w) ==
    Parameterized =>
        /\ op[w].seen.plan # NoPlan
        /\ op[w].seen.plan.prepared.values = op[w].values

PrepareExplain(w) ==
    /\ op[w].kind = "explain" /\ op[w].step = "prepare"
    /\ CatalogFree(w)
    /\ IF CatalogCurrent THEN Advance(w, "dispatch") ELSE Finish(w)
    /\ UNCHANGED <<ticket, policy, catalog, active, runs, faults>>

PrepareApprove(w) ==
    /\ op[w].kind = "approve" /\ op[w].step = "prepare"
    /\ CatalogFree(w)
    /\ IF /\ CatalogCurrent
          /\ op[w].reviewed = op[w].seen.explainRevision
          /\ BindingExplained(w)
       THEN Advance(w, "policy")
       ELSE Finish(w)
    /\ UNCHANGED <<ticket, policy, catalog, active, runs, faults>>

\* Mutant: the prepared statement is not compared with the approved one.
ApprovalMatches_AnyStatement(w) ==
    /\ op[w].seen.approval # NoApproval
    /\ op[w].seen.approval.explainRevision = op[w].seen.explainRevision

\* The approval snapshot read with the row still describes what would run.
ApprovalMatches(w) ==
    LET approval == op[w].seen.approval
    IN  /\ approval # NoApproval
        /\ approval.prepared = PreparedBy(w)
        /\ approval.explainRevision = op[w].seen.explainRevision

PrepareExecute(w) ==
    /\ op[w].kind = "execute" /\ op[w].step = "prepare"
    /\ CatalogFree(w)
    /\ IF CatalogCurrent /\ BindingExplained(w) /\ ApprovalMatches(w)
       THEN Advance(w, "policy")
       ELSE Finish(w)
    /\ UNCHANGED <<ticket, policy, catalog, active, runs, faults>>

\* The thresholds of a policy, applied to an EXPLAIN.  A stored policy always
\* has a threshold and an unexplained ticket has no estimate, so require_explain
\* adds no case of its own.
PolicyAdmits(p, plan) ==
    p.revision > 0 =>
        /\ plan # NoPlan
        /\ plan.estimate # NoEstimate
        /\ plan.estimate <= p.limit

\* _enforce_execution_cost_policy for an approval.
CheckApprovalPolicy(w) ==
    /\ op[w].kind = "approve" /\ op[w].step = "policy"
    /\ CatalogFree(w)
    /\ IF PolicyAdmits(policy, op[w].seen.plan)
       THEN op' = [op EXCEPT ![w].policyRevision = policy.revision,
                             ![w].step = "transition"]
       ELSE Finish(w)
    /\ UNCHANGED <<ticket, policy, catalog, active, runs, faults>>

\* The same for an execution, which reopens the ticket when the policy moved.
CheckExecutionPolicy(w) ==
    /\ op[w].kind = "execute" /\ op[w].step = "policy"
    /\ CatalogFree(w)
    /\ \/ /\ op[w].seen.approval.policyRevision # policy.revision
          /\ StartTransition(w, "ready_for_preview")
       \/ /\ op[w].seen.approval.policyRevision = policy.revision
          /\ PolicyAdmits(policy, op[w].seen.plan)
          /\ op' = [op EXCEPT ![w].policyRevision = policy.revision,
                              ![w].step = "transition"]
       \/ /\ op[w].seen.approval.policyRevision = policy.revision
          /\ ~PolicyAdmits(policy, op[w].seen.plan)
          /\ Finish(w)
    /\ UNCHANGED <<ticket, policy, catalog, active, runs, faults>>

-----------------------------------------------------------------------------
(* transition_query_request: a read and its checks, then one transaction.  *)

TransitionAccepted(w, row) ==
    /\ MayTransition(row.state, op[w].target)
    /\ op[w].target \in {"approved", "executing"} =>
          row.explainRevision = op[w].seen.explainRevision
    /\ op[w].target = "approved" /\ row.plan # NoPlan =>
          row.plan.prepared = PreparedBy(w)

ReadForTransition(w) ==
    /\ op[w].step = "transition"
    /\ CatalogFree(w)
    /\ IF TransitionAccepted(w, ticket)
       THEN op' = [op EXCEPT ![w].step = "commit", ![w].current = ticket]
       ELSE Finish(w)
    /\ UNCHANGED <<ticket, policy, catalog, active, runs, faults>>

\* Mutant: the policy revision is compared only before the transaction.
PolicyUnchanged_NotRechecked(w) == TRUE

\* Inside the transaction, with the DataSource row locked: the policy revision
\* is still the one the caller and the approval rely on.
PolicyUnchanged(w) ==
    /\ op[w].target = "approved" => op[w].policyRevision = policy.revision
    /\ op[w].target = "executing" =>
          /\ op[w].policyRevision = policy.revision
          /\ op[w].current.approval.policyRevision = policy.revision

\* Only a stale approval can be reopened, judged on the row read earlier.
ReopenRefused(w) ==
    /\ op[w].target = "ready_for_preview"
    /\ op[w].current.approval.policyRevision = policy.revision

\* Mutants: the update compares only one of the two columns.
RowUnchanged_RevisionOnly(w) == ticket.explainRevision = op[w].current.explainRevision
RowUnchanged_StateOnly(w) == ticket.state = op[w].current.state

\* The WHERE clause of the UPDATE.
RowUnchanged(w) ==
    /\ ticket.state = op[w].current.state
    /\ ticket.explainRevision = op[w].current.explainRevision

\* Mutant: reopening clears some of the approval columns.
ApprovalWritten_HalfCleared(w) ==
    CASE op[w].target = "approved" ->
            [prepared |-> PreparedBy(w),
             explainRevision |-> op[w].current.explainRevision,
             policyRevision |-> op[w].policyRevision]
      [] op[w].target = "ready_for_preview" ->
            [op[w].current.approval EXCEPT !.prepared = NoApproval]
      [] OTHER -> op[w].current.approval

\* The approval columns the UPDATE writes.
ApprovalWritten(w) ==
    CASE op[w].target = "approved" ->
            [prepared |-> PreparedBy(w),
             explainRevision |-> op[w].current.explainRevision,
             policyRevision |-> op[w].policyRevision]
      [] op[w].target = "ready_for_preview" -> NoApproval
      [] OTHER -> op[w].current.approval

\* Where the service goes when a transition returns.
AfterTransition(w) ==
    CASE op[w].target = "executing" -> Advance(w, "dispatch")
      [] op[w].target = "succeeded" -> StartTransition(w, "result_processing")
      [] op[w].target = "result_processing" -> Advance(w, "process")
      [] OTHER -> Finish(w)

CommitTransition(w) ==
    /\ op[w].step = "commit"
    /\ PolicyUnchanged(w) /\ ~ReopenRefused(w) /\ RowUnchanged(w)
    /\ ticket' = [ticket EXCEPT !.state = op[w].target,
                                !.approval = ApprovalWritten(w)]
    /\ AfterTransition(w)
    /\ UNCHANGED <<policy, catalog, active, runs, faults>>

\* QueryCostPolicyChangedError: an execution goes on to reopen the ticket.
TransitionPolicyChanged(w) ==
    /\ op[w].step = "commit"
    /\ ~PolicyUnchanged(w)
    /\ IF op[w].kind = "execute"
       THEN StartTransition(w, "ready_for_preview")
       ELSE Finish(w)
    /\ UNCHANGED <<ticket, policy, catalog, active, runs, faults>>

\* Any other conflict rolls back and leaves the call.
TransitionConflict(w) ==
    /\ op[w].step = "commit"
    /\ PolicyUnchanged(w)
    /\ ReopenRefused(w) \/ ~RowUnchanged(w)
    /\ Finish(w)
    /\ UNCHANGED <<ticket, policy, catalog, active, runs, faults>>

-----------------------------------------------------------------------------
(* The read-only executor and what the service does with its outcome.      *)

\* Mutant: an execution that raised is taken for an empty result.
ExecutorRaised_EmptyResult(w) ==
    IF op[w].kind = "execute" THEN StartTransition(w, "succeeded") ELSE Finish(w)

\* The executor raised: EXPLAIN gives up, an execution looks the ticket up.
ExecutorRaised(w) ==
    IF op[w].kind = "execute" THEN Advance(w, "look_up") ELSE Finish(w)

\* Connect, register the request and send the statement.
StartStatement(w) ==
    /\ op[w].step = "dispatch"
    /\ active[ReplicaOf[w]] = NoWorker
    /\ active' = [active EXCEPT ![ReplicaOf[w]] = w]
    /\ Advance(w, "on_database")
    /\ runs' = IF op[w].kind = "execute" THEN Append(runs, PreparedBy(w)) ELSE runs
    /\ UNCHANGED <<ticket, policy, catalog, faults>>

\* The connection fails, or the request is already active on this replica.
StartStatementFails(w) ==
    /\ op[w].step = "dispatch"
    /\ ExecutorRaised(w)
    /\ UNCHANGED <<ticket, policy, catalog, active, runs, faults>>

Unregister(w) == active' = [active EXCEPT ![ReplicaOf[w]] = NoWorker]

FinishStatement(w) ==
    /\ op[w].step = "on_database"
    /\ Unregister(w)
    /\ IF op[w].kind = "execute" THEN StartTransition(w, "succeeded")
                                 ELSE Advance(w, "record")
    /\ UNCHANGED <<ticket, policy, catalog, runs, faults>>

\* A database error, the statement timeout or a cancellation.
StatementFails(w) ==
    /\ op[w].step = "on_database"
    /\ Unregister(w)
    /\ ExecutorRaised(w)
    /\ UNCHANGED <<ticket, policy, catalog, runs, faults>>

\* record_query_explain: one conditional update and the revision row.
RecordExplain(w) ==
    /\ op[w].kind = "explain" /\ op[w].step = "record"
    /\ CatalogFree(w)
    /\ ticket.state = "ready_for_preview"
    /\ ticket.explainRevision = op[w].seen.explainRevision
    /\ \E estimate \in Estimates \cup {NoEstimate} :
          ticket' = [ticket EXCEPT
                        !.explainRevision = op[w].seen.explainRevision + 1,
                        !.plan = [prepared |-> PreparedBy(w), estimate |-> estimate]]
    /\ Finish(w)
    /\ UNCHANGED <<policy, catalog, active, runs, faults>>

\* The state or the revision moved while the database was planning.
RecordExplainStale(w) ==
    /\ op[w].kind = "explain" /\ op[w].step = "record"
    /\ CatalogFree(w)
    /\ \/ ticket.state # "ready_for_preview"
       \/ ticket.explainRevision # op[w].seen.explainRevision
    /\ Finish(w)
    /\ UNCHANGED <<ticket, policy, catalog, active, runs, faults>>

\* Mutant: the failed execution is reported to the caller only.
LookUpFailed_ReportOnly(w) ==
    /\ op[w].step = "look_up"
    /\ CatalogFree(w)
    /\ Finish(w)
    /\ UNCHANGED <<ticket, policy, catalog, active, runs, faults>>

\* The handler of an executor exception: fail the ticket if it still executes.
LookUpFailed(w) ==
    /\ op[w].step = "look_up"
    /\ CatalogFree(w)
    /\ IF ticket.state = "executing" THEN StartTransition(w, "failed_execution")
                                     ELSE Finish(w)
    /\ UNCHANGED <<ticket, policy, catalog, active, runs, faults>>

\* Masking, provenance and the result_metadata event succeed or raise.
ProcessResult(w) ==
    /\ op[w].step = "process"
    /\ CatalogFree(w)
    /\ \E target \in {"completed", "failed_execution"} : StartTransition(w, target)
    /\ UNCHANGED <<ticket, policy, catalog, active, runs, faults>>

\* cancel() on an executing ticket: the executor of this replica must know the
\* request; the driver may still refuse.
SignalDatabase(w) ==
    /\ op[w].kind = "cancel" /\ op[w].step = "signal"
    /\ \/ /\ active[ReplicaOf[w]] # NoWorker
          /\ StartTransition(w, "cancelled")
       \/ Finish(w)
    /\ UNCHANGED <<ticket, policy, catalog, active, runs, faults>>

-----------------------------------------------------------------------------
(* The rest of the world, and faults.                                      *)

\* upsert_execution_cost_policy
UpsertPolicy ==
    /\ policy.revision < MaxPolicies
    /\ \E limit \in Estimates :
          policy' = [revision |-> policy.revision + 1, limit |-> limit]
    /\ UNCHANGED <<ticket, catalog, active, op, runs, faults>>

\* A new catalog version is published for the DataSource.
PublishCatalog ==
    /\ catalog < MaxCatalogs
    /\ catalog' = catalog + 1
    /\ UNCHANGED <<ticket, policy, active, op, runs, faults>>

\* A catalog call raises a database error; its transaction is rolled back and
\* nothing in the service handles the exception.
CatalogFault(w) ==
    /\ faults < MaxFaults
    /\ op[w].step \in {"prepare", "policy", "transition", "commit", "record", "look_up"}
    /\ Finish(w)
    /\ faults' = faults + 1
    /\ UNCHANGED <<ticket, policy, catalog, active, runs>>

\* A replica stops: its threads and its registry are gone, the row stays.
Crash(r) ==
    /\ faults < MaxFaults
    /\ op' = [w \in Workers |-> IF ReplicaOf[w] = r THEN Idle ELSE op[w]]
    /\ active' = [active EXCEPT ![r] = NoWorker]
    /\ faults' = faults + 1
    /\ UNCHANGED <<ticket, policy, catalog, runs>>

\* What a worker does once its call has begun.
Progress(w) ==
    \/ PrepareExplain(w) \/ PrepareApprove(w) \/ PrepareExecute(w)
    \/ CheckApprovalPolicy(w) \/ CheckExecutionPolicy(w)
    \/ ReadForTransition(w) \/ CommitTransition(w)
    \/ TransitionPolicyChanged(w) \/ TransitionConflict(w)
    \/ StartStatement(w) \/ StartStatementFails(w)
    \/ FinishStatement(w) \/ StatementFails(w)
    \/ RecordExplain(w) \/ RecordExplainStale(w)
    \/ LookUpFailed(w) \/ ProcessResult(w) \/ SignalDatabase(w)

Begin(w) == BeginExplain(w) \/ BeginApprove(w) \/ BeginExecute(w) \/ BeginCancel(w)

Next ==
    \/ \E w \in Workers : Begin(w) \/ Progress(w) \/ CatalogFault(w)
    \/ \E r \in Replicas : Crash(r)
    \/ UpsertPolicy
    \/ PublishCatalog

Spec == Init /\ [][Next]_vars

\* A running thread is scheduled and a statement ends, at the latest by the
\* timeout set on the server: each call that has begun goes on.
Fairness == \A w \in Workers : WF_vars(Progress(w))

FairSpec == Spec /\ Fairness

-----------------------------------------------------------------------------
(* Properties.                                                             *)

TypeOK ==
    /\ ticket \in Row
    /\ policy \in Policy
    /\ catalog \in Nat
    /\ active \in [Replicas -> Workers \cup {NoWorker}]
    /\ op \in [Workers -> Op]
    /\ runs \in Seq(Prepared)
    /\ faults \in Nat

\* However many requests race to execute one ticket, on however many replicas,
\* its statement reaches the analysed database at most once.
StartedAtMostOnce == Len(runs) <= 1

\* What reached the database is the SQL and the bindings of the approval on
\* record; a ticket with an answer has run exactly once.
RunsWhatWasApproved ==
    /\ \A i \in 1..Len(runs) :
          ticket.approval # NoApproval /\ runs[i] = ticket.approval.prepared
    /\ ticket.state \in {"succeeded", "result_processing", "completed"} => runs # <<>>

\* An approval names the EXPLAIN revision the ticket still carries, and agrees
\* with that EXPLAIN's statement: a late EXPLAIN never slips under it.
ApprovalBindsExplain ==
    ticket.approval # NoApproval =>
        /\ ticket.approval.explainRevision = ticket.explainRevision
        /\ ticket.plan # NoPlan =>
              ticket.plan.prepared = ticket.approval.prepared

\* What a call checked still holds when its transition is written, whatever
\* happened in between: execution is admitted under the policy revision that
\* was approved, whose thresholds admit the plan, and an approval is given for
\* the EXPLAIN revision its client reviewed.
CommitsWhatWasChecked ==
    [][/\ ticket.state # "executing" /\ ticket'.state = "executing" =>
             /\ ticket.approval.policyRevision = policy.revision
             /\ PolicyAdmits(policy, ticket.plan)
       /\ ticket.state # "approved" /\ ticket'.state = "approved" =>
             \E w \in Workers :
                /\ op[w].step = "commit" /\ op'[w] = Idle
                /\ op[w].reviewed = ticket.explainRevision]_vars

\* Only an approval bound to an obsolete policy is withdrawn.
OnlyStaleApprovalReopened ==
    [][ticket.state = "approved" /\ ticket'.state = "ready_for_preview" =>
        ticket.approval.policyRevision # policy.revision]_vars

\* Once admitted, an execution whose replica stays up reaches a final state.
AdmittedSettles ==
    ticket.state \in {"executing", "succeeded", "result_processing"}
        ~> ticket.state \in {"completed", "failed_execution", "cancelled"}

-----------------------------------------------------------------------------
(* The ticket implements its abstract specification.                       *)

\* The permit of an admitted execution: open while its worker is about to send
\* the statement, used once it has been sent.
PermitView ==
    IF runs # <<>> THEN "used"
    ELSE IF \E w \in Workers : op[w].kind = "execute" /\ op[w].step = "dispatch"
         THEN "open" ELSE "none"

Ticket == INSTANCE QueryTicket WITH
    Statements <- Prepared, Nothing <- NoApproval,
    state <- ticket.state,
    granted <- IF ticket.approval = NoApproval THEN NoApproval
               ELSE ticket.approval.prepared,
    permit <- PermitView,
    sent <- IF runs = <<>> THEN NoApproval ELSE runs[1]

\* Every behaviour of the service is one the abstract ticket allows: no second
\* permit, nothing sent without one, and nothing sent but the granted statement.
ImplementsTicket == Ticket!Spec

=============================================================================
