----------------------- MODULE QueryExecutionProofs -----------------------
(***************************************************************************)
(* What TLAPS proves of QueryExecution, for any number of replicas,        *)
(* workers, statements, policies and faults.                               *)
(***************************************************************************)
EXTENDS QueryExecution, TLAPS

\* The states this ticket visits.
TicketStates == {"ready_for_preview", "approved", "executing", "succeeded",
                 "result_processing", "completed", "failed_execution", "cancelled"}

\* Which step and target each kind of call can be at.
OpShape(w) ==
    /\ op[w].kind = "none" => op[w].step = "idle"
    /\ op[w].kind = "explain" =>
          op[w].step \in {"prepare", "dispatch", "on_database", "record"}
    /\ op[w].kind = "approve" =>
          /\ op[w].step \in {"prepare", "policy", "transition", "commit"}
          /\ op[w].target = "approved"
    /\ op[w].kind = "cancel" =>
          /\ op[w].step \in {"signal", "transition", "commit"}
          /\ op[w].target = "cancelled"
    /\ op[w].kind = "execute" =>
          op[w].target \in {"executing", "ready_for_preview", "succeeded",
                            "result_processing", "completed", "failed_execution"}

\* A transition between its read and its transaction was accepted on the row
\* it read.
CommitShape(w) ==
    op[w].step = "commit" =>
        /\ op[w].current \in Row
        /\ MayTransition(op[w].current.state, op[w].target)

\* The worker's execution has been admitted and has not ended.
Admitted(w) ==
    /\ op[w].kind = "execute"
    /\ ~ /\ op[w].step \in {"prepare", "policy", "transition", "commit"}
         /\ op[w].target \in {"executing", "ready_for_preview"}

\* The admitted execution that has not sent its statement yet.
Sending(w) == op[w].kind = "execute" /\ op[w].step = "dispatch"

Shape == \A w \in Workers : OpShape(w) /\ CommitShape(w)

\* A ticket under review has no admitted execution and has sent nothing; there
\* is one admitted execution at most, and before it sends nothing was sent.
Admission ==
    /\ ticket.state \in TicketStates
    /\ ticket.state \in {"ready_for_preview", "approved"} =>
          runs = <<>> /\ \A w \in Workers : ~Admitted(w)
    /\ \A u, w \in Workers : Admitted(u) /\ Admitted(w) => u = w
    /\ \A w \in Workers : Sending(w) => runs = <<>>
    /\ StartedAtMostOnce

-----------------------------------------------------------------------------

\* The transition table relates lifecycle states only.
LEMMA TransitionsAreStates ==
    \A s, t : MayTransition(s, t) => s \in States /\ t \in States
BY DEF MayTransition, Transitions, States

\* A worker between two calls is well typed.
LEMMA IdleIsOp == Idle \in Op
BY DEF Idle, Op, Kinds, Steps, States

\* What a worker prepares is well typed.
LEMMA PreparedType == ASSUME TypeOK, NEW w \in Workers PROVE PreparedBy(w) \in Prepared
BY ReplicaAssumption, SqlAssumption DEF TypeOK, PreparedBy, Prepared, Op

\* Init has the declared types.
LEMMA InitType == Init => TypeOK
BY IdleIsOp, BoundAssumption
   DEF Init, TypeOK, Row, Policy, States, TicketCatalog

\* Loading the row starts a well-typed call.
LEMMA LoadType ==
    ASSUME TypeOK, NEW w \in Workers, NEW kind \in {"explain", "approve", "execute", "cancel"},
           NEW states, NEW step \in Steps, NEW values \in Values \cup {NoValues},
           NEW reviewed \in Nat, Load(w, kind, states, step, values, reviewed)
    PROVE  TypeOK'
<1>1. FirstTarget[kind] \in States
  BY DEF FirstTarget, States
<1>2. [Idle EXCEPT !.kind = kind, !.step = step, !.values = values,
                   !.reviewed = reviewed, !.seen = ticket,
                   !.target = FirstTarget[kind]] \in Op
  BY <1>1 DEF Idle, Op, Kinds, TypeOK
<1> QED BY <1>2 DEF Load, TypeOK

\* Beginning a call keeps the types.
LEMMA BeginType ==
    ASSUME TypeOK, NEW w \in Workers, Begin(w) PROVE TypeOK'
<1> USE DEF Steps, ValueChoices
<1>1. CASE BeginExplain(w) BY <1>1, LoadType DEF BeginExplain
<1>2. CASE BeginApprove(w)
  <2>1. ticket.explainRevision \in Nat BY DEF TypeOK, Row
  <2> QED BY <1>2, <2>1, LoadType DEF BeginApprove
<1>3. CASE BeginExecute(w) BY <1>3, LoadType DEF BeginExecute
<1>4. CASE BeginCancel(w) BY <1>4, LoadType DEF BeginCancel
<1> QED BY <1>1, <1>2, <1>3, <1>4 DEF Begin

\* Moving a call along, or ending it, keeps the type of op.
LEMMA AdvanceType ==
    ASSUME TypeOK, NEW w \in Workers, NEW step \in Steps, Advance(w, step)
    PROVE  op' \in [Workers -> Op]
BY DEF TypeOK, Advance, Op

\* So does ending it.
LEMMA FinishType ==
    ASSUME TypeOK, NEW w \in Workers, Finish(w) PROVE op' \in [Workers -> Op]
BY IdleIsOp DEF TypeOK, Finish

\* So does aiming it at the next lifecycle state.
LEMMA StartTransitionType ==
    ASSUME TypeOK, NEW w \in Workers, NEW target \in States, StartTransition(w, target)
    PROVE  op' \in [Workers -> Op]
<1>1. "transition" \in Steps BY DEF Steps
<1>2. [op[w] EXCEPT !.step = "transition", !.target = target, !.current = NoRow] \in Op
  BY <1>1 DEF TypeOK, Op
<1> QED BY <1>2 DEF TypeOK, StartTransition

\* So does a policy check that passes.
LEMMA PolicyPassedType ==
    ASSUME TypeOK, NEW w \in Workers,
           op' = [op EXCEPT ![w].policyRevision = policy.revision, ![w].step = "transition"]
    PROVE  op' \in [Workers -> Op]
<1>1. policy.revision \in Nat /\ "transition" \in Steps BY DEF TypeOK, Policy, Steps
<1>2. [op[w] EXCEPT !.policyRevision = policy.revision, !.step = "transition"] \in Op
  BY <1>1 DEF TypeOK, Op
<1> QED BY <1>2 DEF TypeOK

\* So does the read of a transition.
LEMMA RowReadType ==
    ASSUME TypeOK, NEW w \in Workers,
           op' = [op EXCEPT ![w].step = "commit", ![w].current = ticket]
    PROVE  op' \in [Workers -> Op]
<1>1. "commit" \in Steps BY DEF Steps
<1>2. [op[w] EXCEPT !.step = "commit", !.current = ticket] \in Op
  BY <1>1 DEF TypeOK, Op
<1> QED BY <1>2 DEF TypeOK

\* Leaving the executor's registry keeps its type.
LEMMA UnregisterType ==
    ASSUME TypeOK, NEW w \in Workers, Unregister(w)
    PROVE  active' \in [Replicas -> Workers \cup {NoWorker}]
BY DEF TypeOK, Unregister

\* The transaction of a transition keeps the types.
LEMMA CommitType ==
    ASSUME TypeOK, NEW w \in Workers, CommitShape(w), CommitTransition(w)
    PROVE  TypeOK'
<1>1. op[w].current \in Row /\ op[w].target \in States /\ op[w].policyRevision \in Nat
  BY DEF CommitTransition, CommitShape, TypeOK, Op
<1>2. ApprovalWritten(w) \in Approval \cup {NoApproval}
  BY <1>1, PreparedType DEF ApprovalWritten, Approval, Row
<1>3. ticket' \in Row
  BY <1>1, <1>2 DEF CommitTransition, TypeOK, Row
<1>4. op' \in [Workers -> Op]
  BY AdvanceType, StartTransitionType, FinishType
     DEF CommitTransition, AfterTransition, Steps, States
<1> QED BY <1>3, <1>4 DEF CommitTransition, TypeOK

\* Every step of a call keeps the types.
LEMMA ProgressType ==
    ASSUME TypeOK, NEW w \in Workers, CommitShape(w), Progress(w) PROVE TypeOK'
<1> USE AdvanceType, FinishType, StartTransitionType DEF Steps, States
<1>1. CASE PrepareExplain(w) BY <1>1 DEF PrepareExplain, TypeOK
<1>2. CASE PrepareApprove(w) BY <1>2 DEF PrepareApprove, TypeOK
<1>3. CASE PrepareExecute(w) BY <1>3 DEF PrepareExecute, TypeOK
<1>4. CASE CheckApprovalPolicy(w)
  BY <1>4, PolicyPassedType DEF CheckApprovalPolicy, TypeOK
<1>5. CASE CheckExecutionPolicy(w)
  <2>1. CASE StartTransition(w, "ready_for_preview")
    BY <1>5, <2>1 DEF CheckExecutionPolicy, TypeOK
  <2>2. CASE Finish(w) BY <1>5, <2>2 DEF CheckExecutionPolicy, TypeOK
  <2>3. CASE op' = [op EXCEPT ![w].policyRevision = policy.revision,
                              ![w].step = "transition"]
    BY <1>5, <2>3, PolicyPassedType DEF CheckExecutionPolicy, TypeOK
  <2> QED BY <1>5, <2>1, <2>2, <2>3 DEF CheckExecutionPolicy
<1>6. CASE ReadForTransition(w) BY <1>6, RowReadType DEF ReadForTransition, TypeOK
<1>7. CASE CommitTransition(w) BY <1>7, CommitType
<1>8. CASE TransitionPolicyChanged(w) BY <1>8 DEF TransitionPolicyChanged, TypeOK
<1>9. CASE TransitionConflict(w) BY <1>9 DEF TransitionConflict, TypeOK
<1>10. CASE StartStatement(w)
  <2>1. op' \in [Workers -> Op] BY <1>10 DEF StartStatement
  <2>2. runs' \in Seq(Prepared) BY <1>10, PreparedType DEF StartStatement, TypeOK
  <2>3. active' \in [Replicas -> Workers \cup {NoWorker}]
    BY <1>10 DEF StartStatement, TypeOK
  <2> QED BY <1>10, <2>1, <2>2, <2>3 DEF StartStatement, TypeOK
<1>11. CASE StartStatementFails(w)
  BY <1>11 DEF StartStatementFails, ExecutorRaised, TypeOK
<1>12. CASE FinishStatement(w)
  BY <1>12, UnregisterType DEF FinishStatement, TypeOK
<1>13. CASE StatementFails(w)
  BY <1>13, UnregisterType DEF StatementFails, ExecutorRaised, TypeOK
<1>14. CASE RecordExplain(w)
  <2>1. PICK estimate \in Estimates \cup {NoEstimate} :
           ticket' = [ticket EXCEPT
                         !.explainRevision = op[w].seen.explainRevision + 1,
                         !.plan = [prepared |-> PreparedBy(w), estimate |-> estimate]]
    BY <1>14 DEF RecordExplain
  <2>2. [prepared |-> PreparedBy(w), estimate |-> estimate] \in Plan
    BY PreparedType DEF Plan
  <2>3. op[w].seen.explainRevision + 1 \in Nat
    BY <1>14 DEF RecordExplain, TypeOK, Row
  <2>4. ticket' \in Row BY <2>1, <2>2, <2>3 DEF TypeOK, Row
  <2> QED BY <1>14, <2>4 DEF RecordExplain, TypeOK
<1>15. CASE RecordExplainStale(w) BY <1>15 DEF RecordExplainStale, TypeOK
<1>16. CASE LookUpFailed(w) BY <1>16 DEF LookUpFailed, TypeOK
<1>17. CASE ProcessResult(w) BY <1>17 DEF ProcessResult, TypeOK
<1>18. CASE SignalDatabase(w) BY <1>18 DEF SignalDatabase, TypeOK
<1> QED
  BY <1>1, <1>2, <1>3, <1>4, <1>5, <1>6, <1>7, <1>8, <1>9, <1>10, <1>11, <1>12,
     <1>13, <1>14, <1>15, <1>16, <1>17, <1>18 DEF Progress

\* Faults, new policies and new catalog versions.
LEMMA WorldType ==
    ASSUME TypeOK, Shape, Next, ~ \E w \in Workers : Begin(w) \/ Progress(w)
    PROVE  TypeOK'
<1>1. CASE \E w \in Workers : CatalogFault(w)
  BY <1>1, IdleIsOp DEF CatalogFault, Finish, TypeOK
<1>2. CASE \E r \in Replicas : Crash(r)
  BY <1>2, IdleIsOp DEF Crash, TypeOK
<1>3. CASE UpsertPolicy
  BY <1>3 DEF UpsertPolicy, TypeOK, Policy
<1>4. CASE PublishCatalog
  BY <1>4 DEF PublishCatalog, TypeOK
<1> QED BY <1>1, <1>2, <1>3, <1>4 DEF Next

-----------------------------------------------------------------------------

\* A call touches no other call.
LEMMA OtherCalls ==
    ASSUME TypeOK, NEW w \in Workers, Begin(w) \/ Progress(w) \/ CatalogFault(w),
           NEW u \in Workers, u # w
    PROVE  op'[u] = op[u]
<1> USE DEF TypeOK, Advance, Finish, StartTransition
<1>1. CASE Begin(w)
  BY <1>1 DEF Begin, BeginExplain, BeginApprove, BeginExecute, BeginCancel, Load
<1>2. CASE CatalogFault(w) BY <1>2 DEF CatalogFault
<1>3. CASE PrepareExplain(w) \/ PrepareApprove(w) \/ PrepareExecute(w)
  BY <1>3 DEF PrepareExplain, PrepareApprove, PrepareExecute
<1>4. CASE CheckApprovalPolicy(w) \/ CheckExecutionPolicy(w) \/ ReadForTransition(w)
  BY <1>4 DEF CheckApprovalPolicy, CheckExecutionPolicy, ReadForTransition
<1>5. CASE CommitTransition(w) \/ TransitionPolicyChanged(w) \/ TransitionConflict(w)
  BY <1>5 DEF CommitTransition, AfterTransition, TransitionPolicyChanged, TransitionConflict
<1>6. CASE \/ StartStatement(w) \/ StartStatementFails(w)
           \/ FinishStatement(w) \/ StatementFails(w)
  BY <1>6 DEF StartStatement, StartStatementFails, FinishStatement, StatementFails,
              ExecutorRaised
<1>7. CASE RecordExplain(w) \/ RecordExplainStale(w)
  BY <1>7 DEF RecordExplain, RecordExplainStale
<1>8. CASE LookUpFailed(w) \/ ProcessResult(w) \/ SignalDatabase(w)
  BY <1>8 DEF LookUpFailed, ProcessResult, SignalDatabase
<1> QED BY <1>1, <1>2, <1>3, <1>4, <1>5, <1>6, <1>7, <1>8 DEF Progress

\* What the ways of moving a call along do to its fields.
LEMMA AdvanceEffect ==
    ASSUME TypeOK, NEW w \in Workers, NEW step, Advance(w, step)
    PROVE  /\ op'[w].kind = op[w].kind /\ op'[w].step = step
           /\ op'[w].target = op[w].target /\ op'[w].current = op[w].current
BY DEF TypeOK, Advance, Op

\* Aiming a call at a state moves it to the read of a transition.
LEMMA StartTransitionEffect ==
    ASSUME TypeOK, NEW w \in Workers, NEW target, StartTransition(w, target)
    PROVE  /\ op'[w].kind = op[w].kind /\ op'[w].step = "transition"
           /\ op'[w].target = target
BY DEF TypeOK, StartTransition, Op

\* A finished call has no kind and no step left.
LEMMA FinishEffect ==
    ASSUME TypeOK, NEW w \in Workers, Finish(w)
    PROVE  /\ op'[w].kind = "none" /\ op'[w].step = "idle"
           /\ op'[w].target = "received"
BY DEF TypeOK, Finish, Idle

\* A passed policy check leads to the read of a transition.
LEMMA PolicyPassedEffect ==
    ASSUME TypeOK, NEW w \in Workers,
           op' = [op EXCEPT ![w].policyRevision = policy.revision, ![w].step = "transition"]
    PROVE  /\ op'[w].kind = op[w].kind /\ op'[w].step = "transition"
           /\ op'[w].target = op[w].target
BY DEF TypeOK, Op

\* The read of a transition leads to its transaction, on the row as it is.
LEMMA RowReadEffect ==
    ASSUME TypeOK, NEW w \in Workers,
           op' = [op EXCEPT ![w].step = "commit", ![w].current = ticket]
    PROVE  /\ op'[w].kind = op[w].kind /\ op'[w].step = "commit"
           /\ op'[w].target = op[w].target /\ op'[w].current = ticket
BY DEF TypeOK, Op

\* A call begins at its first step, aimed at its first state.
LEMMA LoadEffect ==
    ASSUME TypeOK, NEW w \in Workers, NEW kind, NEW states, NEW step, NEW values,
           NEW reviewed, Load(w, kind, states, step, values, reviewed)
    PROVE  /\ op'[w].kind = kind /\ op'[w].step = step
           /\ op'[w].target = FirstTarget[kind]
BY DEF TypeOK, Load, Idle

\* The worker that moves keeps its kind, step and target consistent.
LEMMA ShapeOfCall ==
    ASSUME TypeOK, NEW w \in Workers, OpShape(w), CommitShape(w),
           Begin(w) \/ Progress(w) \/ CatalogFault(w)
    PROVE  OpShape(w)' /\ CommitShape(w)'
<1> USE AdvanceEffect, StartTransitionEffect, FinishEffect DEF OpShape, CommitShape
<1>1. CASE Begin(w)
  BY <1>1, LoadEffect
     DEF Begin, BeginExplain, BeginApprove, BeginExecute, BeginCancel, FirstTarget
<1>2. CASE CatalogFault(w) BY <1>2 DEF CatalogFault
<1>3. CASE PrepareExplain(w) \/ PrepareApprove(w) \/ PrepareExecute(w)
  BY <1>3 DEF PrepareExplain, PrepareApprove, PrepareExecute
<1>4. CASE CheckApprovalPolicy(w) \/ CheckExecutionPolicy(w)
  BY <1>4, PolicyPassedEffect DEF CheckApprovalPolicy, CheckExecutionPolicy
<1>5. CASE ReadForTransition(w)
  BY <1>5, RowReadEffect DEF ReadForTransition, TransitionAccepted, TypeOK
<1>6. CASE CommitTransition(w)
  BY <1>6 DEF CommitTransition, AfterTransition
<1>7. CASE TransitionPolicyChanged(w) \/ TransitionConflict(w)
  BY <1>7 DEF TransitionPolicyChanged, TransitionConflict
<1>8. CASE StartStatement(w) \/ StartStatementFails(w)
  BY <1>8 DEF StartStatement, StartStatementFails, ExecutorRaised
<1>9. CASE FinishStatement(w) \/ StatementFails(w)
  BY <1>9 DEF FinishStatement, StatementFails, ExecutorRaised
<1>10. CASE RecordExplain(w) \/ RecordExplainStale(w)
  BY <1>10 DEF RecordExplain, RecordExplainStale
<1>11. CASE LookUpFailed(w) \/ ProcessResult(w) \/ SignalDatabase(w)
  BY <1>11 DEF LookUpFailed, ProcessResult, SignalDatabase
<1> QED
  BY <1>1, <1>2, <1>3, <1>4, <1>5, <1>6, <1>7, <1>8, <1>9, <1>10, <1>11 DEF Progress

\* Every step of the system keeps every call in shape.
LEMMA ShapeStep == ASSUME TypeOK, Shape, [Next]_vars PROVE Shape'
<1>1. CASE \E w \in Workers : Begin(w) \/ Progress(w) \/ CatalogFault(w)
  <2>1. PICK w \in Workers : Begin(w) \/ Progress(w) \/ CatalogFault(w) BY <1>1
  <2>2. OpShape(w)' /\ CommitShape(w)' BY <2>1, ShapeOfCall DEF Shape
  <2>3. ASSUME NEW u \in Workers, u # w PROVE OpShape(u)' /\ CommitShape(u)'
    BY <2>1, <2>3, OtherCalls DEF Shape, OpShape, CommitShape
  <2> QED BY <2>2, <2>3 DEF Shape
<1>2. CASE \E r \in Replicas : Crash(r)
  BY <1>2 DEF Crash, Shape, OpShape, CommitShape, Idle, TypeOK
<1>3. CASE UNCHANGED op
  BY <1>3 DEF Shape, OpShape, CommitShape
<1> QED BY <1>1, <1>2, <1>3 DEF Next, vars, UpsertPolicy, PublishCatalog

\* Every variable stays in its type, and every call at a step and target its kind
\* can have (the order of calls inside approve, explain, execute and cancel).
THEOREM TypeCorrect == Spec => [](TypeOK /\ Shape)
<1>1. Init => TypeOK /\ Shape
  BY InitType DEF Init, Shape, OpShape, CommitShape, Idle
<1>2. TypeOK /\ Shape /\ [Next]_vars => TypeOK' /\ Shape'
  <2> SUFFICES ASSUME TypeOK, Shape, [Next]_vars PROVE TypeOK'
    BY ShapeStep
  <2>1. CASE \E w \in Workers : Begin(w) \/ Progress(w)
    BY <2>1, BeginType, ProgressType DEF Shape
  <2>2. CASE Next /\ ~ \E w \in Workers : Begin(w) \/ Progress(w)
    BY <2>2, WorldType
  <2>3. CASE UNCHANGED vars BY <2>3 DEF vars, TypeOK
  <2> QED BY <2>1, <2>2, <2>3
<1> QED BY <1>1, <1>2, PTL DEF Spec

-----------------------------------------------------------------------------

\* A step that sends nothing, leaves the ticket's state and admits nobody.
LEMMA QuietStep ==
    ASSUME Admission, runs' = runs, ticket'.state = ticket.state,
           \A u \in Workers : Admitted(u)' => Admitted(u),
           \A u \in Workers : Sending(u)' => Sending(u)
    PROVE  Admission'
BY DEF Admission, StartedAtMostOnce

\* Such a step of one call, told by its own worker.
LEMMA QuietCall ==
    ASSUME TypeOK, Admission, NEW w \in Workers, Begin(w) \/ Progress(w) \/ CatalogFault(w),
           runs' = runs, ticket'.state = ticket.state,
           Admitted(w)' => Admitted(w), Sending(w)' => Sending(w)
    PROVE  Admission'
<1>1. \A u \in Workers : u # w => op'[u] = op[u] BY OtherCalls
<1>2. \A u \in Workers : Admitted(u)' => Admitted(u) BY <1>1 DEF Admitted
<1>3. \A u \in Workers : Sending(u)' => Sending(u) BY <1>1 DEF Sending
<1> QED BY <1>2, <1>3, QuietStep

\* The only way in: an approved ticket is claimed by the conditional update.
LEMMA CommitAdmission ==
    ASSUME TypeOK, Shape, Admission, NEW w \in Workers, CommitTransition(w)
    PROVE  Admission'
<1>1. \A u \in Workers : u # w => op'[u] = op[u]
  BY OtherCalls DEF Progress
<1>2. /\ ticket.state = op[w].current.state /\ ticket'.state = op[w].target
      /\ MayTransition(ticket.state, op[w].target)
      /\ op[w].step = "commit" /\ OpShape(w) /\ runs' = runs
  BY DEF CommitTransition, RowUnchanged, Shape, CommitShape, TypeOK, Row
<1>3. ticket'.state \in TicketStates
  BY <1>2 DEF MayTransition, Transitions, TicketStates, Admission
<1>4. CASE op[w].target = "executing"
  <2>1. ticket.state = "approved" BY <1>2, <1>4 DEF MayTransition, Transitions
  <2>2. runs = <<>> /\ \A u \in Workers : ~Admitted(u) BY <2>1 DEF Admission
  <2>3. \A u \in Workers : Admitted(u)' => u = w BY <1>1, <2>2 DEF Admitted
  <2> QED BY <1>2, <1>3, <1>4, <2>2, <2>3 DEF Admission, StartedAtMostOnce
<1>5. CASE op[w].target # "executing"
  <2>1. Admitted(w)' => Admitted(w)
    BY <1>2, <1>5, AdvanceEffect, StartTransitionEffect, FinishEffect
       DEF CommitTransition, AfterTransition, Admitted
  <2>2. ~Sending(w)'
    BY <1>2, <1>5, AdvanceEffect, StartTransitionEffect, FinishEffect
       DEF CommitTransition, AfterTransition, Sending
  <2>3. \A u \in Workers : Admitted(u)' => Admitted(u) BY <1>1, <2>1 DEF Admitted
  <2>4. \A u \in Workers : Sending(u)' => Sending(u) BY <1>1, <2>2 DEF Sending
  <2>5. CASE op[w].target \in {"ready_for_preview", "approved"}
    <3>1. ticket.state \in {"ready_for_preview", "approved"}
      BY <1>2, <2>5 DEF MayTransition, Transitions, Admission, TicketStates
    <3> QED BY <1>2, <1>3, <2>3, <2>4, <3>1 DEF Admission, StartedAtMostOnce
  <2>6. CASE op[w].target \notin {"ready_for_preview", "approved"}
    BY <1>2, <1>3, <2>3, <2>4, <2>6 DEF Admission, StartedAtMostOnce
  <2> QED BY <2>5, <2>6
<1> QED BY <1>4, <1>5

\* The admitted worker sends its statement once.
LEMMA SendAdmission ==
    ASSUME TypeOK, Shape, Admission, NEW w \in Workers, StartStatement(w)
    PROVE  Admission'
<1>1. \A u \in Workers : u # w => op'[u] = op[u]
  BY OtherCalls DEF Progress
<1>2. ticket' = ticket /\ op'[w].kind = op[w].kind /\ op'[w].step = "on_database"
  BY AdvanceEffect DEF StartStatement
<1>3. CASE op[w].kind # "execute"
  BY <1>2, <1>3, QuietCall DEF StartStatement, Progress, Admitted, Sending
<1>4. CASE op[w].kind = "execute"
  <2>1. Admitted(w) /\ Sending(w) BY <1>4 DEF StartStatement, Admitted, Sending
  <2>2. runs = <<>> /\ runs' = Append(runs, PreparedBy(w))
    BY <1>4, <2>1 DEF StartStatement, Admission
  <2>3. Len(runs') = 1 BY <2>2
  <2>4. \A u \in Workers : Admitted(u)' => u = w
    BY <1>1, <2>1 DEF Admitted, Admission
  <2>5. \A u \in Workers : ~Sending(u)'
    BY <1>1, <1>2, <2>1, <2>4 DEF Sending, Admitted
  <2>6. ticket.state \notin {"ready_for_preview", "approved"} BY <2>1 DEF Admission
  <2> QED BY <1>2, <2>3, <2>4, <2>5, <2>6 DEF Admission, StartedAtMostOnce
<1> QED BY <1>3, <1>4

\* Every step of a call keeps the admission invariant.
LEMMA CallAdmission ==
    ASSUME TypeOK, Shape, Admission, NEW w \in Workers,
           Begin(w) \/ Progress(w) \/ CatalogFault(w)
    PROVE  Admission'
<1>0. OpShape(w) BY DEF Shape
<1> USE <1>0, AdvanceEffect, StartTransitionEffect, FinishEffect, QuietCall
    DEF Admitted, Sending, Progress
<1>1. CASE Begin(w)
  <2>1. runs' = runs /\ ticket' = ticket
    BY <1>1 DEF Begin, BeginExplain, BeginApprove, BeginExecute, BeginCancel, Load
  <2>2. ~Admitted(w)' /\ ~Sending(w)'
    BY <1>1, LoadEffect
       DEF Begin, BeginExplain, BeginApprove, BeginExecute, BeginCancel, FirstTarget
  <2> QED BY <1>1, <2>1, <2>2
<1>2. CASE CatalogFault(w) BY <1>2 DEF CatalogFault
<1>3. CASE PrepareExplain(w) \/ PrepareApprove(w) \/ PrepareExecute(w)
  BY <1>3 DEF PrepareExplain, PrepareApprove, PrepareExecute
<1>4. CASE CheckApprovalPolicy(w) \/ CheckExecutionPolicy(w)
  BY <1>4, PolicyPassedEffect DEF CheckApprovalPolicy, CheckExecutionPolicy
<1>5. CASE ReadForTransition(w) BY <1>5, RowReadEffect DEF ReadForTransition
<1>6. CASE CommitTransition(w) BY <1>6, CommitAdmission
<1>7. CASE TransitionPolicyChanged(w) \/ TransitionConflict(w)
  BY <1>7 DEF TransitionPolicyChanged, TransitionConflict
<1>8. CASE StartStatement(w) BY <1>8, SendAdmission
<1>9. CASE StartStatementFails(w) BY <1>9 DEF StartStatementFails, ExecutorRaised
<1>10. CASE FinishStatement(w) \/ StatementFails(w)
  BY <1>10 DEF FinishStatement, StatementFails, ExecutorRaised
<1>11. CASE RecordExplain(w) \/ RecordExplainStale(w)
  BY <1>11 DEF RecordExplain, RecordExplainStale, TypeOK, Row
<1>12. CASE LookUpFailed(w) \/ ProcessResult(w) \/ SignalDatabase(w)
  BY <1>12 DEF LookUpFailed, ProcessResult, SignalDatabase
<1> QED
  BY <1>1, <1>2, <1>3, <1>4, <1>5, <1>6, <1>7, <1>8, <1>9, <1>10, <1>11, <1>12

\* So does every step of the system.
LEMMA AdmissionStep == ASSUME TypeOK, Shape, Admission, [Next]_vars PROVE Admission'
<1>1. CASE \E w \in Workers : Begin(w) \/ Progress(w) \/ CatalogFault(w)
  BY <1>1, CallAdmission
<1>2. CASE \E r \in Replicas : Crash(r)
  <2>1. \A u \in Workers : op'[u] = Idle \/ op'[u] = op[u] BY <1>2 DEF Crash
  <2> QED BY <1>2, <2>1, QuietStep DEF Crash, Admitted, Sending, Idle
<1>3. CASE UpsertPolicy \/ PublishCatalog \/ UNCHANGED vars
  BY <1>3, QuietStep DEF UpsertPolicy, PublishCatalog, vars, Admitted, Sending
<1> QED BY <1>1, <1>2, <1>3 DEF Next

\* The at-most-once guarantee of execution, for any deployment: the conditional
\* update from approved to executing is the only claim, and the lifecycle never
\* leads back from executing to approved.
THEOREM AtMostOnce == Spec => []StartedAtMostOnce
<1>1. Init => Admission
  BY DEF Init, Admission, TicketStates, Admitted, Sending, Idle, StartedAtMostOnce
<1>2. TypeOK /\ Shape /\ Admission /\ [Next]_vars => Admission'
  BY AdmissionStep
<1>3. Admission => StartedAtMostOnce BY DEF Admission
<1> QED BY <1>1, <1>2, <1>3, TypeCorrect, PTL DEF Spec

=============================================================================
