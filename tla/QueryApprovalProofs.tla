------------------------ MODULE QueryApprovalProofs ------------------------
(***************************************************************************)
(* What is approved, what is explained and what is run are the same, for   *)
(* any number of replicas, workers, statements, policies and faults.       *)
(*                                                                         *)
(* A call carries two copies of the row, one from its beginning and one    *)
(* from the read before its transaction.  The invariant says how an old    *)
(* copy still relates to the row, and what the call has checked on it.     *)
(***************************************************************************)
EXTENDS QueryExecutionProofs

Review == {"ready_for_preview", "approved"}

\* A row that agrees with itself, when the policy has revision n: an approval
\* exists when the state needs one, and binds the EXPLAIN on record; under a
\* policy there is one.
RowSound(row, n) ==
    /\ row \in Row /\ row.state \in TicketStates
    /\ row.state = "ready_for_preview" => row.approval = NoApproval
    /\ row.state \notin {"ready_for_preview", "cancelled"} => row.approval # NoApproval
    /\ row.approval # NoApproval =>
          /\ row.approval.explainRevision = row.explainRevision
          /\ row.plan # NoPlan => row.plan.prepared = row.approval.prepared
          /\ row.approval.policyRevision <= n
          /\ row.approval.policyRevision # 0 => row.plan # NoPlan

\* A copy of the row, perhaps an old one, beside the row t: an EXPLAIN revision
\* is never reused; once admitted the approval stays; without a policy it was
\* never withdrawn; the approval in force is not older than the copy's, nor a
\* second one from before there was a policy.
Snapshot(row, t, n) ==
    /\ RowSound(row, n)
    /\ row.explainRevision <= t.explainRevision
    /\ row.explainRevision = t.explainRevision => row.plan = t.plan
    /\ row.state \notin Review => t.state \notin Review /\ row.approval = t.approval
    /\ row.approval # NoApproval =>
          /\ n = 0 => row.approval = t.approval
          /\ t.state = "approved" =>
                /\ row.approval.policyRevision <= t.approval.policyRevision
                /\ t.approval.policyRevision = 0 => row.approval = t.approval

\* What a call has checked so far, on the copies it carries.
Checked(w) ==
    /\ op[w].kind = "approve" /\ op[w].step # "prepare" =>
          op[w].reviewed = op[w].seen.explainRevision
    /\ op[w].kind = "execute" /\ op[w].target = "executing" /\ op[w].step # "prepare" =>
          ApprovalMatches(w)
    /\ op[w].target \in {"approved", "executing"} /\ op[w].step \in {"transition", "commit"} =>
          /\ op[w].policyRevision <= policy.revision
          /\ op[w].policyRevision = policy.revision => PolicyAdmits(policy, op[w].seen.plan)
    /\ op[w].step = "commit" /\ op[w].target \in {"approved", "executing"} =>
          op[w].current.explainRevision = op[w].seen.explainRevision
    /\ op[w].step = "commit" /\ op[w].target = "approved" /\ op[w].current.plan # NoPlan =>
          op[w].current.plan.prepared = PreparedBy(w)

\* The copies a call carries, and what an admitted one is about to do or did.
CallSound(w) ==
    /\ op[w].kind # "none" => Snapshot(op[w].seen, ticket, policy.revision)
    /\ op[w].step = "commit" => Snapshot(op[w].current, ticket, policy.revision)
    /\ Checked(w)
    /\ Sending(w) =>
          /\ ticket.state \in {"executing", "cancelled"}
          /\ ticket.approval # NoApproval /\ ticket.approval.prepared = PreparedBy(w)
    /\ op[w].kind = "execute"
          /\ (op[w].step \in {"on_database", "process"}
                \/ op[w].target \in {"succeeded", "result_processing", "completed"}) =>
          runs # <<>>

Sound ==
    /\ RowSound(ticket, policy.revision)
    /\ RunsWhatWasApproved
    /\ \A w \in Workers : CallSound(w)

-----------------------------------------------------------------------------
(* What becomes of a copy when the row or the policy changes.              *)

\* The row is a copy of itself.
LEMMA FreshSnapshot ==
    ASSUME NEW t, NEW n, RowSound(t, n) PROVE Snapshot(t, t, n)
BY DEF Snapshot, RowSound, Row, Approval

\* A new policy has a revision of its own.
LEMMA PolicyKeepsSnapshots ==
    ASSUME NEW row, NEW t, NEW n \in Nat, Snapshot(row, t, n)
    PROVE  Snapshot(row, t, n + 1)
<1>1. row.approval # NoApproval => row.approval.policyRevision \in Nat
  BY DEF Snapshot, RowSound, Row, Approval
<1> QED BY <1>1 DEF Snapshot, RowSound

\* An EXPLAIN is recorded under a new revision, while nothing is approved.
LEMMA ExplainKeepsSnapshots ==
    ASSUME NEW t, NEW u \in Row, NEW n, RowSound(t, n),
           t.state = "ready_for_preview",
           u.state = t.state, u.approval = t.approval,
           u.explainRevision = t.explainRevision + 1
    PROVE  /\ RowSound(u, n)
           /\ \A row : Snapshot(row, t, n) => Snapshot(row, u, n)
<1>1. RowSound(u, n) BY DEF RowSound
<1>2. ASSUME NEW row, Snapshot(row, t, n) PROVE Snapshot(row, u, n)
  <2>1. row.explainRevision \in Nat /\ t.explainRevision \in Nat
    BY <1>2 DEF Snapshot, RowSound, Row
  <2> QED BY <1>2, <2>1 DEF Snapshot
<1> QED BY <1>1, <1>2

\* A transaction that found the row as its call had read it: an approval given,
\* withdrawn, or carried over from the copy.
LEMMA CommitKeepsSnapshots ==
    ASSUME NEW t, NEW c, NEW u \in Row, NEW n \in Nat, NEW target,
           RowSound(t, n), Snapshot(c, t, n),
           c.state = t.state, c.explainRevision = t.explainRevision,
           MayTransition(t.state, target),
           u.state = target, u.explainRevision = t.explainRevision, u.plan = t.plan,
           target = "approved" =>
              /\ u.approval # NoApproval
              /\ u.approval.explainRevision = t.explainRevision
              /\ u.approval.policyRevision = n
              /\ t.plan # NoPlan => t.plan.prepared = u.approval.prepared
              /\ n # 0 => t.plan # NoPlan,
           target = "ready_for_preview" =>
              u.approval = NoApproval /\ c.approval.policyRevision # n,
           target \notin Review => u.approval = c.approval
    PROVE  /\ RowSound(u, n)
           /\ \A row : Snapshot(row, t, n) => Snapshot(row, u, n)
<1>1. t.state \in TicketStates /\ target \in TicketStates
  BY DEF RowSound, MayTransition, Transitions, TicketStates
<1>2. c.plan = t.plan BY DEF Snapshot
<1>3. CASE target = "approved"
  <2>1. t.state = "ready_for_preview" /\ t.approval = NoApproval
    BY <1>1, <1>3 DEF MayTransition, Transitions, TicketStates, RowSound
  <2>2. RowSound(u, n) BY <1>1, <1>3 DEF RowSound
  <2>3. ASSUME NEW row, Snapshot(row, t, n) PROVE Snapshot(row, u, n)
    BY <1>3, <2>1, <2>3 DEF Snapshot, RowSound, Review
  <2> QED BY <2>2, <2>3
<1>4. CASE target = "ready_for_preview"
  <2>1. t.state = "approved"
    BY <1>1, <1>4 DEF MayTransition, Transitions, TicketStates
  <2>2. RowSound(u, n) BY <1>1, <1>4 DEF RowSound
  <2>3. n # 0
    <3>1. c.approval # NoApproval /\ c.approval.policyRevision <= n
      BY <2>1 DEF Snapshot, RowSound
    <3>2. c.approval.policyRevision \in Nat
      BY <3>1 DEF Snapshot, RowSound, Row, Approval
    <3> QED BY <1>4, <3>1, <3>2
  <2>4. ASSUME NEW row, Snapshot(row, t, n) PROVE Snapshot(row, u, n)
    BY <1>4, <2>1, <2>3, <2>4 DEF Snapshot, Review
  <2> QED BY <2>2, <2>4
<1>5. CASE target \notin Review
  <2>1. u.approval = c.approval BY <1>5
  <2>2. target # "cancelled" => t.state \notin {"ready_for_preview", "cancelled"}
    BY <1>1, <1>5 DEF MayTransition, Transitions, TicketStates, Review
  <2>3. RowSound(u, n)
    BY <1>1, <1>2, <1>5, <2>1, <2>2 DEF RowSound, Snapshot, Review
  <2>4. t.state \notin Review \/ n = 0 => u.approval = t.approval
    <3>1. CASE c.approval # NoApproval
      BY <2>1, <3>1 DEF Snapshot
    <3>2. CASE c.approval = NoApproval
      <4>1. c.state \in {"ready_for_preview", "cancelled"}
        BY <3>2 DEF Snapshot, RowSound
      <4> QED BY <2>1, <3>2, <4>1 DEF Snapshot, RowSound, Review
    <3> QED BY <3>1, <3>2
  <2>5. ASSUME NEW row, Snapshot(row, t, n) PROVE Snapshot(row, u, n)
    BY <1>5, <2>4, <2>5 DEF Snapshot, Review
  <2> QED BY <2>3, <2>5
<1> QED BY <1>3, <1>4, <1>5 DEF Review

-----------------------------------------------------------------------------
(* The other calls, and the steps that change the row.                     *)

\* A call that does not move keeps what it carries, when its copies still stand
\* and an approval is not changed under it while it is about to send.
LEMMA OtherCallSound ==
    ASSUME TypeOK, NEW u \in Workers, CallSound(u), op'[u] = op[u],
           \A row : Snapshot(row, ticket, policy.revision)
                      => Snapshot(row, ticket', policy'.revision),
           policy' = policy \/ policy'.revision = policy.revision + 1,
           runs # <<>> => runs' # <<>>,
           Sending(u) => /\ ticket'.approval = ticket.approval
                         /\ ticket'.state = ticket.state \/ ticket'.state = "cancelled"
    PROVE  CallSound(u)'
<1>1. op[u].policyRevision \in Nat /\ policy.revision \in Nat
  BY DEF TypeOK, Op, Policy
<1>2. Checked(u)'
  <2>1. ApprovalMatches(u)' = ApprovalMatches(u) /\ PreparedBy(u)' = PreparedBy(u)
    BY DEF ApprovalMatches, PreparedBy
  <2>2. CASE policy' = policy
    BY <2>1, <2>2 DEF CallSound, Checked
  <2>3. CASE policy'.revision = policy.revision + 1
    <3>1. op[u].policyRevision <= policy.revision =>
             op[u].policyRevision <= policy'.revision /\ op[u].policyRevision # policy'.revision
      BY <1>1, <2>3
    <3> QED BY <2>1, <3>1 DEF CallSound, Checked
  <2> QED BY <2>2, <2>3
<1>3. /\ op'[u].kind # "none" => Snapshot(op'[u].seen, ticket', policy'.revision)
      /\ op'[u].step = "commit" => Snapshot(op'[u].current, ticket', policy'.revision)
  BY DEF CallSound
<1>4. Sending(u)' =>
         /\ ticket'.state \in {"executing", "cancelled"}
         /\ ticket'.approval # NoApproval /\ ticket'.approval.prepared = PreparedBy(u)'
  BY DEF CallSound, Sending, PreparedBy
<1>5. op'[u].kind = "execute"
          /\ (op'[u].step \in {"on_database", "process"}
                \/ op'[u].target \in {"succeeded", "result_processing", "completed"}) =>
          runs' # <<>>
  BY DEF CallSound
<1> QED BY <1>2, <1>3, <1>4, <1>5 DEF CallSound

\* A call that has ended carries nothing.
LEMMA IdleCallSound ==
    ASSUME NEW w \in Workers, op'[w] = Idle PROVE CallSound(w)'
BY DEF CallSound, Checked, Sending, Idle

\* A step that leaves the row, the policy and what was sent alone is sound when
\* its own call is.
LEMMA QuietSound ==
    ASSUME TypeOK, Sound, NEW w \in Workers, Begin(w) \/ Progress(w) \/ CatalogFault(w),
           ticket' = ticket, policy' = policy, runs' = runs, CallSound(w)'
    PROVE  Sound'
<1>1. ASSUME NEW u \in Workers PROVE CallSound(u)'
  <2>1. CASE u # w
    <3>1. op'[u] = op[u] BY <2>1, OtherCalls
    <3>2. CallSound(u) BY DEF Sound
    <3> QED BY <3>1, <3>2, OtherCallSound
  <2> QED BY <2>1
<1>2. RowSound(ticket, policy.revision)' BY DEF Sound
<1>3. RunsWhatWasApproved' BY DEF Sound, RunsWhatWasApproved
<1> QED BY <1>1, <1>2, <1>3 DEF Sound

\* The transaction of a transition: an approval binds what its call prepared for
\* the plan on record, an admission makes the approved statement the one to send.
LEMMA CommitSound ==
    ASSUME TypeOK, Shape, Admission, Sound, NEW w \in Workers, CommitTransition(w)
    PROVE  Sound'
<1> DEFINE c == op[w].current
           n == policy.revision
<1>1. /\ OpShape(w) /\ CommitShape(w) /\ CallSound(w) /\ RowSound(ticket, n)
      /\ op[w].step = "commit" /\ op[w].kind # "none" /\ op[w].kind # "explain"
      /\ op[w] \in Op /\ n \in Nat /\ op[w].target \in States /\ op[w].kind \in Kinds
  BY DEF Shape, Sound, CommitTransition, OpShape, TypeOK, Op, Policy
<1>2. /\ Snapshot(c, ticket, n) /\ Snapshot(op[w].seen, ticket, n) /\ Checked(w)
      /\ MayTransition(c.state, op[w].target)
  BY <1>1 DEF CallSound, CommitShape
<1>3. /\ ticket.state = c.state /\ ticket.explainRevision = c.explainRevision
      /\ PolicyUnchanged(w) /\ ~ReopenRefused(w) /\ policy' = policy /\ runs' = runs
  BY DEF CommitTransition, RowUnchanged
<1>4. /\ ticket'.state = op[w].target /\ ticket'.approval = ApprovalWritten(w)
      /\ ticket'.explainRevision = ticket.explainRevision /\ ticket'.plan = ticket.plan
  BY DEF CommitTransition, TypeOK, Row
<1>5. ticket' \in Row BY <1>1, CommitType DEF TypeOK
<1>6. op[w].target = "approved" =>
         /\ ticket'.approval # NoApproval
         /\ ticket'.approval.explainRevision = ticket.explainRevision
         /\ ticket'.approval.policyRevision = n
         /\ ticket.plan # NoPlan => ticket.plan.prepared = ticket'.approval.prepared
         /\ n # 0 => ticket.plan # NoPlan
  <2> SUFFICES ASSUME op[w].target = "approved"
               PROVE  /\ ticket'.approval # NoApproval
                      /\ ticket'.approval.explainRevision = ticket.explainRevision
                      /\ ticket'.approval.policyRevision = n
                      /\ ticket.plan # NoPlan => ticket.plan.prepared = ticket'.approval.prepared
                      /\ n # 0 => ticket.plan # NoPlan
    OBVIOUS
  <2>1. ticket'.approval = [prepared |-> PreparedBy(w), explainRevision |-> c.explainRevision,
                            policyRevision |-> op[w].policyRevision]
    BY <1>4 DEF ApprovalWritten
  <2>2. ticket'.approval \in Approval
    BY <2>1, <1>1, <1>2, PreparedType DEF Approval, Op, Snapshot, RowSound, Row
  <2>3. c.plan = ticket.plan BY <1>2, <1>3 DEF Snapshot
  <2>4. op[w].policyRevision = n BY <1>3 DEF PolicyUnchanged
  <2>5. ticket.plan # NoPlan => ticket.plan.prepared = PreparedBy(w)
    BY <1>1, <1>2, <2>3 DEF Checked
  <2>6. op[w].seen.plan = ticket.plan /\ PolicyAdmits(policy, op[w].seen.plan)
    BY <1>1, <1>2, <1>3, <2>4 DEF Checked, Snapshot
  <2>7. n # 0 => ticket.plan # NoPlan
    BY <1>1, <2>6 DEF PolicyAdmits
  <2> QED BY <1>3, <2>1, <2>2, <2>4, <2>5, <2>7, NullAssumption
<1>7. op[w].target = "ready_for_preview" =>
         ticket'.approval = NoApproval /\ c.approval.policyRevision # n
  BY <1>3, <1>4 DEF ApprovalWritten, ReopenRefused
<1>8. op[w].target \notin Review => ticket'.approval = c.approval
  BY <1>4 DEF ApprovalWritten, Review
<1>9. /\ RowSound(ticket', n)
      /\ \A row : Snapshot(row, ticket, n) => Snapshot(row, ticket', n)
  BY <1>1, <1>2, <1>3, <1>4, <1>5, <1>6, <1>7, <1>8, CommitKeepsSnapshots
<1>10. ticket.state \notin Review => ticket'.approval = ticket.approval /\ ticket'.state \notin Review
  <2>1. ticket.state \notin Review => op[w].target \notin Review
    BY <1>2, <1>3, <1>1 DEF MayTransition, Transitions, Review, RowSound, TicketStates
  <2> QED BY <1>2, <1>3, <1>4, <1>8, <2>1 DEF Snapshot
<1>11. RunsWhatWasApproved'
  <2>1. CASE runs = <<>>
    <3>1. op[w].target \notin {"succeeded", "result_processing", "completed"}
      BY <1>1, <2>1 DEF CallSound, OpShape, Kinds
    <3> QED BY <1>3, <1>4, <2>1, <3>1 DEF RunsWhatWasApproved
  <2>2. CASE runs # <<>>
    <3>1. ticket.state \notin Review BY <2>2 DEF Admission, Review
    <3> QED BY <1>3, <1>10, <2>2, <3>1 DEF RunsWhatWasApproved, Sound
  <2> QED BY <2>1, <2>2
<1>12. ASSUME NEW u \in Workers, u # w PROVE CallSound(u)'
  <2>1. op'[u] = op[u] BY <1>12, OtherCalls DEF Progress
  <2>2. CallSound(u) BY DEF Sound
  <2>3. Sending(u) => ticket'.approval = ticket.approval /\ ticket'.state = "cancelled"
    <3> SUFFICES ASSUME Sending(u)
                 PROVE  ticket'.approval = ticket.approval /\ ticket'.state = "cancelled"
      OBVIOUS
    <3>1. ticket.state \in {"executing", "cancelled"} /\ runs = <<>> /\ Admitted(u)
      BY <2>2 DEF CallSound, Admission, Sending, Admitted
    <3>2. ~Admitted(w) BY <1>12, <3>1 DEF Admission
    <3>3. op[w].target \in {"succeeded", "failed_execution", "cancelled"}
      BY <1>2, <1>3, <3>1 DEF MayTransition, Transitions
    <3>4. op[w].target = "cancelled"
      BY <1>1, <3>2, <3>3 DEF OpShape, Kinds, Admitted
    <3> QED BY <1>4, <1>10, <3>1, <3>4 DEF Review
  <2> QED BY <1>3, <1>9, <2>1, <2>2, <2>3, OtherCallSound
<1>13. CallSound(w)'
  <2>1. CASE op[w].target = "executing"
    <3>1. op' = [op EXCEPT ![w].step = "dispatch"]
      BY <2>1 DEF CommitTransition, AfterTransition, Advance
    <3>2. op'[w] = [op[w] EXCEPT !.step = "dispatch"] BY <3>1 DEF TypeOK
    <3>3. op[w].kind = "execute" BY <1>1, <2>1 DEF OpShape, Kinds
    <3>4. /\ ApprovalMatches(w) /\ c.explainRevision = op[w].seen.explainRevision
          /\ op[w].policyRevision = n /\ c.approval.policyRevision = n
          /\ PolicyAdmits(policy, op[w].seen.plan)
      BY <1>1, <1>2, <1>3, <2>1, <3>3 DEF Checked, PolicyUnchanged
    <3>5. c.plan = ticket.plan /\ op[w].seen.plan = ticket.plan
      BY <1>2, <1>3, <3>4 DEF Snapshot
    <3>6. c.state = "approved" BY <1>2, <2>1 DEF MayTransition, Transitions
    <3>7. c.approval # NoApproval BY <1>2, <3>6 DEF Snapshot, RowSound
    <3>8. op[w].seen.approval # NoApproval /\ op[w].seen.approval.prepared = PreparedBy(w)
      BY <3>4 DEF ApprovalMatches
    <3>9. c.approval.prepared = PreparedBy(w)
      <4>1. CASE ticket.plan # NoPlan
        BY <1>2, <3>5, <3>7, <3>8, <4>1 DEF Snapshot, RowSound
      <4>2. CASE ticket.plan = NoPlan
        <5>1. n = 0 BY <1>1, <3>4, <3>5, <4>2 DEF PolicyAdmits
        <5> QED BY <1>2, <3>7, <3>8, <5>1 DEF Snapshot
      <4> QED BY <4>1, <4>2
    <3>10. ticket'.approval # NoApproval /\ ticket'.approval.prepared = PreparedBy(w)
      BY <1>8, <2>1, <3>7, <3>9 DEF Review
    <3>11. PreparedBy(w)' = PreparedBy(w) /\ ApprovalMatches(w)' = ApprovalMatches(w)
      BY <1>1, <3>2 DEF PreparedBy, ApprovalMatches, Op
    <3>12. /\ op'[w].step = "dispatch" /\ op'[w].kind = "execute"
           /\ op'[w].target = "executing" /\ op'[w].seen = op[w].seen
      BY <1>1, <2>1, <3>2, <3>3 DEF Op
    <3>13. Checked(w)' BY <3>4, <3>11, <3>12 DEF Checked
    <3> QED BY <1>2, <1>3, <1>4, <1>9, <2>1, <3>10, <3>11, <3>12, <3>13 DEF CallSound
  <2>2. CASE op[w].target = "succeeded" \/ op[w].target = "result_processing"
    <3>1. op[w].kind = "execute" /\ runs # <<>>
      BY <1>1, <2>2 DEF OpShape, Kinds, CallSound
    <3>2. /\ op'[w].kind = "execute" /\ op'[w].step \in {"transition", "process"}
          /\ op'[w].target = "result_processing" /\ op'[w].seen = op[w].seen
      BY <1>1, <2>2, <3>1
         DEF CommitTransition, AfterTransition, Advance, StartTransition, TypeOK, Op
    <3>3. Checked(w)' BY <3>2 DEF Checked
    <3> QED BY <1>2, <1>3, <1>9, <3>1, <3>2, <3>3 DEF CallSound, Sending
  <2>3. CASE op[w].target \notin {"executing", "succeeded", "result_processing"}
    <3>1. op'[w] = Idle
      BY <2>3 DEF CommitTransition, AfterTransition, Finish, TypeOK
    <3> QED BY <3>1, IdleCallSound
  <2> QED BY <2>1, <2>2, <2>3
<1> QED BY <1>3, <1>9, <1>11, <1>12, <1>13 DEF Sound

\* An EXPLAIN is recorded while nothing is approved and nobody sends.
LEMMA ExplainSound ==
    ASSUME TypeOK, Shape, Admission, Sound, NEW w \in Workers, CommitShape(w), RecordExplain(w)
    PROVE  Sound'
<1>1. /\ ticket.state = "ready_for_preview" /\ policy' = policy /\ runs' = runs
      /\ ticket.explainRevision = op[w].seen.explainRevision
      /\ RowSound(ticket, policy.revision) /\ ticket \in Row
  BY DEF RecordExplain, Sound, TypeOK
<1>2. /\ ticket'.state = ticket.state /\ ticket'.approval = ticket.approval
      /\ ticket'.explainRevision = ticket.explainRevision + 1
  BY <1>1 DEF RecordExplain, Row
<1>3. ticket' \in Row BY ProgressType DEF Progress, TypeOK
<1>4. /\ RowSound(ticket', policy.revision)
      /\ \A row : Snapshot(row, ticket, policy.revision) => Snapshot(row, ticket', policy.revision)
  BY <1>1, <1>2, <1>3, ExplainKeepsSnapshots
<1>5. ASSUME NEW u \in Workers PROVE CallSound(u)'
  <2>1. CASE u = w
    <3>1. op'[w] = Idle BY DEF RecordExplain, Finish, TypeOK
    <3> QED BY <2>1, <3>1, IdleCallSound
  <2>2. CASE u # w
    <3>1. op'[u] = op[u] BY <2>2, OtherCalls DEF Progress
    <3>2. CallSound(u) BY DEF Sound
    <3> QED BY <1>1, <1>2, <1>4, <3>1, <3>2, OtherCallSound
  <2> QED BY <2>1, <2>2
<1>6. RunsWhatWasApproved' BY <1>1, <1>2 DEF Sound, RunsWhatWasApproved
<1> QED BY <1>1, <1>4, <1>5, <1>6 DEF Sound

\* The statement sent is the one prepared, which is the approved one.
LEMMA SendSound ==
    ASSUME TypeOK, Shape, Admission, Sound, NEW w \in Workers, StartStatement(w)
    PROVE  Sound'
<1>1. /\ ticket' = ticket /\ policy' = policy /\ op[w].step = "dispatch"
      /\ op' = [op EXCEPT ![w].step = "on_database"] /\ CallSound(w) /\ OpShape(w)
  BY DEF StartStatement, Advance, Sound, Shape
<1>2. /\ op'[w].kind = op[w].kind /\ op'[w].step = "on_database"
      /\ op'[w].target = op[w].target /\ op'[w].seen = op[w].seen
      /\ op'[w].reviewed = op[w].reviewed /\ op'[w].values = op[w].values
  BY <1>1 DEF TypeOK, Op
<1>3. PreparedBy(w)' = PreparedBy(w) /\ ApprovalMatches(w)' = ApprovalMatches(w)
  BY <1>2 DEF PreparedBy, ApprovalMatches
<1>4. CASE op[w].kind # "execute"
  <2>1. runs' = runs BY <1>4 DEF StartStatement
  <2>2. CallSound(w)'
    BY <1>1, <1>2, <1>3, <1>4, <2>1 DEF CallSound, Checked, Sending, OpShape
  <2> QED BY <1>1, <2>1, <2>2, QuietSound DEF Progress
<1>5. CASE op[w].kind = "execute"
  <2>1. Sending(w) /\ Admitted(w) BY <1>1, <1>5 DEF Sending, Admitted
  <2>2. runs = <<>> /\ runs' = Append(runs, PreparedBy(w))
    BY <1>5, <2>1 DEF StartStatement, Admission
  <2>3. ticket.approval # NoApproval /\ ticket.approval.prepared = PreparedBy(w)
    BY <1>1, <2>1 DEF CallSound
  <2>4. Len(runs') = 1 /\ runs'[1] = PreparedBy(w) /\ runs' # <<>> BY <2>2
  <2>5. RunsWhatWasApproved'
    BY <1>1, <2>3, <2>4 DEF RunsWhatWasApproved
  <2>6. CallSound(w)'
    BY <1>1, <1>2, <1>3, <1>5, <2>4 DEF CallSound, Checked, Sending
  <2>7. ASSUME NEW u \in Workers, u # w PROVE CallSound(u)'
    <3>1. op'[u] = op[u] BY <2>7, OtherCalls DEF Progress
    <3>2. CallSound(u) BY DEF Sound
    <3> QED BY <1>1, <2>4, <3>1, <3>2, OtherCallSound
  <2> QED BY <1>1, <2>5, <2>6, <2>7 DEF Sound
<1> QED BY <1>4, <1>5

-----------------------------------------------------------------------------
(* The steps that only move their call.                                    *)

\* A call begins with a copy of the row.
LEMMA BeginSound ==
    ASSUME TypeOK, Sound, NEW w \in Workers, Begin(w) PROVE Sound'
<1>1. ASSUME NEW kind \in {"explain", "approve", "execute", "cancel"}, NEW states,
             NEW step \in {"prepare", "transition", "signal"},
             NEW values, NEW reviewed, Load(w, kind, states, step, values, reviewed),
             step # "prepare" => kind = "cancel"
      PROVE  CallSound(w)' /\ ticket' = ticket /\ policy' = policy /\ runs' = runs
  <2>1. /\ op'[w].kind = kind /\ op'[w].step = step /\ op'[w].seen = ticket
        /\ op'[w].target \in {"ready_for_preview", "approved", "executing", "cancelled"}
        /\ kind = "cancel" => op'[w].target = "cancelled"
    BY <1>1 DEF Load, TypeOK, Idle, FirstTarget
  <2>2. ticket' = ticket /\ policy' = policy /\ runs' = runs BY <1>1 DEF Load
  <2>3. Snapshot(ticket, ticket, policy.revision) BY FreshSnapshot DEF Sound
  <2>4. Checked(w)' BY <1>1, <2>1 DEF Checked
  <2>5. CallSound(w)' BY <1>1, <2>1, <2>2, <2>3, <2>4 DEF CallSound, Sending
  <2> QED BY <2>2, <2>5
<1>2. CallSound(w)' /\ ticket' = ticket /\ policy' = policy /\ runs' = runs
  BY <1>1 DEF Begin, BeginExplain, BeginApprove, BeginExecute, BeginCancel
<1> QED BY <1>2, QuietSound

\* What was prepared is what was approved, or the call ends.
LEMMA PrepareSound ==
    ASSUME TypeOK, Sound, NEW w \in Workers, OpShape(w),
           PrepareExplain(w) \/ PrepareApprove(w) \/ PrepareExecute(w)
    PROVE  Sound'
<1>1. CallSound(w) /\ ticket' = ticket /\ policy' = policy /\ runs' = runs
  BY DEF Sound, PrepareExplain, PrepareApprove, PrepareExecute
<1>2. CASE Finish(w)
  <2>1. op'[w] = Idle BY <1>2 DEF Finish, TypeOK
  <2> QED BY <1>1, <2>1, IdleCallSound, QuietSound DEF Progress
<1>3. CASE ~Finish(w)
  <2>1. PICK step \in {"dispatch", "policy"} : Advance(w, step)
    BY <1>3 DEF PrepareExplain, PrepareApprove, PrepareExecute
  <2>2. /\ op'[w].kind = op[w].kind /\ op'[w].step = step /\ op'[w].seen = op[w].seen
        /\ op'[w].reviewed = op[w].reviewed /\ op'[w].values = op[w].values
        /\ op'[w].target = op[w].target
    BY <2>1 DEF Advance, TypeOK, Op
  <2>3. PreparedBy(w)' = PreparedBy(w) /\ ApprovalMatches(w)' = ApprovalMatches(w)
    BY <2>2 DEF PreparedBy, ApprovalMatches
  <2>4. /\ op[w].step = "prepare"
        /\ op[w].kind = "explain" \/ (op[w].kind \in {"approve", "execute"} /\ step = "policy")
    <3>1. CASE PrepareExplain(w) BY <3>1 DEF PrepareExplain
    <3>2. CASE PrepareApprove(w)
      BY <1>3, <2>2, <3>2, AdvanceEffect DEF PrepareApprove, Steps
    <3>3. CASE PrepareExecute(w)
      BY <1>3, <2>2, <3>3, AdvanceEffect DEF PrepareExecute, Steps
    <3> QED BY <3>1, <3>2, <3>3
  <2>5. /\ op[w].kind = "approve" => op[w].reviewed = op[w].seen.explainRevision
        /\ op[w].kind = "execute" => ApprovalMatches(w)
    BY <1>3 DEF PrepareExplain, PrepareApprove, PrepareExecute
  <2>6. Checked(w)' BY <2>2, <2>3, <2>4, <2>5 DEF Checked
  <2>7. CallSound(w)' BY <1>1, <2>2, <2>4, <2>6 DEF CallSound, Sending
  <2> QED BY <1>1, <2>7, QuietSound DEF Progress
<1> QED BY <1>2, <1>3

\* A call that ends leaves nothing behind.
LEMMA FinishSound ==
    ASSUME TypeOK, Sound, NEW w \in Workers, Begin(w) \/ Progress(w) \/ CatalogFault(w),
           Finish(w), ticket' = ticket, policy' = policy, runs' = runs
    PROVE  Sound'
<1>1. op'[w] = Idle BY DEF Finish, TypeOK
<1> QED BY <1>1, IdleCallSound, QuietSound

\* A call that aims at the next state, having run its statement or failed.
LEMMA StartTransitionSound ==
    ASSUME TypeOK, Sound, NEW w \in Workers, Progress(w), OpShape(w),
           NEW target \in States \ {"approved", "executing"},
           StartTransition(w, target), op[w].kind \in {"execute", "cancel"},
           target \in {"succeeded", "result_processing", "completed"} => runs # <<>>,
           ticket' = ticket, policy' = policy, runs' = runs
    PROVE  Sound'
<1>1. /\ op'[w].kind = op[w].kind /\ op'[w].step = "transition" /\ op'[w].target = target
      /\ op'[w].seen = op[w].seen
  BY DEF StartTransition, TypeOK, Op
<1>2. CallSound(w) BY DEF Sound
<1>3. Checked(w)' BY <1>1 DEF Checked
<1>4. CallSound(w)' BY <1>1, <1>2, <1>3 DEF CallSound, Sending
<1> QED BY <1>4, QuietSound

\* The policy a call met is remembered with what it admitted.
LEMMA PolicySound ==
    ASSUME TypeOK, Sound, NEW w \in Workers, OpShape(w),
           CheckApprovalPolicy(w) \/ CheckExecutionPolicy(w)
    PROVE  Sound'
<1>1. CallSound(w) /\ ticket' = ticket /\ policy' = policy /\ runs' = runs
  BY DEF Sound, CheckApprovalPolicy, CheckExecutionPolicy
<1>2. CASE Finish(w) BY <1>1, <1>2, FinishSound DEF Progress
<1>3. CASE StartTransition(w, "ready_for_preview")
  <2>1. CASE CheckApprovalPolicy(w)
    <3>1. op[w].kind = "approve" /\ op[w].target = "approved" BY <2>1 DEF CheckApprovalPolicy, OpShape
    <3>2. op'[w].target = "ready_for_preview" /\ op'[w].kind = "approve"
      BY <1>3, <3>1, StartTransitionEffect
    <3>3. CASE op' = [op EXCEPT ![w].policyRevision = policy.revision, ![w].step = "transition"]
      BY <3>1, <3>2, <3>3, PolicyPassedEffect
    <3> QED BY <2>1, <1>1, <3>3, FinishSound DEF CheckApprovalPolicy, Progress
  <2>2. CASE CheckExecutionPolicy(w)
    BY <1>1, <1>3, <2>2, StartTransitionSound DEF CheckExecutionPolicy, States, Progress
  <2> QED BY <2>1, <2>2
<1>4. CASE /\ op' = [op EXCEPT ![w].policyRevision = policy.revision, ![w].step = "transition"]
           /\ PolicyAdmits(policy, op[w].seen.plan)
  <2>1. /\ op'[w].kind = op[w].kind /\ op'[w].step = "transition" /\ op'[w].seen = op[w].seen
        /\ op'[w].reviewed = op[w].reviewed /\ op'[w].values = op[w].values
        /\ op'[w].target = op[w].target /\ op'[w].policyRevision = policy.revision
    BY <1>4 DEF TypeOK, Op
  <2>2. PreparedBy(w)' = PreparedBy(w) /\ ApprovalMatches(w)' = ApprovalMatches(w)
    BY <2>1 DEF PreparedBy, ApprovalMatches
  <2>3. op[w].step = "policy" /\ policy.revision \in Nat
    BY DEF CheckApprovalPolicy, CheckExecutionPolicy, TypeOK, Policy
  <2>4. PolicyAdmits(policy', op'[w].seen.plan) BY <1>1, <1>4, <2>1
  <2>5. Checked(w)' BY <1>1, <2>1, <2>2, <2>3, <2>4 DEF CallSound, Checked
  <2>6. CallSound(w)' BY <1>1, <2>1, <2>3, <2>5 DEF CallSound, Sending
  <2> QED BY <1>1, <2>6, QuietSound DEF Progress
<1> QED BY <1>2, <1>3, <1>4 DEF CheckApprovalPolicy, CheckExecutionPolicy

\* The read of a transition takes a fresh copy, accepted as it is.
LEMMA ReadSound ==
    ASSUME TypeOK, Sound, NEW w \in Workers, OpShape(w), ReadForTransition(w)
    PROVE  Sound'
<1>1. CallSound(w) /\ ticket' = ticket /\ policy' = policy /\ runs' = runs
  BY DEF Sound, ReadForTransition
<1>2. CASE ~TransitionAccepted(w, ticket)
  BY <1>1, <1>2, FinishSound DEF ReadForTransition, Progress
<1>3. CASE TransitionAccepted(w, ticket)
  <2>1. /\ op'[w].kind = op[w].kind /\ op'[w].step = "commit" /\ op'[w].seen = op[w].seen
        /\ op'[w].reviewed = op[w].reviewed /\ op'[w].values = op[w].values
        /\ op'[w].target = op[w].target /\ op'[w].policyRevision = op[w].policyRevision
        /\ op'[w].current = ticket
    BY <1>3 DEF ReadForTransition, TypeOK, Op
  <2>2. PreparedBy(w)' = PreparedBy(w) /\ ApprovalMatches(w)' = ApprovalMatches(w)
    BY <2>1 DEF PreparedBy, ApprovalMatches
  <2>3. op[w].step = "transition" BY DEF ReadForTransition
  <2>4. Snapshot(ticket, ticket, policy.revision) BY FreshSnapshot DEF Sound
  <2>5. Checked(w)'
    BY <1>1, <1>3, <2>1, <2>2, <2>3 DEF CallSound, Checked, TransitionAccepted
  <2>6. op[w].kind # "none" BY <2>3 DEF OpShape
  <2>7. CallSound(w)' BY <1>1, <2>1, <2>3, <2>4, <2>5, <2>6 DEF CallSound, Sending
  <2> QED BY <1>1, <2>7, QuietSound DEF Progress
<1> QED BY <1>2, <1>3

\* A transaction that changes nothing, and the outcomes of a statement.
LEMMA OutcomeSound ==
    ASSUME TypeOK, Sound, NEW w \in Workers, OpShape(w),
           \/ TransitionPolicyChanged(w) \/ TransitionConflict(w) \/ StartStatementFails(w)
           \/ FinishStatement(w) \/ StatementFails(w)
    PROVE  Sound'
<1>1. CallSound(w) /\ ticket' = ticket /\ policy' = policy /\ runs' = runs
  BY DEF Sound, TransitionPolicyChanged, TransitionConflict, StartStatementFails,
         FinishStatement, StatementFails
<1>2. CASE Finish(w) BY <1>1, <1>2, FinishSound DEF Progress
<1>3. CASE op[w].kind = "execute" /\ StartTransition(w, "ready_for_preview")
  <2>1. CASE Progress(w)
    BY <1>1, <1>3, <2>1, StartTransitionSound DEF States
  <2> QED BY <2>1 DEF Progress
<1>4. CASE /\ op[w].kind = "execute" /\ op[w].step = "on_database"
           /\ StartTransition(w, "succeeded")
  <2>1. runs # <<>> BY <1>1, <1>4 DEF CallSound
  <2> QED BY <1>1, <1>4, <2>1, StartTransitionSound DEF States, Progress
<1>5. CASE \E step \in {"look_up", "record"} :
              /\ Advance(w, step) /\ op[w].step \in {"dispatch", "on_database"}
              /\ step = "look_up" <=> op[w].kind = "execute"
  <2>1. PICK step \in {"look_up", "record"} :
           /\ Advance(w, step) /\ op[w].step \in {"dispatch", "on_database"}
           /\ step = "look_up" <=> op[w].kind = "execute"
    BY <1>5
  <2>2. /\ op'[w].kind = op[w].kind /\ op'[w].step = step /\ op'[w].seen = op[w].seen
        /\ op'[w].reviewed = op[w].reviewed /\ op'[w].values = op[w].values
        /\ op'[w].target = op[w].target
    BY <2>1 DEF Advance, TypeOK, Op
  <2>3. PreparedBy(w)' = PreparedBy(w) /\ ApprovalMatches(w)' = ApprovalMatches(w)
    BY <2>2 DEF PreparedBy, ApprovalMatches
  <2>4. Checked(w)' BY <1>1, <2>1, <2>2, <2>3 DEF CallSound, Checked
  <2>5. CallSound(w)' BY <1>1, <2>1, <2>2, <2>4 DEF CallSound, Sending
  <2> QED BY <1>1, <2>5, QuietSound DEF Progress
<1>6. CASE TransitionPolicyChanged(w) \/ TransitionConflict(w)
  BY <1>2, <1>3, <1>6 DEF TransitionPolicyChanged, TransitionConflict
<1>7. CASE StartStatementFails(w)
  BY <1>2, <1>5, <1>7 DEF StartStatementFails, ExecutorRaised
<1>8. CASE StatementFails(w)
  BY <1>2, <1>5, <1>8 DEF StatementFails, ExecutorRaised
<1>9. CASE FinishStatement(w)
  BY <1>4, <1>5, <1>9 DEF FinishStatement
<1> QED BY <1>6, <1>7, <1>8, <1>9

\* What follows an outcome, and what gives up.
LEMMA AfterwardsSound ==
    ASSUME TypeOK, Sound, NEW w \in Workers, OpShape(w),
           \/ RecordExplainStale(w) \/ LookUpFailed(w) \/ ProcessResult(w)
           \/ SignalDatabase(w) \/ CatalogFault(w)
    PROVE  Sound'
<1>1. CallSound(w) /\ ticket' = ticket /\ policy' = policy /\ runs' = runs
  BY DEF Sound, RecordExplainStale, LookUpFailed, ProcessResult, SignalDatabase, CatalogFault
<1>2. CASE Finish(w) BY <1>1, <1>2, FinishSound DEF Progress
<1>3. CASE LookUpFailed(w) /\ StartTransition(w, "failed_execution")
  <2>1. op[w].kind = "execute" BY <1>3 DEF LookUpFailed, OpShape, TypeOK, Op, Kinds
  <2> QED BY <1>1, <1>3, <2>1, StartTransitionSound DEF States, Progress
<1>4. CASE SignalDatabase(w) /\ StartTransition(w, "cancelled")
  BY <1>1, <1>4, StartTransitionSound DEF States, Progress, SignalDatabase
<1>5. CASE ProcessResult(w)
  <2>1. op[w].kind = "execute" BY <1>5 DEF ProcessResult, OpShape, TypeOK, Op, Kinds
  <2>2. PICK target \in {"completed", "failed_execution"} : StartTransition(w, target)
    BY <1>5 DEF ProcessResult
  <2>3. runs # <<>> BY <1>1, <1>5, <2>1 DEF CallSound, ProcessResult
  <2> QED BY <1>1, <1>5, <2>1, <2>2, <2>3, StartTransitionSound DEF States, Progress
<1> QED BY <1>2, <1>3, <1>4, <1>5
     DEF RecordExplainStale, LookUpFailed, SignalDatabase, CatalogFault

-----------------------------------------------------------------------------
(* The invariant, and what follows from it.                                *)

\* Every step of a call keeps the invariant.
LEMMA CallStepSound ==
    ASSUME TypeOK, Shape, Admission, Sound, NEW w \in Workers,
           Begin(w) \/ Progress(w) \/ CatalogFault(w)
    PROVE  Sound'
<1>1. OpShape(w) /\ CommitShape(w) BY DEF Shape
<1>2. CASE Begin(w) BY <1>2, BeginSound
<1>3. CASE PrepareExplain(w) \/ PrepareApprove(w) \/ PrepareExecute(w)
  BY <1>1, <1>3, PrepareSound
<1>4. CASE CheckApprovalPolicy(w) \/ CheckExecutionPolicy(w) BY <1>1, <1>4, PolicySound
<1>5. CASE ReadForTransition(w) BY <1>1, <1>5, ReadSound
<1>6. CASE CommitTransition(w) BY <1>6, CommitSound
<1>7. CASE StartStatement(w) BY <1>7, SendSound
<1>8. CASE RecordExplain(w) BY <1>1, <1>8, ExplainSound
<1>9. CASE \/ TransitionPolicyChanged(w) \/ TransitionConflict(w) \/ StartStatementFails(w)
           \/ FinishStatement(w) \/ StatementFails(w)
  BY <1>1, <1>9, OutcomeSound
<1>10. CASE \/ RecordExplainStale(w) \/ LookUpFailed(w) \/ ProcessResult(w)
            \/ SignalDatabase(w) \/ CatalogFault(w)
  BY <1>1, <1>10, AfterwardsSound
<1> QED
  BY <1>2, <1>3, <1>4, <1>5, <1>6, <1>7, <1>8, <1>9, <1>10 DEF Progress

\* So does every step of the system.
LEMMA SoundStep ==
    ASSUME TypeOK, Shape, Admission, Sound, [Next]_vars PROVE Sound'
<1>1. CASE \E w \in Workers : Begin(w) \/ Progress(w) \/ CatalogFault(w)
  BY <1>1, CallStepSound
<1>2. CASE \E r \in Replicas : Crash(r)
  <2>1. \A u \in Workers : op'[u] = Idle \/ op'[u] = op[u] BY <1>2 DEF Crash
  <2>2. ticket' = ticket /\ policy' = policy /\ runs' = runs BY <1>2 DEF Crash
  <2>3. ASSUME NEW u \in Workers PROVE CallSound(u)'
    <3>1. CallSound(u) BY DEF Sound
    <3> QED BY <2>1, <2>2, <3>1, IdleCallSound, OtherCallSound
  <2> QED BY <2>2, <2>3 DEF Sound, RunsWhatWasApproved
<1>3. CASE UpsertPolicy
  <2>1. /\ ticket' = ticket /\ runs' = runs /\ op' = op
        /\ policy'.revision = policy.revision + 1 /\ policy.revision \in Nat
    BY <1>3 DEF UpsertPolicy, TypeOK, Policy
  <2>2. \A row : Snapshot(row, ticket, policy.revision)
                   => Snapshot(row, ticket', policy'.revision)
    BY <2>1, PolicyKeepsSnapshots
  <2>3. RowSound(ticket', policy'.revision)
    BY <2>2, FreshSnapshot, <2>1 DEF Sound, Snapshot
  <2>4. ASSUME NEW u \in Workers PROVE CallSound(u)'
    <3>1. CallSound(u) BY DEF Sound
    <3> QED BY <2>1, <2>2, <3>1, OtherCallSound
  <2> QED BY <2>1, <2>3, <2>4 DEF Sound, RunsWhatWasApproved
<1>4. CASE PublishCatalog \/ UNCHANGED vars
  <2>1. ticket' = ticket /\ policy' = policy /\ runs' = runs /\ op' = op
    BY <1>4 DEF PublishCatalog, vars
  <2>2. ASSUME NEW u \in Workers PROVE CallSound(u)'
    <3>1. CallSound(u) BY DEF Sound
    <3> QED BY <2>1, <3>1, OtherCallSound
  <2> QED BY <2>1, <2>2 DEF Sound, RunsWhatWasApproved
<1> QED BY <1>1, <1>2, <1>3, <1>4 DEF Next

\* What the two copies of every call and the row have to do with each other
\* holds throughout.
THEOREM CopiesAreSound == Spec => [](TypeOK /\ Shape /\ Admission /\ Sound)
<1>1. Init => Admission
  BY DEF Init, Admission, TicketStates, Admitted, Sending, Idle, StartedAtMostOnce
<1>2. Init => Sound
  <2> SUFFICES ASSUME Init PROVE Sound OBVIOUS
  <2>1. ticket \in Row BY InitType DEF TypeOK
  <2>2. RowSound(ticket, policy.revision) BY <2>1 DEF Init, RowSound, TicketStates
  <2>3. \A w \in Workers : CallSound(w)
    BY DEF Init, CallSound, Checked, Sending, Idle
  <2> QED BY <2>2, <2>3 DEF Init, Sound, RunsWhatWasApproved
<1>3. TypeOK /\ Shape /\ Admission /\ Sound /\ [Next]_vars => Admission' /\ Sound'
  BY AdmissionStep, SoundStep
<1> QED BY <1>1, <1>2, <1>3, TypeCorrect, PTL DEF Spec

\* A late EXPLAIN never slips under an approval, on any number of replicas: an
\* approval names the EXPLAIN revision on record and agrees with its statement.
THEOREM ExplainBound == Spec => []ApprovalBindsExplain
<1>1. Sound => ApprovalBindsExplain BY DEF Sound, RowSound, ApprovalBindsExplain
<1> QED BY <1>1, CopiesAreSound, PTL

\* The statement the analysed database received is the approved one, and an
\* answer only comes from a statement that was sent, although execute prepares
\* the SQL again and checks the approval on an old copy.
THEOREM ApprovedStatement == Spec => []RunsWhatWasApproved
<1>1. Sound => RunsWhatWasApproved BY DEF Sound
<1> QED BY <1>1, CopiesAreSound, PTL

-----------------------------------------------------------------------------
(* What a transaction commits, and the abstract ticket.                    *)

\* What is known of a transition that succeeds.
LEMMA CommitFacts ==
    ASSUME TypeOK, Shape, Admission, Sound, NEW w \in Workers, CommitTransition(w)
    PROVE  /\ op[w].step = "commit" /\ op[w].kind \in {"approve", "execute", "cancel"}
           /\ op[w].current.state = ticket.state /\ ticket'.state = op[w].target
           /\ MayTransition(ticket.state, op[w].target)
           /\ Snapshot(op[w].current, ticket, policy.revision)
           /\ ticket'.approval = ApprovalWritten(w)
           /\ op[w].target \in {"approved", "executing"} =>
                 /\ op[w].seen.explainRevision = ticket.explainRevision
                 /\ PolicyAdmits(policy, ticket.plan)
           /\ op[w].target = "executing" => op[w].current.approval.policyRevision = policy.revision
<1>1. /\ OpShape(w) /\ CommitShape(w) /\ CallSound(w) /\ op[w].step = "commit"
      /\ op[w].kind \in Kinds
  BY DEF Shape, Sound, CommitTransition, TypeOK, Op
<1>2. op[w].kind \in {"approve", "execute", "cancel"} BY <1>1 DEF OpShape, Kinds
<1>3. /\ ticket.state = op[w].current.state
      /\ ticket.explainRevision = op[w].current.explainRevision
      /\ PolicyUnchanged(w)
  BY DEF CommitTransition, RowUnchanged
<1>4. ticket'.state = op[w].target /\ ticket'.approval = ApprovalWritten(w)
  BY DEF CommitTransition, TypeOK, Row
<1>5. Snapshot(op[w].current, ticket, policy.revision) /\ Checked(w)
  BY <1>1 DEF CallSound
<1>6. op[w].target \in {"approved", "executing"} =>
         /\ op[w].seen.explainRevision = ticket.explainRevision
         /\ PolicyAdmits(policy, ticket.plan)
  <2> SUFFICES ASSUME op[w].target \in {"approved", "executing"}
               PROVE  /\ op[w].seen.explainRevision = ticket.explainRevision
                      /\ PolicyAdmits(policy, ticket.plan)
    OBVIOUS
  <2>1. op[w].seen.explainRevision = ticket.explainRevision BY <1>1, <1>3, <1>5 DEF Checked
  <2>2. op[w].seen.plan = ticket.plan BY <1>1, <1>2, <2>1 DEF CallSound, Snapshot
  <2>3. PolicyAdmits(policy, op[w].seen.plan) BY <1>1, <1>3, <1>5 DEF Checked, PolicyUnchanged
  <2> QED BY <2>1, <2>2, <2>3
<1>7. op[w].target = "executing" => op[w].current.approval.policyRevision = policy.revision
  BY <1>3 DEF PolicyUnchanged
<1>8. MayTransition(ticket.state, op[w].target) BY <1>1, <1>3 DEF CommitShape
<1> QED BY <1>1, <1>2, <1>3, <1>4, <1>5, <1>6, <1>7, <1>8

\* Only a transaction moves the ticket.
LEMMA OnlyCommitsMove ==
    ASSUME TypeOK, [Next]_vars, ticket'.state # ticket.state
    PROVE  \E w \in Workers : CommitTransition(w)
<1>1. CASE \E w \in Workers : Begin(w) \/ Progress(w) \/ CatalogFault(w)
  <2>1. PICK w \in Workers : Begin(w) \/ Progress(w) \/ CatalogFault(w) BY <1>1
  <2>2. CASE Begin(w)
    BY <2>2 DEF Begin, BeginExplain, BeginApprove, BeginExecute, BeginCancel, Load
  <2>3. CASE CatalogFault(w) BY <2>3 DEF CatalogFault
  <2>4. CASE RecordExplain(w) BY <2>4 DEF RecordExplain, TypeOK, Row
  <2>5. CASE Progress(w) /\ ~RecordExplain(w) /\ ~CommitTransition(w)
    BY <2>5 DEF Progress, PrepareExplain, PrepareApprove, PrepareExecute, CheckApprovalPolicy,
       CheckExecutionPolicy, ReadForTransition, TransitionPolicyChanged, TransitionConflict,
       StartStatement, StartStatementFails, FinishStatement, StatementFails,
       RecordExplainStale, LookUpFailed, ProcessResult, SignalDatabase
  <2> QED BY <2>1, <2>2, <2>3, <2>4, <2>5
<1>2. CASE ~ \E w \in Workers : Begin(w) \/ Progress(w) \/ CatalogFault(w)
  BY <1>2 DEF Next, Crash, UpsertPolicy, PublishCatalog, vars
<1> QED BY <1>1, <1>2

\* Execution is admitted under the policy that was approved and that admits the
\* plan on record; an approval is for the EXPLAIN revision its client reviewed:
\* what a call checked on old copies holds when its transaction commits.
THEOREM ChecksStillHold == Spec => CommitsWhatWasChecked
<1> DEFINE Kept ==
    /\ ticket.state # "executing" /\ ticket'.state = "executing" =>
          /\ ticket.approval.policyRevision = policy.revision
          /\ PolicyAdmits(policy, ticket.plan)
    /\ ticket.state # "approved" /\ ticket'.state = "approved" =>
          \E w \in Workers :
             /\ op[w].step = "commit" /\ op'[w] = Idle
             /\ op[w].reviewed = ticket.explainRevision
<1>1. TypeOK /\ Shape /\ Admission /\ Sound /\ [Next]_vars => [Kept]_vars
  <2> SUFFICES ASSUME TypeOK, Shape, Admission, Sound, [Next]_vars, ticket'.state # ticket.state
               PROVE  Kept
    OBVIOUS
  <2>1. PICK w \in Workers : CommitTransition(w) BY OnlyCommitsMove
  <2>2. /\ op[w].step = "commit" /\ op[w].kind \in {"approve", "execute", "cancel"}
        /\ op[w].current.state = ticket.state /\ ticket'.state = op[w].target
        /\ MayTransition(ticket.state, op[w].target)
        /\ Snapshot(op[w].current, ticket, policy.revision)
        /\ op[w].target \in {"approved", "executing"} =>
              /\ op[w].seen.explainRevision = ticket.explainRevision
              /\ PolicyAdmits(policy, ticket.plan)
        /\ op[w].target = "executing" =>
              op[w].current.approval.policyRevision = policy.revision
    BY <2>1, CommitFacts
  <2>3. CASE ticket'.state = "executing"
    <3>1. ticket.state = "approved" BY <2>2, <2>3 DEF MayTransition, Transitions
    <3>2. /\ op[w].current.approval # NoApproval /\ ticket.approval # NoApproval
          /\ RowSound(ticket, policy.revision) /\ RowSound(op[w].current, policy.revision)
      BY <2>2, <3>1 DEF Snapshot, RowSound, Sound
    <3>3. /\ policy.revision <= ticket.approval.policyRevision
          /\ ticket.approval.policyRevision <= policy.revision
      BY <2>2, <2>3, <3>1, <3>2 DEF Snapshot, RowSound
    <3>4. ticket.approval.policyRevision \in Nat /\ policy.revision \in Nat
      BY <3>2 DEF RowSound, Row, Approval, TypeOK, Policy
    <3>5. ticket.approval.policyRevision = policy.revision BY <3>3, <3>4
    <3> QED BY <2>2, <2>3, <3>5
  <2>4. CASE ticket'.state = "approved"
    <3>1. op'[w] = Idle
      BY <2>1, <2>2, <2>4 DEF CommitTransition, AfterTransition, Finish, TypeOK
    <3>2. op[w].kind = "approve" BY <2>2, <2>4 DEF Shape, OpShape
    <3>3. op[w].reviewed = op[w].seen.explainRevision
      BY <2>2, <3>2 DEF Sound, CallSound, Checked
    <3> QED BY <2>2, <2>4, <3>1, <3>3
  <2> QED BY <2>3, <2>4
<1> QED BY <1>1, CopiesAreSound, PTL DEF Spec, CommitsWhatWasChecked

\* The abstract ticket does not notice a step that leaves the state, the
\* approval, what was sent and who is about to send.
LEMMA Stutter ==
    ASSUME ticket'.state = ticket.state, ticket'.approval = ticket.approval, runs' = runs,
           \A u \in Workers : Sending(u)' <=> Sending(u)
    PROVE  UNCHANGED Ticket!vars
<1>1. PermitView' = PermitView BY DEF PermitView, Sending
<1> QED BY <1>1 DEF Ticket!vars

\* A step of one call that keeps its own intention to send.
LEMMA CallStutter ==
    ASSUME TypeOK, NEW w \in Workers, Begin(w) \/ Progress(w) \/ CatalogFault(w),
           ticket'.state = ticket.state, ticket'.approval = ticket.approval, runs' = runs,
           Sending(w)' <=> Sending(w)
    PROVE  UNCHANGED Ticket!vars
<1>1. ASSUME NEW u \in Workers PROVE Sending(u)' <=> Sending(u)
  <2>1. u # w => op'[u] = op[u] BY OtherCalls
  <2> QED BY <2>1 DEF Sending
<1> QED BY <1>1, Stutter

\* A call that was about to send and will not, with the row as it was.
LEMMA SendersLeave ==
    ASSUME TypeOK, Admission, ticket' = ticket, runs' = runs,
           \A u \in Workers : Sending(u)' => Sending(u)
    PROVE  Ticket!Drop \/ UNCHANGED Ticket!vars
<1>1. CASE \A u \in Workers : Sending(u)' <=> Sending(u) BY <1>1, Stutter
<1>2. CASE ~ \A u \in Workers : Sending(u)' <=> Sending(u)
  <2>1. PICK u \in Workers : Sending(u) /\ ~Sending(u)' BY <1>2
  <2>2. runs = <<>> BY <2>1 DEF Admission
  <2>3. \A v \in Workers : Sending(v) => v = u
    BY <2>1 DEF Admission, Sending, Admitted
  <2>4. \A v \in Workers : ~Sending(v)' BY <2>1, <2>3
  <2>5. PermitView = "open" BY <2>1, <2>2 DEF PermitView, Sending
  <2>6. PermitView' = "none" BY <2>2, <2>4 DEF PermitView, Sending
  <2> QED BY <2>5, <2>6 DEF Ticket!Drop
<1> QED BY <1>1, <1>2

\* A transition is a step of the abstract ticket.
LEMMA CommitRefines ==
    ASSUME TypeOK, Shape, Admission, Sound, NEW w \in Workers, CommitTransition(w)
    PROVE  Ticket!Next
<1> DEFINE c == op[w].current
           t == op[w].target
<1>1. /\ op[w].step = "commit" /\ op[w].kind \in {"approve", "execute", "cancel"}
      /\ c.state = ticket.state /\ ticket'.state = t /\ MayTransition(ticket.state, t)
      /\ Snapshot(c, ticket, policy.revision) /\ ticket'.approval = ApprovalWritten(w)
      /\ t \in {"approved", "executing"} => PolicyAdmits(policy, ticket.plan)
      /\ t = "executing" => c.approval.policyRevision = policy.revision
  BY CommitFacts
<1>2. runs' = runs /\ RowSound(ticket, policy.revision) /\ OpShape(w) /\ CallSound(w)
  BY DEF CommitTransition, Sound, Shape
<1>3. \A u \in Workers : u # w => op'[u] = op[u] BY OtherCalls DEF Progress
<1>4. ~Sending(w) BY <1>1 DEF Sending
<1>5. t # "executing" => ~Sending(w)'
  BY AdvanceEffect, StartTransitionEffect, FinishEffect
     DEF CommitTransition, AfterTransition, Sending
<1>6. t # "executing" => PermitView' = PermitView
  <2>1. t # "executing" => \A u \in Workers : Sending(u)' <=> Sending(u)
    BY <1>3, <1>4, <1>5 DEF Sending
  <2> QED BY <1>2, <2>1 DEF PermitView, Sending
<1>7. c.explainRevision = ticket.explainRevision /\ c.plan = ticket.plan
  BY <1>1 DEF CommitTransition, RowUnchanged, Snapshot
<1>8. t \in {"executing", "succeeded", "result_processing", "completed", "failed_execution",
             "cancelled"} =>
         (IF ticket'.approval = NoApproval THEN NoApproval ELSE ticket'.approval.prepared)
           = (IF ticket.approval = NoApproval THEN NoApproval ELSE ticket.approval.prepared)
  <2> SUFFICES ASSUME t \notin Review
               PROVE  \/ c.approval = ticket.approval
                      \/ /\ c.approval # NoApproval /\ ticket.approval # NoApproval
                         /\ c.approval.prepared = ticket.approval.prepared
    BY <1>1 DEF ApprovalWritten, Review
  <2>1. CASE ticket.state \notin Review BY <1>1, <2>1 DEF Snapshot
  <2>2. CASE ticket.state = "ready_for_preview"
    BY <1>1, <1>2, <2>2 DEF Snapshot, RowSound
  <2>3. CASE ticket.state = "approved"
    <3>1. c.approval # NoApproval /\ ticket.approval # NoApproval
      BY <1>1, <1>2, <2>3 DEF Snapshot, RowSound
    <3>2. CASE ticket.plan # NoPlan
      BY <1>1, <1>2, <1>7, <3>1, <3>2 DEF Snapshot, RowSound
    <3>3. CASE ticket.plan = NoPlan
      <4>1. ticket.approval.policyRevision = 0 BY <1>2, <3>1, <3>3 DEF RowSound
      <4> QED BY <1>1, <2>3, <3>1, <4>1 DEF Snapshot
    <3> QED BY <3>1, <3>2, <3>3
  <2> QED BY <2>1, <2>2, <2>3 DEF Review
<1>9. CASE t = "approved"
  <2>1. ticket.state = "ready_for_preview"
    BY <1>1, <1>2, <1>9 DEF MayTransition, Transitions, RowSound, TicketStates
  <2>2. ticket'.approval = [prepared |-> PreparedBy(w), explainRevision |-> c.explainRevision,
                            policyRevision |-> op[w].policyRevision]
    BY <1>1, <1>9 DEF ApprovalWritten
  <2>3. ticket' \in Row BY CommitType, <1>1 DEF TypeOK, Shape
  <2>4. ticket'.approval \in Approval
    <3>1. op[w].policyRevision \in Nat /\ c.explainRevision \in Nat
      BY <1>1 DEF TypeOK, Op, Snapshot, RowSound, Row
    <3> QED BY <2>2, <3>1, PreparedType DEF Approval
  <2>5. ticket'.approval # NoApproval /\ ticket'.approval.prepared \in Prepared
    BY <2>4, NullAssumption DEF Approval
  <2> QED BY <1>1, <1>2, <1>6, <1>9, <2>1, <2>5 DEF Ticket!Next, Ticket!Approve
<1>10. CASE t = "ready_for_preview"
  <2>1. ticket.state = "approved"
    BY <1>1, <1>2, <1>10 DEF MayTransition, Transitions, RowSound, TicketStates
  <2>2. ticket'.approval = NoApproval BY <1>1, <1>10 DEF ApprovalWritten
  <2> QED BY <1>1, <1>2, <1>6, <1>10, <2>1, <2>2 DEF Ticket!Next, Ticket!Withdraw
<1>11. CASE t = "executing"
  <2>1. ticket.state = "approved" BY <1>1, <1>11 DEF MayTransition, Transitions
  <2>2. runs = <<>> /\ \A u \in Workers : ~Sending(u)
    BY <2>1 DEF Admission, Sending, Admitted
  <2>3. op[w].kind = "execute" BY <1>1, <1>2, <1>11 DEF OpShape
  <2>4. Sending(w)'
    BY <1>11, <2>3, AdvanceEffect DEF CommitTransition, AfterTransition, Sending
  <2>5. PermitView = "none" /\ PermitView' = "open"
    BY <1>2, <2>2, <2>4 DEF PermitView, Sending
  <2> QED BY <1>1, <1>2, <1>8, <1>11, <2>1, <2>5 DEF Ticket!Next, Ticket!Admit
<1>12. CASE t = "cancelled"
  <2>1. ticket.state \in {"ready_for_preview", "approved", "executing"}
    BY <1>1, <1>2, <1>12 DEF MayTransition, Transitions, RowSound, TicketStates
  <2> QED BY <1>1, <1>2, <1>6, <1>8, <1>12, <2>1 DEF Ticket!Next, Ticket!Cancel
<1>13. CASE t = "failed_execution" /\ ticket.state = "executing"
  <2>1. op[w].kind = "execute" BY <1>1, <1>2, <1>13 DEF OpShape
  <2>2. Admitted(w) BY <1>13, <2>1 DEF Admitted
  <2>3. \A u \in Workers : ~Sending(u)
    BY <1>4, <2>2 DEF Admission, Sending, Admitted
  <2>4. PermitView # "open" BY <2>3 DEF PermitView, Sending
  <2> QED BY <1>1, <1>2, <1>6, <1>8, <1>13, <2>4 DEF Ticket!Next, Ticket!Fail
<1>14. CASE \/ t \in {"succeeded", "result_processing", "completed"}
            \/ t = "failed_execution" /\ ticket.state # "executing"
  <2>1. \/ ticket.state = "executing" /\ t = "succeeded"
        \/ ticket.state = "succeeded" /\ t = "result_processing"
        \/ ticket.state = "result_processing" /\ t \in {"completed", "failed_execution"}
    BY <1>1, <1>14 DEF MayTransition, Transitions
  <2>2. runs # <<>>
    <3>1. CASE t \in {"succeeded", "result_processing", "completed"}
      <4>1. op[w].kind = "execute" BY <1>1, <1>2, <3>1 DEF OpShape
      <4> QED BY <1>2, <3>1, <4>1 DEF CallSound
    <3>2. CASE ticket.state = "result_processing" BY <3>2 DEF Sound, RunsWhatWasApproved
    <3> QED BY <2>1, <3>1, <3>2
  <2>3. PermitView = "used" BY <2>2 DEF PermitView
  <2> QED BY <1>1, <1>2, <1>6, <1>8, <1>14, <2>1, <2>3 DEF Ticket!Next, Ticket!Answer
<1>15. t \in TicketStates
  BY <1>1, <1>2 DEF MayTransition, Transitions, RowSound, TicketStates
<1> QED BY <1>9, <1>10, <1>11, <1>12, <1>13, <1>14, <1>15 DEF TicketStates

\* Sending the statement of an execution spends the permit on what is granted.
LEMMA SendRefines ==
    ASSUME TypeOK, Shape, Admission, Sound, NEW w \in Workers, StartStatement(w)
    PROVE  Ticket!Next \/ UNCHANGED Ticket!vars
<1>1. ticket' = ticket /\ op[w].step = "dispatch" /\ CallSound(w)
  BY DEF StartStatement, Sound
<1>2. CASE op[w].kind # "execute"
  <2>1. runs' = runs BY <1>2 DEF StartStatement
  <2>2. op'[w].kind = op[w].kind BY AdvanceEffect DEF StartStatement
  <2> QED BY <1>1, <1>2, <2>1, <2>2, CallStutter DEF Progress, Sending
<1>3. CASE op[w].kind = "execute"
  <2>1. Sending(w) BY <1>1, <1>3 DEF Sending
  <2>2. runs = <<>> /\ runs' = Append(runs, PreparedBy(w))
    BY <1>3, <2>1 DEF StartStatement, Admission
  <2>3. runs' # <<>> /\ runs'[1] = PreparedBy(w) BY <2>2
  <2>4. PermitView = "open" /\ PermitView' = "used"
    BY <2>1, <2>2, <2>3 DEF PermitView, Sending
  <2>5. /\ ticket.state \in {"executing", "cancelled"}
        /\ ticket.approval # NoApproval /\ ticket.approval.prepared = PreparedBy(w)
    BY <1>1, <2>1 DEF CallSound
  <2> QED BY <1>1, <2>3, <2>4, <2>5 DEF Ticket!Next, Ticket!Send
<1> QED BY <1>2, <1>3

\* Every step of a call is one of the abstract ticket, or none.
LEMMA CallRefines ==
    ASSUME TypeOK, Shape, Admission, Sound, NEW w \in Workers,
           Begin(w) \/ Progress(w) \/ CatalogFault(w)
    PROVE  Ticket!Next \/ UNCHANGED Ticket!vars
<1>1. CASE CommitTransition(w) BY <1>1, CommitRefines
<1>2. CASE StartStatement(w) BY <1>2, SendRefines
<1>3. CASE RecordExplain(w)
  <2>1. /\ ticket'.state = ticket.state /\ ticket'.approval = ticket.approval
        /\ runs' = runs /\ op[w].step = "record"
    BY <1>3 DEF RecordExplain, TypeOK, Row
  <2>2. ~Sending(w) /\ ~Sending(w)'
    BY <1>3, <2>1, FinishEffect DEF RecordExplain, Sending
  <2> QED BY <1>3, <2>1, <2>2, CallStutter DEF Progress
<1>4. CASE StartStatementFails(w)
  <2>1. ticket' = ticket /\ runs' = runs BY <1>4 DEF StartStatementFails
  <2>2. ~Sending(w)'
    BY <1>4, AdvanceEffect, FinishEffect DEF StartStatementFails, ExecutorRaised, Sending
  <2>3. \A u \in Workers : u # w => op'[u] = op[u] BY <1>4, OtherCalls DEF Progress
  <2>4. \A u \in Workers : Sending(u)' => Sending(u) BY <2>2, <2>3 DEF Sending
  <2> QED BY <2>1, <2>4, SendersLeave DEF Ticket!Next
<1>5. CASE Begin(w)
  <2>1. ticket' = ticket /\ runs' = runs /\ op[w] = Idle
    BY <1>5 DEF Begin, BeginExplain, BeginApprove, BeginExecute, BeginCancel, Load
  <2>2. ~Sending(w) BY <2>1 DEF Sending, Idle
  <2>3. ~Sending(w)'
    BY <1>5, LoadEffect
       DEF Begin, BeginExplain, BeginApprove, BeginExecute, BeginCancel, Sending
  <2> QED BY <1>5, <2>1, <2>2, <2>3, CallStutter
<1>6. CASE \/ CatalogFault(w)
           \/ Progress(w) /\ ~CommitTransition(w) /\ ~StartStatement(w)
                          /\ ~RecordExplain(w) /\ ~StartStatementFails(w)
  <2> USE AdvanceEffect, StartTransitionEffect, FinishEffect DEF Sending
  <2>1. ticket' = ticket /\ runs' = runs
    BY <1>6 DEF Progress, CatalogFault, PrepareExplain, PrepareApprove, PrepareExecute,
       CheckApprovalPolicy, CheckExecutionPolicy, ReadForTransition, TransitionPolicyChanged,
       TransitionConflict, FinishStatement, StatementFails, RecordExplainStale, LookUpFailed,
       ProcessResult, SignalDatabase
  <2>2. op[w].step # "dispatch"
    BY <1>6 DEF Progress, CatalogFault, PrepareExplain, PrepareApprove, PrepareExecute,
       CheckApprovalPolicy, CheckExecutionPolicy, ReadForTransition, TransitionPolicyChanged,
       TransitionConflict, FinishStatement, StatementFails, RecordExplainStale, LookUpFailed,
       ProcessResult, SignalDatabase
  <2>3. ~Sending(w)'
    <3>1. CASE CatalogFault(w) BY <3>1 DEF CatalogFault
    <3>2. CASE PrepareExplain(w) \/ PrepareApprove(w) \/ PrepareExecute(w)
      BY <3>2 DEF PrepareExplain, PrepareApprove, PrepareExecute
    <3>3. CASE CheckApprovalPolicy(w) \/ CheckExecutionPolicy(w)
      BY <3>3, PolicyPassedEffect DEF CheckApprovalPolicy, CheckExecutionPolicy
    <3>4. CASE ReadForTransition(w) BY <3>4, RowReadEffect DEF ReadForTransition
    <3>5. CASE TransitionPolicyChanged(w) \/ TransitionConflict(w)
      BY <3>5 DEF TransitionPolicyChanged, TransitionConflict
    <3>6. CASE FinishStatement(w) \/ StatementFails(w)
      BY <3>6 DEF FinishStatement, StatementFails, ExecutorRaised
    <3>7. CASE RecordExplainStale(w) \/ LookUpFailed(w) \/ ProcessResult(w) \/ SignalDatabase(w)
      BY <3>7 DEF RecordExplainStale, LookUpFailed, ProcessResult, SignalDatabase
    <3> QED BY <1>6, <3>1, <3>2, <3>3, <3>4, <3>5, <3>6, <3>7 DEF Progress
  <2> QED BY <1>6, <2>1, <2>2, <2>3, CallStutter
<1> QED BY <1>1, <1>2, <1>3, <1>4, <1>5, <1>6

\* Requests on any number of replicas, with their crashes, late answers and old
\* copies, do to the ticket only what its abstract specification allows: one
\* permit, issued for an approved ticket and spent on the granted statement.
THEOREM Refinement == Spec => ImplementsTicket
<1>1. Init => Ticket!Init
  BY DEF Init, Ticket!Init, PermitView, Idle
<1>2. TypeOK /\ Shape /\ Admission /\ Sound /\ [Next]_vars => [Ticket!Next]_(Ticket!vars)
  <2> SUFFICES ASSUME TypeOK, Shape, Admission, Sound, [Next]_vars
               PROVE  Ticket!Next \/ UNCHANGED Ticket!vars
    OBVIOUS
  <2>1. CASE \E w \in Workers : Begin(w) \/ Progress(w) \/ CatalogFault(w)
    BY <2>1, CallRefines
  <2>2. CASE \E r \in Replicas : Crash(r)
    <3>1. ticket' = ticket /\ runs' = runs BY <2>2 DEF Crash
    <3>2. \A u \in Workers : Sending(u)' => Sending(u)
      BY <2>2 DEF Crash, Sending, Idle, TypeOK
    <3> QED BY <3>1, <3>2, SendersLeave DEF Ticket!Next
  <2>3. CASE UpsertPolicy \/ PublishCatalog \/ UNCHANGED vars
    BY <2>3, Stutter DEF UpsertPolicy, PublishCatalog, vars, Sending
  <2> QED BY <2>1, <2>2, <2>3 DEF Next
<1> QED BY <1>1, <1>2, CopiesAreSound, PTL DEF Spec, ImplementsTicket, Ticket!Spec

=============================================================================
