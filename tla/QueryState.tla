----------------------------- MODULE QueryState -----------------------------
(***************************************************************************)
(* The lifecycle of a query ticket: QueryRequestState and the table of     *)
(* allowed transitions in packages/domain/sqlverity_domain.                *)
(***************************************************************************)

\* The values of the QueryRequestState enumeration.
States ==
    { "received", "context_building", "needs_clarification", "llm_generating",
      "generated", "validating", "rejected", "ready_for_preview", "approved",
      "executing", "succeeded", "result_processing", "completed",
      "failed_llm", "failed_validation", "failed_execution", "cancelled",
      "policy_blocked" }

\* _ALLOWED_TRANSITIONS as a relation; a state with no pair is terminal.
Transitions ==
    ({"received"} \X {"context_building", "cancelled", "policy_blocked"})
    \cup ({"context_building"} \X
            {"needs_clarification", "llm_generating", "policy_blocked", "cancelled"})
    \cup ({"needs_clarification"} \X {"context_building", "cancelled"})
    \cup ({"llm_generating"} \X {"generated", "failed_llm", "cancelled"})
    \cup ({"generated"} \X {"validating"})
    \cup ({"validating"} \X
            {"rejected", "ready_for_preview", "failed_validation", "policy_blocked"})
    \cup ({"ready_for_preview"} \X {"approved", "cancelled"})
    \cup ({"approved"} \X {"executing", "cancelled", "ready_for_preview"})
    \cup ({"executing"} \X {"succeeded", "failed_execution", "cancelled"})
    \cup ({"succeeded"} \X {"result_processing"})
    \cup ({"result_processing"} \X {"completed", "failed_execution"})

\* QueryLifecycle.transition accepts the step; otherwise it raises
\* InvalidStateTransition.
MayTransition(from, to) == <<from, to>> \in Transitions

Terminal == {s \in States : \A t \in States : ~MayTransition(s, t)}

=============================================================================
