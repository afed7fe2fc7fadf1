---------------------------- MODULE QueryTicket ----------------------------
(***************************************************************************)
(* What a query ticket promises, without threads, replicas or a database:  *)
(* a statement is sent to the analysed database only on a permit, a permit *)
(* is issued only by admitting an approved ticket, and there is never a    *)
(* second one.  QueryExecution implements this specification.              *)
(***************************************************************************)
CONSTANTS Statements,   \* SQL and bindings that can be approved
          Nothing       \* no statement

VARIABLES state,        \* the ticket's lifecycle state
          granted,      \* the statement the approval in force allows
          permit,       \* of an admitted execution: "none", "open" or "used"
          sent          \* the statement sent to the database, if any

vars == <<state, granted, permit, sent>>

Init ==
    /\ state = "ready_for_preview"
    /\ granted = Nothing
    /\ permit = "none"
    /\ sent = Nothing

\* Approval fixes the statement that may run.
Approve ==
    /\ state = "ready_for_preview" /\ state' = "approved"
    /\ granted' \in Statements
    /\ UNCHANGED <<permit, sent>>

\* An approval is withdrawn and the ticket is reviewed again.
Withdraw ==
    /\ state = "approved" /\ state' = "ready_for_preview"
    /\ granted' = Nothing
    /\ UNCHANGED <<permit, sent>>

\* An approved ticket is admitted: one permit is issued.
Admit ==
    /\ state = "approved" /\ state' = "executing"
    /\ permit = "none" /\ permit' = "open"
    /\ UNCHANGED <<granted, sent>>

\* The permit is spent on the granted statement, even if the ticket has been
\* cancelled since.
Send ==
    /\ permit = "open" /\ permit' = "used"
    /\ state \in {"executing", "cancelled"}
    /\ sent' = granted
    /\ UNCHANGED <<state, granted>>

\* The permit is lost with the request that held it.
Drop ==
    /\ permit = "open" /\ permit' = "none"
    /\ UNCHANGED <<state, granted, sent>>

\* Only a statement that was sent has a result.
Answer ==
    /\ permit = "used"
    /\ \/ state = "executing" /\ state' = "succeeded"
       \/ state = "succeeded" /\ state' = "result_processing"
       \/ state = "result_processing" /\ state' \in {"completed", "failed_execution"}
    /\ UNCHANGED <<granted, permit, sent>>

Fail ==
    /\ state = "executing" /\ state' = "failed_execution"
    /\ permit # "open"
    /\ UNCHANGED <<granted, permit, sent>>

Cancel ==
    /\ state \in {"ready_for_preview", "approved", "executing"}
    /\ state' = "cancelled"
    /\ UNCHANGED <<granted, permit, sent>>

Next == \/ Approve \/ Withdraw \/ Admit \/ Send \/ Drop
        \/ Answer \/ Fail \/ Cancel

Spec == Init /\ [][Next]_vars

=============================================================================
