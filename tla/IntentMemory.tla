----------------------------- MODULE IntentMemory -----------------------------
(***************************************************************************)
(* Intent corrections: a steward says which table or column a term of a    *)
(* question means.  The mapping is remembered as a confirmed business      *)
(* concept, through the same checks and the same write as any correction,  *)
(* and the query ticket whose proposal rests on the old mapping is         *)
(* cancelled.  A correction in words is first interpreted by a model,      *)
(* outside every lock.                                                     *)
(*                                                                         *)
(* One ticket, moved meanwhile by the endpoints of its requester.          *)
(***************************************************************************)
EXTENDS SemanticGovernance, QueryState

CONSTANTS
    Correctors,     \* threads serving the intent-correction endpoints
    Requesters,     \* threads serving the ticket's own endpoints
    Mappings,       \* what corrections say: a term, its object, and the former one
    NoRef,
    NewKey          \* the key of a concept made for a term

Mapped == [term : {m.term : m \in Mappings} \cup {""}, ref : References \cup {NoRef},
           previous : References \cup {NoRef}]

ASSUME CorrectorAssumption ==
    /\ Correctors \cup Requesters \subseteq Threads
    /\ Correctors \cap (Stewards \cup Inferers \cup Requesters) = {}
    /\ NoRef \notin References
    /\ \A m \in Mappings :
          /\ m \in Mapped /\ m.ref # NoRef
          /\ NewKey[m.term] \in Keys /\ KindOf[NewKey[m.term]] = "concept"
    /\ \A d \in Deployments : d.ticket \in States
\* The payloads contain every definition that remembers a mapping.
ASSUME MemorableAssumption ==
    \A m \in Mappings, k \in Keys : KindOf[k] = "concept" =>
        \A names \in {NamesOf[p] : p \in Payloads} \cup {{m.term}} : m.term \in names =>
            \E p \in Payloads : NamesOf[p] = names /\ RefsOf[k][p] = {m.ref}

VARIABLES
    ticket,     \* the query ticket the corrections are about
    memory      \* per thread, the correction it is serving, or the last answer

memoryVars == <<ticket, memory>>

\* explain: the revisions of its EXPLAIN
Ticket == [state : States, version : Nat, explain : Nat]

NoMapping == [term |-> "", ref |-> NoRef, previous |-> NoRef]

\* text: the correction is still to be interpreted
\* state: the ticket's state as read at first; seen: its row as read last
Memory == [step : {"idle", "request", "version", "references", "model", "concept",
                   "correcting", "ticket", "update"},
           text : BOOLEAN, mapping : Mapped, refs : SUBSET References, state : States,
           seen : Ticket, answer : {"none", "error", "clarify", "kept", "regenerate"}]

NoMemory == [step |-> "idle", text |-> FALSE, mapping |-> NoMapping, refs |-> {},
             state |-> "received", seen |-> [state |-> "received", version |-> 0, explain |-> 0],
             answer |-> "none"]

MemoryInit(d) ==
    /\ ticket = [state |-> d.ticket, version |-> Len(d.versions), explain |-> 0]
    /\ memory = [t \in Correctors |-> NoMemory]

MemoryTypeOK ==
    /\ ticket \in Ticket
    /\ memory \in [Correctors -> Memory]

-----------------------------------------------------------------------------
(* The ticket's own endpoints, each one compare-and-set of its row.        *)

Moved(t, from, to) ==
    /\ ticket.state = from /\ Called(t) /\ Free(t)
    /\ ticket' = [ticket EXCEPT !.state = to]
    /\ UNCHANGED <<versions, holder, view, memory>>

Approve(t) == Moved(t, "ready_for_preview", "approved")

Reopen(t) == Moved(t, "approved", "ready_for_preview")

Execute(t) == Moved(t, "approved", "executing")

Finish(t) ==
    Moved(t, "executing", "succeeded") \/ Moved(t, "executing", "failed_execution")

Cancel(t) ==
    \E s \in {"needs_clarification", "ready_for_preview", "approved", "executing"} :
        Moved(t, s, "cancelled")

Explain(t) ==
    /\ ticket.state = "ready_for_preview" /\ Called(t) /\ Free(t)
    /\ ticket' = [ticket EXCEPT !.explain = @ + 1]
    /\ UNCHANGED <<versions, holder, view, memory>>

RequesterStep(t) ==
    Approve(t) \/ Reopen(t) \/ Execute(t) \/ Finish(t) \/ Cancel(t) \/ Explain(t)

-----------------------------------------------------------------------------
(* Corrections.                                                            *)

Answer(t, answer) == memory' = [memory EXCEPT ![t] = [NoMemory EXCEPT !.answer = answer]]

Begins(t, text, m) ==
    /\ memory[t].step = "idle" /\ view[t].step = "none" /\ Called(t)
    /\ memory' = [memory EXCEPT ![t] =
                     [NoMemory EXCEPT !.step = "request", !.text = text, !.mapping = m]]
    /\ UNCHANGED <<versions, holder, view, governanceVars, ticket>>

CorrectMapping(t) == \E m \in Mappings : Begins(t, FALSE, m)

\* Of the mapping, the client only knows the former object.
InterpretCorrection(t) ==
    \E m \in Mappings : Begins(t, TRUE, [NoMapping EXCEPT !.previous = m.previous])

ReadTicket(t) ==
    /\ memory[t].step = "request" /\ Free(t)
    /\ memory' = [memory EXCEPT ![t] = [@ EXCEPT !.step = "version", !.state = ticket.state]]
    /\ StartLooking(t)
    /\ UNCHANGED <<versions, holder, calls, governanceVars, ticket>>

\* The proposal must rest on the latest version.
CheckVersion(t) ==
    /\ memory[t].step = "version" /\ view[t].step \in {"tables", "absent"}
    /\ IF view[t].step = "tables" /\ view[t].version = ticket.version
       THEN memory' = [memory EXCEPT ![t].step = "references"] /\ UNCHANGED view
       ELSE Answer(t, "error") /\ StopLooking(t)
    /\ UNCHANGED <<versions, holder, calls, governanceVars, ticket>>

\* The objects named are there: the former one of a correction in words, both
\* of a mapping.
CheckReferences(t) ==
    LET m == memory[t]
        named == {m.mapping.previous, m.mapping.ref} \ {NoRef}
    IN
    /\ m.step = "references" /\ Looked(t)
    /\ IF view[t].step = "ready" /\ named \subseteq view[t].refs
       THEN memory' = [memory EXCEPT ![t] =
                          IF m.text THEN [@ EXCEPT !.step = "model", !.refs = view[t].refs]
                          ELSE [@ EXCEPT !.step = "concept"]]
       ELSE Answer(t, "error")
    /\ StopLooking(t)
    /\ UNCHANGED <<versions, holder, calls, governanceVars, ticket>>

\* The mappings an answer may name: to an object the model was shown.
Interpretations(m) ==
    {n \in Mappings : n.previous = m.mapping.previous /\ n.ref \in m.refs}

\* The model answers with one of them, asks back, or with something that is
\* refused.  A mapping is corrected as if given by hand.
Interpreted(t) ==
    /\ memory[t].step = "model"
    /\ \/ \E n \in Interpretations(memory[t]) :
             memory' = [memory EXCEPT ![t] = [NoMemory EXCEPT !.step = "request", !.mapping = n]]
       \/ Answer(t, "clarify")
       \/ Answer(t, "error")
    /\ UNCHANGED <<storeVars, governanceVars, ticket>>

\* The concepts, whatever their status, that have the term.
Having(term) ==
    {k \in Keys : /\ KindOf[k] = "concept" /\ resolution[k].status # "none"
                  /\ term \in NamesOf[resolution[k].payload]}

\* The definition of k that remembers m: the names it has if it has the term,
\* or the term alone.
Remembering(k, m) ==
    LET names == IF k \in Having(m.term) THEN NamesOf[resolution[k].payload] ELSE {m.term}
    IN CHOOSE p \in Payloads : NamesOf[p] = names /\ RefsOf[k][p] = {m.ref}

\* The term belongs to one concept or to none; the correction of that concept
\* then goes its usual way, against the resolution found here.
FindConcept(t) ==
    LET m == memory[t].mapping
        owners == Having(m.term)
    IN
    /\ memory[t].step = "concept" /\ Free(t)
    /\ IF \E k, l \in owners : k # l
       THEN Answer(t, "error") /\ UNCHANGED <<view, proposal>>
       ELSE \E k \in (IF owners = {} THEN {NewKey[m.term]} ELSE owners) :
              /\ memory' = [memory EXCEPT ![t].step = "correcting"]
              /\ proposal' = [proposal EXCEPT ![t] =
                                 [NoProposal EXCEPT !.step = "looking", !.key = k,
                                     !.status = "confirmed", !.payload = Remembering(k, m),
                                     !.expected = IF owners = {} THEN 0 ELSE resolution[k].updated,
                                     !.reviewed = resolution[k].payload]]
              /\ StartLooking(t)
    /\ UNCHANGED <<versions, holder, calls, resolution, inference, ticket>>

\* One of the correction's checks failed.
CorrectionRefused(t) ==
    /\ memory[t].step = "correcting" /\ proposal[t].step = "idle"
    /\ Answer(t, "error")
    /\ UNCHANGED <<storeVars, governanceVars, ticket>>

\* Mutant: approved tickets are left alone.
Cancellable_Unapproved == {"needs_clarification", "ready_for_preview"}

Cancellable == {"needs_clarification", "ready_for_preview", "approved"}

\* The concept is written; the SQL must be generated again if the object is
\* another one.
Remember(t) ==
    LET m == memory[t]
    IN
    /\ proposal[t].step = "commit" /\ ProposeBusinessConceptDefinition(t)
    /\ IF m.mapping.previous = m.mapping.ref THEN Answer(t, "kept")
       ELSE IF m.state \in Cancellable THEN memory' = [memory EXCEPT ![t].step = "ticket"]
       ELSE Answer(t, "regenerate")
    /\ UNCHANGED ticket

\* transition_query_request: a ticket that may no longer be cancelled is an
\* error, though the mapping stays remembered.
ReadRow(t) ==
    /\ memory[t].step = "ticket" /\ Free(t)
    /\ IF MayTransition(ticket.state, "cancelled")
       THEN memory' = [memory EXCEPT ![t] = [@ EXCEPT !.step = "update", !.seen = ticket]] /\ Enter(t)
       ELSE Answer(t, "error") /\ UNCHANGED holder
    /\ UNCHANGED <<versions, view, calls, governanceVars, ticket>>

CancelTicket(t) ==
    /\ memory[t].step = "update"
    /\ IF ticket = memory[t].seen
       THEN ticket' = [ticket EXCEPT !.state = "cancelled"] /\ Answer(t, "regenerate")
       ELSE Answer(t, "error") /\ UNCHANGED ticket
    /\ Leave(t)
    /\ UNCHANGED <<versions, view, calls, governanceVars>>

CorrectorStep(t) ==
    \/ CorrectMapping(t) \/ InterpretCorrection(t) \/ ReadTicket(t) \/ CheckVersion(t)
    \/ CheckReferences(t) \/ Interpreted(t) \/ FindConcept(t) \/ CorrectionRefused(t)
    \/ Remember(t) \/ ReadRow(t) \/ CancelTicket(t)
    \/ memory[t].step = "version" /\ ReadVersion(t) /\ UNCHANGED <<governanceVars, memoryVars>>
    \/ memory[t].step = "references" /\ LookingStep(t) /\ UNCHANGED <<governanceVars, memoryVars>>
    \/ /\ Looking(t) \/ LocateConcept(t) \/ CheckNames(t) \/ ReadResolution(t)
       /\ UNCHANGED memoryVars

-----------------------------------------------------------------------------
(* Properties.                                                             *)

\* A ticket is pending until it is executed or closed.
Pending == {"needs_clarification", "ready_for_preview", "approved"}

\* When a steward is told that the SQL must be generated again, the ticket
\* made from the old mapping is no longer pending, however it was approved,
\* reopened or executed since the correction read it
\* (docs/implementation-status.md:21, "pending-ticket invalidation").
PendingTicketsAreInvalidated ==
    \A t \in Correctors : memory[t].answer = "regenerate" => ticket.state \notin Pending
=============================================================================
