----------------------------- MODULE SqlGeneration -----------------------------
(***************************************************************************)
(* SQL generation under a privacy preflight: clients ask what would be     *)
(* sent to the model provider, receive a single-use confirmation, and      *)
(* generate with it.  Requests run on several replicas that share the      *)
(* catalog database; administrators change provider policies and new       *)
(* catalog versions are published at any time.                             *)
(*                                                                         *)
(* Every catalog transaction and every provider call is one step.  Nothing *)
(* retries or resumes a request, so one that is lost to a crash, a failed  *)
(* transaction or a lost acknowledgement is one that takes no further step.*)
(*                                                                         *)
(* Abstracted: the HMAC (a client presents only tokens it was given),      *)
(* retrieval (the catalog version determines the content items and their   *)
(* classifications), digests (the value itself), the budget (LLMBudget has *)
(* it), the proposal and its validation.  A policy is its ceiling: one     *)
(* that denies (the provider, the purpose, its residency or retention) has *)
(* ceiling 0, below every item.  Expiry is a clock reading per replica, so *)
(* that clocks may disagree.                                               *)
(***************************************************************************)
EXTENDS Naturals, FiniteSets

CONSTANTS
    Preflights,     \* preflight requests; the token of one is named after it
    Requests,       \* generate requests
    NoToken,        \* a request without confirmation_token
    Replicas,       \* API processes, each with its clock
    Asks,           \* what a client may ask for
    Items,          \* content items of a prompt
    Required,       \* required_content_ids
    Rank,           \* Rank[catalog][item]: classification rank of an item
    Catalogs,       \* number of catalog versions
    Ceilings,       \* maximum_classification of a policy, as a rank
    InitialCeiling, \* that of the tenant-wide policy at the start
    MaxEvents       \* bound: policy updates, publications and expiries

ASSUME ProcessAssumption ==
    /\ Preflights \cap Requests = {}
    /\ NoToken \notin Preflights
ASSUME AskAssumption ==
    /\ Asks # {}
    /\ \A ask \in Asks : ask.forced => ask.mode = "governed_semantic"
ASSUME ContentAssumption ==
    /\ Required \subseteq Items /\ Required # {}
    /\ Rank \in [1..Catalogs -> [Items -> Nat \ {0}]]
ASSUME BoundAssumption ==
    /\ Ceilings \subseteq Nat
    /\ InitialCeiling \in Ceilings
    /\ Catalogs \in Nat \ {0}
    /\ MaxEvents \in Nat

VARIABLES
    catalog,    \* current catalog version
    policies,   \* provider_egress_policies: tenant-wide and of the DataSource
    changes,    \* policy updates so far
    preflight,  \* local state of each preflight request
    row,        \* ai_preflight_confirmations: status of each token
    expired,    \* replicas whose clock is past the expiry of each token
    generation, \* local state of each generate request
    receipts,   \* ai_transfer_receipts
    calls,      \* history: what was sent to the provider
    tickets,    \* query_requests: the catalog version of each new ticket
    events      \* how many events of the bound have happened

\* What no request changes.
world == <<catalog, policies, changes, expired, events>>

vars == <<world, preflight, row, generation, receipts, calls, tickets>>

Scopes == {"tenant", "source"}
Modes == {"maximum_privacy", "governed_semantic"}

\* Version stands for updated_at, 0 for the absence of a row.
Policy == [version : Nat, ceiling : Nat]

\* What preflight and generate compute before anything is sent; "evaluated"
\* tells a policy decision from a context that was only built.
Disclosure == [ask : Asks, catalog : 1..Catalogs, scope : Scopes, version : Nat,
               allowed : BOOLEAN, included : SUBSET Items]

Built(ask, version) ==
    [ask |-> ask, catalog |-> version, scope |-> "tenant", version |-> 0,
     allowed |-> FALSE, included |-> {}]

\* What the local state of a request holds before it is made.
AnAsk == CHOOSE ask \in Asks : TRUE

Preflight == [step : {"idle", "evaluating", "issuing", "recording", "returned"},
              seen : Disclosure]

Generation ==
    [step : {"idle", "verifying", "blocked", "missing", "consuming", "rejected",
             "probing", "sending", "answering", "recording",
             "refused", "done", "failed"},
     token : Preflights \cup {NoToken}, seen : Disclosure, confirmed : BOOLEAN,
     attempt : 1..2]

Receipt == [of : Preflights \cup Requests, seen : Disclosure,
            outcome : {"issued", "blocked", "missing", "rejected", "confirmed"}]

Call == [by : Requests, attempt : 1..2, under : Preflights \cup {NoToken}, sent : SUBSET Items]

Init ==
    /\ catalog = 1
    /\ policies = [s \in Scopes |->
                     IF s = "tenant"
                     THEN [version |-> 1, ceiling |-> InitialCeiling]
                     ELSE [version |-> 0, ceiling |-> 0]]
    /\ changes = 1
    /\ preflight = [p \in Preflights |-> [step |-> "idle", seen |-> Built(AnAsk, 1)]]
    /\ generation = [r \in Requests |->
                       [step |-> "idle", token |-> NoToken, seen |-> Built(AnAsk, 1),
                        confirmed |-> FALSE, attempt |-> 1]]
    /\ row = [p \in Preflights |-> "none"]
    /\ expired = [p \in Preflights |-> {}]
    /\ receipts = {}
    /\ calls = {}
    /\ tickets = [r \in Requests |-> 0]
    /\ events = 0

EventHappens == events < MaxEvents /\ events' = events + 1

-----------------------------------------------------------------------------
(* The policy decision.                                                    *)

\* The policy of the DataSource hides the tenant-wide one.
EffectiveScope == IF policies["source"].version > 0 THEN "source" ELSE "tenant"

Included(version, policy) == {i \in Items : Rank[version][i] <= policy.ceiling}

\* A decision that redacts required content does not allow, nor does one that
\* redacts all of it.
Allowed(version, policy) == Required \subseteq Included(version, policy)

Disclose(ask, version) ==
    LET policy == policies[EffectiveScope]
    IN  [ask |-> ask, catalog |-> version, scope |-> EffectiveScope,
         version |-> policy.version, allowed |-> Allowed(version, policy),
         included |-> Included(version, policy)]

\* preflight_binding: the redactions are not in it, the policy's id and
\* version are.  Mutant: the version of the policy is left out.
Binding_NoPolicyVersion(d) == <<d.ask, d.catalog, d.scope>>
Binding(d) == <<d.ask, d.catalog, d.scope, d.version>>

-----------------------------------------------------------------------------
(* Administrators, catalog and time.                                       *)

UpsertPolicy(scope, ceiling) ==
    /\ EventHappens
    /\ changes' = changes + 1
    /\ policies' = [policies EXCEPT ![scope] = [version |-> changes', ceiling |-> ceiling]]
    /\ UNCHANGED <<catalog, expired, preflight, row, generation, receipts, calls, tickets>>

PublishCatalog ==
    /\ catalog < Catalogs
    /\ EventHappens
    /\ catalog' = catalog + 1
    /\ UNCHANGED <<policies, changes, expired, preflight, row, generation, receipts, calls, tickets>>

ClockPasses(replica, p) ==
    /\ row[p] # "none"
    /\ replica \notin expired[p]
    /\ EventHappens
    /\ expired' = [expired EXCEPT ![p] = @ \cup {replica}]
    /\ UNCHANGED <<catalog, policies, changes, preflight, row, generation, receipts, calls, tickets>>

-----------------------------------------------------------------------------
(* A preflight.                                                            *)

BuildContext(p, ask) ==
    /\ preflight[p].step = "idle"
    /\ preflight' = [preflight EXCEPT ![p] = [step |-> "evaluating", seen |-> Built(ask, catalog)]]
    /\ UNCHANGED <<world, row, generation, receipts, calls, tickets>>

EvaluatePreflight(p) ==
    /\ preflight[p].step = "evaluating"
    /\ LET seen == Disclose(preflight[p].seen.ask, preflight[p].seen.catalog)
       IN  preflight' = [preflight EXCEPT ![p] = [step |-> IF seen.allowed THEN "issuing"
                                                                           ELSE "recording",
                                                  seen |-> seen]]
    /\ UNCHANGED <<world, row, generation, receipts, calls, tickets>>

\* Rows that the replica's clock says have expired are deleted on the way.
IssueConfirmation(p, replica) ==
    /\ preflight[p].step = "issuing"
    /\ row' = [q \in Preflights |-> IF q = p THEN "open"
                                    ELSE IF row[q] # "none" /\ replica \in expired[q] THEN "deleted"
                                    ELSE row[q]]
    /\ preflight' = [preflight EXCEPT ![p].step = "recording"]
    /\ UNCHANGED <<world, generation, receipts, calls, tickets>>

\* The client receives the token after the receipt.
RecordPreflight(p) ==
    /\ preflight[p].step = "recording"
    /\ receipts' = receipts \cup
          {[of |-> p, seen |-> preflight[p].seen,
            outcome |-> IF preflight[p].seen.allowed THEN "issued" ELSE "blocked"]}
    /\ preflight' = [preflight EXCEPT ![p].step = "returned"]
    /\ UNCHANGED <<world, row, generation, calls, tickets>>

\* Mutant: the token is returned before its receipt is written.
Held_BeforeReceipt(p) ==
    preflight[p].step \in {"recording", "returned"} /\ preflight[p].seen.allowed
Held(p) == preflight[p].step = "returned" /\ preflight[p].seen.allowed

-----------------------------------------------------------------------------
(* A generation.                                                           *)

\* The client may present any token it holds, with any question.
StartGeneration(r, ask, token) ==
    /\ generation[r].step = "idle"
    /\ token \in {NoToken} \cup {p \in Preflights : Held(p)}
    /\ generation' = [generation EXCEPT ![r] = [@ EXCEPT !.step = "verifying", !.token = token,
                                                         !.seen = Built(ask, catalog)]]
    /\ UNCHANGED <<world, preflight, row, receipts, calls, tickets>>

VerifyPreflight(r) ==
    /\ generation[r].step = "verifying"
    /\ LET seen == Disclose(generation[r].seen.ask, generation[r].seen.catalog)
           step == IF ~seen.allowed THEN "blocked"
                   ELSE IF generation[r].token = NoToken THEN "missing" ELSE "consuming"
       IN  generation' = [generation EXCEPT ![r] = [@ EXCEPT !.seen = seen, !.step = step]]
    /\ UNCHANGED <<world, preflight, row, receipts, calls, tickets>>

\* UPDATE ... WHERE consumed_at IS NULL: a row that is gone does not match.
\* Mutant: it is taken for unused.
Unconsumed_OrDeleted(p) == row[p] # "used"
Unconsumed(p) == row[p] = "open"

Consumable(r, replica) ==
    LET p == generation[r].token
    IN  /\ replica \notin expired[p]
        /\ Binding(preflight[p].seen) = Binding(generation[r].seen)
        /\ Unconsumed(p)

ConsumeConfirmation(r, replica) ==
    /\ generation[r].step = "consuming"
    /\ Consumable(r, replica)
    /\ row' = [row EXCEPT ![generation[r].token] = "used"]
    /\ generation' = [generation EXCEPT ![r] = [@ EXCEPT !.step = "sending", !.confirmed = TRUE]]
    /\ UNCHANGED <<world, preflight, receipts, calls, tickets>>

RejectConfirmation(r, replica) ==
    /\ generation[r].step = "consuming"
    /\ ~Consumable(r, replica)
    /\ generation' = [generation EXCEPT ![r].step = "rejected"]
    /\ UNCHANGED <<world, preflight, row, receipts, calls, tickets>>

\* After the receipt a blocked request still goes to the gateway, which is
\* expected to refuse it with the reasons of the policy.
AfterRefusal(outcome) == IF outcome = "blocked" THEN "probing" ELSE "refused"

RecordRefusal(r) ==
    LET outcome == generation[r].step
    IN  /\ outcome \in {"blocked", "missing", "rejected"}
        /\ receipts' = receipts \cup {[of |-> r, seen |-> generation[r].seen, outcome |-> outcome]}
        /\ generation' = [generation EXCEPT ![r].step = AfterRefusal(outcome)]
        /\ UNCHANGED <<world, preflight, row, calls, tickets>>

\* The gateway decides on the policy of now, with what the request was built
\* from; the answer to a blocked request is dropped.
SendPrompt(r) ==
    /\ generation[r].step \in {"probing", "sending"}
    /\ LET now == Disclose(generation[r].seen.ask, generation[r].seen.catalog)
       IN  /\ now.allowed
           /\ calls' = calls \cup
                {[by |-> r, attempt |-> generation[r].attempt, sent |-> now.included,
                  under |-> IF generation[r].confirmed THEN generation[r].token ELSE NoToken]}
    /\ generation' = [generation EXCEPT ![r].step = IF @ = "probing" THEN "refused" ELSE "answering"]
    /\ UNCHANGED <<world, preflight, row, receipts, tickets>>

\* The policy blocks, or the budget does.
GatewayRefuses(r) ==
    /\ generation[r].step \in {"probing", "sending"}
    /\ generation' = [generation EXCEPT ![r].step = "refused"]
    /\ UNCHANGED <<world, preflight, row, receipts, calls, tickets>>

\* Mutant: a second answer falls back as well.
FallsBack_Again(g) == g.seen.ask.mode = "governed_semantic" /\ ~g.seen.ask.forced
FallsBack(g) ==
    /\ g.seen.ask.mode = "governed_semantic"
    /\ ~g.seen.ask.forced
    /\ g.attempt = 1

\* The answer misses the intent in a way that a second, semantic prompt may repair.
SemanticFallback(r) ==
    /\ generation[r].step = "answering"
    /\ FallsBack(generation[r])
    /\ generation' = [generation EXCEPT ![r] = [generation[r] EXCEPT
                                                    !.step = "sending", !.attempt = @ + 1]]
    /\ UNCHANGED <<world, preflight, row, receipts, calls, tickets>>

\* The provider fails, or its output is invalid.
AnswerUnusable(r) ==
    /\ generation[r].step = "answering"
    /\ generation' = [generation EXCEPT ![r].step = "failed"]
    /\ UNCHANGED <<world, preflight, row, receipts, calls, tickets>>

\* Mutant: the ticket names the catalog version of the moment.
TicketCatalog_Current(g) == catalog
TicketCatalog(g) == g.seen.catalog

\* The answer parses, and its proposal becomes a ticket, valid or not.
CreateTicket(r) ==
    /\ generation[r].step = "answering"
    /\ tickets' = [tickets EXCEPT ![r] = TicketCatalog(generation[r])]
    /\ generation' = [generation EXCEPT ![r].step = "recording"]
    /\ UNCHANGED <<world, preflight, row, receipts, calls>>

RecordConfirmed(r) ==
    /\ generation[r].step = "recording"
    /\ receipts' = receipts \cup {[of |-> r, seen |-> generation[r].seen, outcome |-> "confirmed"]}
    /\ generation' = [generation EXCEPT ![r].step = "done"]
    /\ UNCHANGED <<world, preflight, row, calls, tickets>>

-----------------------------------------------------------------------------
Administration ==
    \/ \E scope \in Scopes, ceiling \in Ceilings : UpsertPolicy(scope, ceiling)
    \/ PublishCatalog
    \/ \E replica \in Replicas, p \in Preflights : ClockPasses(replica, p)

PreflightStep(p) ==
    \/ \E ask \in Asks : BuildContext(p, ask)
    \/ EvaluatePreflight(p)
    \/ \E replica \in Replicas : IssueConfirmation(p, replica)
    \/ RecordPreflight(p)

GenerationStep(r) ==
    \/ \E ask \in Asks, token \in Preflights \cup {NoToken} : StartGeneration(r, ask, token)
    \/ VerifyPreflight(r)
    \/ \E replica \in Replicas : ConsumeConfirmation(r, replica)
    \/ \E replica \in Replicas : RejectConfirmation(r, replica)
    \/ RecordRefusal(r)
    \/ SendPrompt(r)
    \/ GatewayRefuses(r)
    \/ SemanticFallback(r)
    \/ AnswerUnusable(r)
    \/ CreateTicket(r)
    \/ RecordConfirmed(r)

Next ==
    \/ Administration
    \/ \E p \in Preflights : PreflightStep(p)
    \/ \E r \in Requests : GenerationStep(r)

Spec == Init /\ [][Next]_vars

-----------------------------------------------------------------------------
(* Properties.                                                             *)

\* The type of the tables and of the requests in progress.
TypeOK ==
    /\ catalog \in 1..Catalogs
    /\ policies \in [Scopes -> Policy]
    /\ changes \in Nat
    /\ preflight \in [Preflights -> Preflight]
    /\ row \in [Preflights -> {"none", "open", "used", "deleted"}]
    /\ expired \in [Preflights -> SUBSET Replicas]
    /\ generation \in [Requests -> Generation]
    /\ receipts \subseteq Receipt
    /\ calls \subseteq Call
    /\ tickets \in [Requests -> 0..Catalogs]
    /\ events \in Nat

\* A confirmation authorises one generation, whatever replicas the requests
\* reach, whatever their clocks say, and although expired rows are deleted
\* (consume_preflight_confirmation, register_preflight_confirmation).
ConfirmedOnce ==
    \A r, s \in Requests :
        /\ generation[r].confirmed /\ generation[s].confirmed
        /\ generation[r].token = generation[s].token
        => r = s

\* What a generation verified when it consumed its confirmation is exactly
\* what the preflight disclosed, redactions included, although the binding
\* names only the policy and its version.
ConfirmedAsDisclosed ==
    \A r \in Requests :
        generation[r].confirmed => generation[r].seen = preflight[generation[r].token].seen

\* maximum_provider_calls, as a preflight discloses it.
MaximumCalls(mode) == IF mode = "governed_semantic" THEN 2 ELSE 1

CallsUnder(p) == {call \in calls : call.under = p}

CallsBy(r) == {call \in calls : call.by = r}

\* Receipts and calls tell the same story.  Under one confirmation the provider
\* is called no more often than the preflight said, and only after the receipt
\* of the preflight was written; a refused confirmation sent nothing, and a
\* confirmed one sent something and has its ticket.  A blocked request is the
\* exception SentAsDisclosed shows.
CallsAreDisclosed ==
    /\ \A p \in Preflights :
          /\ Cardinality(CallsUnder(p)) <= MaximumCalls(preflight[p].seen.ask.mode)
          /\ CallsUnder(p) # {} =>
                [of |-> p, seen |-> preflight[p].seen, outcome |-> "issued"] \in receipts
    /\ \A receipt \in receipts :
          /\ receipt.outcome \in {"missing", "rejected"} => CallsBy(receipt.of) = {}
          /\ receipt.outcome = "confirmed" =>
                CallsBy(receipt.of) # {} /\ tickets[receipt.of] # 0

\* A ticket belongs to the catalog version whose content its user confirmed,
\* also when another version has been published meanwhile.
TicketsAreConfirmed ==
    \A r \in Requests :
        tickets[r] # 0 =>
            /\ generation[r].confirmed
            /\ tickets[r] = preflight[generation[r].token].seen.catalog

\* "Changing context, policy, catalog, provider/model, actor, or privacy mode
\* requires a new preflight" (ADR-023): the provider receives only what a
\* confirmed preflight listed as included.
SentAsDisclosed ==
    \A call \in calls :
        /\ call.under # NoToken
        /\ call.sent \subseteq preflight[call.under].seen.included
================================================================================
