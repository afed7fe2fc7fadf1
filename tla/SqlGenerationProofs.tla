-------------------------- MODULE SqlGenerationProofs --------------------------
(***************************************************************************)
(* What holds of SqlGeneration for every number of requests, replicas,     *)
(* catalog versions and policy updates: its type invariant, the single     *)
(* use of confirmations, that a confirmed generation is the disclosed      *)
(* one, that tickets belong to it, and that every call of a provider was   *)
(* disclosed.                                                              *)
(***************************************************************************)
EXTENDS SqlGeneration, FiniteSetTheorems, TLAPS

LEMMA AnAskIsAsk == AnAsk \in Asks
BY AskAssumption DEF AnAsk

\* A built context and a decision are disclosures.
LEMMA BuiltType ==
    ASSUME NEW ask \in Asks, NEW version \in 1..Catalogs
    PROVE  Built(ask, version) \in Disclosure
BY DEF Built, Disclosure, Scopes

LEMMA DiscloseType ==
    ASSUME TypeOK, NEW ask \in Asks, NEW version \in 1..Catalogs
    PROVE  Disclose(ask, version) \in Disclosure
<1>1. EffectiveScope \in Scopes
  BY DEF EffectiveScope, Scopes
<1>2. policies[EffectiveScope].version \in Nat
  BY <1>1 DEF TypeOK, Policy
<1>3. Included(version, policies[EffectiveScope]) \in SUBSET Items
  BY DEF Included
<1>4. Allowed(version, policies[EffectiveScope]) \in BOOLEAN
  BY DEF Allowed
<1> QED
  BY <1>1, <1>2, <1>3, <1>4 DEF Disclose, Disclosure

-----------------------------------------------------------------------------
(* Types.                                                                  *)

LEMMA TypeInit == Init => TypeOK
<1> SUFFICES ASSUME Init PROVE TypeOK
  OBVIOUS
<1>1. Built(AnAsk, 1) \in Disclosure
  BY AnAskIsAsk, BuiltType, BoundAssumption
<1>2. InitialCeiling \in Nat
  BY BoundAssumption
<1>3. policies \in [Scopes -> Policy]
  BY <1>2 DEF Init, Policy
<1>4. preflight \in [Preflights -> Preflight]
  BY <1>1 DEF Init, Preflight
<1>5. generation \in [Requests -> Generation]
  BY <1>1 DEF Init, Generation
<1>6. /\ catalog \in 1..Catalogs
      /\ tickets \in [Requests -> 0..Catalogs]
  BY BoundAssumption DEF Init
<1>7. /\ row \in [Preflights -> {"none", "open", "used", "deleted"}]
      /\ expired \in [Preflights -> SUBSET Replicas]
  BY DEF Init
<1>8. changes \in Nat /\ events \in Nat /\ receipts \subseteq Receipt /\ calls \subseteq Call
  BY DEF Init
<1> QED
  BY <1>3, <1>4, <1>5, <1>6, <1>7, <1>8 DEF TypeOK

LEMMA TypeAdministration == TypeOK /\ Administration => TypeOK'
<1> SUFFICES ASSUME TypeOK, Administration PROVE TypeOK'
  OBVIOUS
<1>1. ASSUME NEW scope \in Scopes, NEW ceiling \in Ceilings, UpsertPolicy(scope, ceiling)
      PROVE  TypeOK'
  <2>1. changes' \in Nat /\ ceiling \in Nat /\ events' \in Nat
    BY <1>1, BoundAssumption DEF UpsertPolicy, EventHappens, TypeOK
  <2>2. policies' \in [Scopes -> Policy]
    BY <1>1, <2>1 DEF UpsertPolicy, TypeOK, Policy
  <2> QED
    BY <1>1, <2>1, <2>2 DEF UpsertPolicy, TypeOK
<1>2. CASE PublishCatalog
  BY <1>2, BoundAssumption DEF PublishCatalog, EventHappens, TypeOK
<1>3. ASSUME NEW replica \in Replicas, NEW p \in Preflights, ClockPasses(replica, p)
      PROVE  TypeOK'
  BY <1>3 DEF ClockPasses, EventHappens, TypeOK
<1> QED
  BY <1>1, <1>2, <1>3 DEF Administration

LEMMA TypePreflight ==
    ASSUME TypeOK, NEW p \in Preflights, PreflightStep(p)
    PROVE  TypeOK'
<1>1. ASSUME NEW ask \in Asks, BuildContext(p, ask)
      PROVE  TypeOK'
  <2>1. Built(ask, catalog) \in Disclosure
    BY BuiltType DEF TypeOK
  <2> QED
    BY <1>1, <2>1 DEF BuildContext, TypeOK, Preflight, world
<1>2. CASE EvaluatePreflight(p)
  <2> DEFINE seen == Disclose(preflight[p].seen.ask, preflight[p].seen.catalog)
  <2>1. preflight[p].seen.ask \in Asks /\ preflight[p].seen.catalog \in 1..Catalogs
    BY DEF TypeOK, Preflight, Disclosure
  <2>2. seen \in Disclosure
    BY <2>1, DiscloseType
  <2> HIDE DEF seen
  <2>3. preflight' = [preflight EXCEPT ![p] =
                        [step |-> IF seen.allowed THEN "issuing" ELSE "recording", seen |-> seen]]
    BY <1>2 DEF EvaluatePreflight, seen
  <2>4. preflight' \in [Preflights -> Preflight]
    BY <2>2, <2>3 DEF TypeOK, Preflight
  <2> QED
    BY <1>2, <2>4 DEF EvaluatePreflight, TypeOK, world
<1>3. ASSUME NEW replica \in Replicas, IssueConfirmation(p, replica)
      PROVE  TypeOK'
  <2>1. row' \in [Preflights -> {"none", "open", "used", "deleted"}]
    BY <1>3 DEF IssueConfirmation, TypeOK
  <2>2. preflight' \in [Preflights -> Preflight]
    BY <1>3 DEF IssueConfirmation, TypeOK, Preflight
  <2> QED
    BY <1>3, <2>1, <2>2 DEF IssueConfirmation, TypeOK, world
<1>4. CASE RecordPreflight(p)
  <2>1. preflight' \in [Preflights -> Preflight] /\ preflight[p].seen \in Disclosure
    BY <1>4 DEF RecordPreflight, TypeOK, Preflight
  <2>2. receipts' \subseteq Receipt
    BY <1>4, <2>1 DEF RecordPreflight, TypeOK, Receipt
  <2> QED
    BY <1>4, <2>1, <2>2 DEF RecordPreflight, TypeOK, world
<1> QED
  BY <1>1, <1>2, <1>3, <1>4 DEF PreflightStep

LEMMA TypeGeneration ==
    ASSUME TypeOK, NEW r \in Requests, GenerationStep(r)
    PROVE  TypeOK'
<1> USE DEF TypeOK
<1>0. generation[r] \in Generation
  OBVIOUS
<1>1. ASSUME NEW ask \in Asks, NEW token \in Preflights \cup {NoToken},
             StartGeneration(r, ask, token)
      PROVE  TypeOK'
  <2>1. Built(ask, catalog) \in Disclosure
    BY BuiltType
  <2>2. generation' \in [Requests -> Generation]
    BY <1>0, <1>1, <2>1 DEF StartGeneration, Generation
  <2> QED
    BY <1>1, <2>2 DEF StartGeneration, world
<1>2. CASE VerifyPreflight(r)
  <2>1. generation[r].seen.ask \in Asks /\ generation[r].seen.catalog \in 1..Catalogs
    BY <1>0 DEF Generation, Disclosure
  <2>2. Disclose(generation[r].seen.ask, generation[r].seen.catalog) \in Disclosure
    BY <2>1, DiscloseType
  <2>3. generation' \in [Requests -> Generation]
    BY <1>0, <1>2, <2>2 DEF VerifyPreflight, Generation
  <2> QED
    BY <1>2, <2>3 DEF VerifyPreflight, world
<1>3. ASSUME NEW replica \in Replicas, ConsumeConfirmation(r, replica)
      PROVE  TypeOK'
  <2>1. row' \in [Preflights -> {"none", "open", "used", "deleted"}]
    BY <1>3 DEF ConsumeConfirmation
  <2>2. generation' \in [Requests -> Generation]
    BY <1>0, <1>3 DEF ConsumeConfirmation, Generation
  <2> QED
    BY <1>3, <2>1, <2>2 DEF ConsumeConfirmation, world
<1>4. ASSUME NEW replica \in Replicas, RejectConfirmation(r, replica)
      PROVE  TypeOK'
  BY <1>0, <1>4 DEF RejectConfirmation, Generation, world
<1>5. CASE RecordRefusal(r)
  <2>1. generation' \in [Requests -> Generation]
    BY <1>0, <1>5 DEF RecordRefusal, AfterRefusal, Generation
  <2>2. receipts' \subseteq Receipt
    BY <1>0, <1>5 DEF RecordRefusal, Receipt, Generation
  <2> QED
    BY <1>5, <2>1, <2>2 DEF RecordRefusal, world
<1>6. CASE SendPrompt(r)
  <2>1. generation' \in [Requests -> Generation]
    BY <1>0, <1>6 DEF SendPrompt, Generation
  <2>2. generation[r].seen.ask \in Asks /\ generation[r].seen.catalog \in 1..Catalogs
    BY <1>0 DEF Generation, Disclosure
  <2>3. Disclose(generation[r].seen.ask, generation[r].seen.catalog).included \subseteq Items
    BY <2>2, DiscloseType DEF Disclosure
  <2>4. calls' \subseteq Call
    BY <1>0, <1>6, <2>3 DEF SendPrompt, Generation, Call
  <2> QED
    BY <1>6, <2>1, <2>4 DEF SendPrompt, world
<1>7. CASE GatewayRefuses(r)
  BY <1>0, <1>7 DEF GatewayRefuses, Generation, world
<1>8. CASE SemanticFallback(r)
  <2>1. generation[r].attempt = 1
    BY <1>8 DEF SemanticFallback, FallsBack
  <2>2. PICK g : g = [generation[r] EXCEPT !.step = "sending", !.attempt = 2]
    OBVIOUS
  <2>3. g \in Generation
    <3>1. PICK n : n = 2
      OBVIOUS
    <3>2. n \in 1..2
      BY <3>1
    <3>3. g = [generation[r] EXCEPT !.step = "sending", !.attempt = n]
      BY <2>2, <3>1
    <3> QED
      BY <1>0, <3>2, <3>3 DEF Generation
  <2>4. generation' = [generation EXCEPT ![r] = g]
    BY <1>8, <2>1, <2>2 DEF SemanticFallback
  <2> QED
    BY <1>8, <2>3, <2>4 DEF SemanticFallback, world
<1>9. CASE AnswerUnusable(r)
  BY <1>0, <1>9 DEF AnswerUnusable, Generation, world
<1>10. CASE CreateTicket(r)
  <2>1. generation[r].seen.catalog \in 1..Catalogs
    BY <1>0 DEF Generation, Disclosure
  <2> QED
    BY <1>0, <1>10, <2>1, BoundAssumption DEF CreateTicket, TicketCatalog, Generation, world
<1>11. CASE RecordConfirmed(r)
  <2>1. generation' \in [Requests -> Generation]
    BY <1>0, <1>11 DEF RecordConfirmed, Generation
  <2>2. receipts' \subseteq Receipt
    BY <1>0, <1>11 DEF RecordConfirmed, Receipt, Generation
  <2> QED
    BY <1>11, <2>1, <2>2 DEF RecordConfirmed, world
<1> QED
  BY <1>1, <1>2, <1>3, <1>4, <1>5, <1>6, <1>7, <1>8, <1>9, <1>10, <1>11 DEF GenerationStep

\* The tables and the requests in progress keep their types.
THEOREM TypeCorrect == Spec => []TypeOK
<1>1. ASSUME TypeOK, [Next]_vars PROVE TypeOK'
  <2>1. CASE UNCHANGED vars
    BY <1>1, <2>1 DEF vars, world, TypeOK
  <2> QED
    BY <1>1, <2>1, TypeAdministration, TypePreflight, TypeGeneration DEF Next
<1> QED
  BY <1>1, TypeInit, PTL DEF Spec

-----------------------------------------------------------------------------
(* What a step may do to a request.                                        *)

Unevaluated == {"idle", "evaluating", "verifying"}

\* The decisions that requests have based their further steps on.
Evaluated ==
    {preflight[p].seen : p \in {q \in Preflights : preflight[q].step \notin Unevaluated}}
    \cup {generation[r].seen : r \in {s \in Requests : generation[s].step \notin Unevaluated}}

\* A preflight starts, or decides, or keeps its decision.
LEMMA PreflightFrame ==
    ASSUME TypeOK, NEW p \in Preflights, PreflightStep(p)
    PROVE  /\ UNCHANGED <<policies, changes, generation, tickets>>
           /\ \A q \in Preflights \ {p} : preflight'[q] = preflight[q]
           /\ preflight[p].step # "returned"
           /\ \/ preflight'[p].step = "evaluating"
              \/ /\ preflight[p].step = "evaluating"
                 /\ preflight'[p].step \in {"issuing", "recording"}
                 /\ \E ask \in Asks, version \in 1..Catalogs :
                       preflight'[p].seen = Disclose(ask, version)
              \/ /\ preflight[p].step \in {"issuing", "recording"}
                 /\ preflight'[p].seen = preflight[p].seen
<1> USE DEF TypeOK, world
<1>0. preflight[p].seen.ask \in Asks /\ preflight[p].seen.catalog \in 1..Catalogs
  BY DEF Preflight, Disclosure
<1>1. ASSUME NEW ask \in Asks, BuildContext(p, ask)
      PROVE  /\ UNCHANGED <<policies, changes, generation, tickets>>
             /\ \A q \in Preflights \ {p} : preflight'[q] = preflight[q]
             /\ preflight[p].step # "returned"
             /\ preflight'[p].step = "evaluating"
  BY <1>1 DEF BuildContext
<1>2. CASE EvaluatePreflight(p)
  <2> DEFINE seen == Disclose(preflight[p].seen.ask, preflight[p].seen.catalog)
  <2>1. preflight' = [preflight EXCEPT ![p] =
                        [step |-> IF seen.allowed THEN "issuing" ELSE "recording", seen |-> seen]]
    BY <1>2 DEF EvaluatePreflight
  <2> HIDE DEF seen
  <2>2. preflight'[p].seen = seen /\ preflight'[p].step \in {"issuing", "recording"}
    BY <2>1
  <2>3. \E ask \in Asks, version \in 1..Catalogs : preflight'[p].seen = Disclose(ask, version)
    BY <1>0, <2>2 DEF seen
  <2> QED
    BY <1>2, <2>1, <2>2, <2>3 DEF EvaluatePreflight
<1>3. ASSUME NEW replica \in Replicas, IssueConfirmation(p, replica)
      PROVE  /\ UNCHANGED <<policies, changes, generation, tickets>>
             /\ \A q \in Preflights \ {p} : preflight'[q] = preflight[q]
             /\ preflight[p].step = "issuing"
             /\ preflight'[p].seen = preflight[p].seen
  BY <1>3 DEF IssueConfirmation, Preflight
<1>4. CASE RecordPreflight(p)
  BY <1>4 DEF RecordPreflight, Preflight
<1> QED
  BY <1>1, <1>2, <1>3, <1>4 DEF PreflightStep

\* A generation starts, or decides, or keeps its decision and its token.
LEMMA GenerationFrame ==
    ASSUME TypeOK, NEW r \in Requests, GenerationStep(r)
    PROVE  /\ UNCHANGED <<policies, changes, preflight>>
           /\ \A s \in Requests \ {r} : generation'[s] = generation[s]
           /\ \/ /\ generation[r].step = "idle"
                 /\ generation'[r].step = "verifying"
                 /\ generation'[r].confirmed = generation[r].confirmed
                 /\ generation'[r].token \in Preflights =>
                       preflight[generation'[r].token].step = "returned"
              \/ /\ generation[r].step = "verifying"
                 /\ generation'[r].step \in {"blocked", "missing", "consuming"}
                 /\ generation'[r].step = "consuming" => generation[r].token # NoToken
                 /\ generation'[r].confirmed = generation[r].confirmed
                 /\ generation'[r].token = generation[r].token
                 /\ \E ask \in Asks, version \in 1..Catalogs :
                       generation'[r].seen = Disclose(ask, version)
              \/ /\ generation[r].step \notin Unevaluated
                 /\ generation'[r].step \notin Unevaluated \cup {"consuming"}
                 /\ generation'[r].token = generation[r].token
                 /\ generation'[r].seen = generation[r].seen
                 /\ generation[r].confirmed => generation'[r].confirmed
<1> USE DEF TypeOK, world, Unevaluated
<1>0. generation[r] \in Generation
  OBVIOUS
<1>1. ASSUME NEW ask \in Asks, NEW token \in Preflights \cup {NoToken},
             StartGeneration(r, ask, token)
      PROVE  /\ UNCHANGED <<policies, changes, preflight>>
             /\ \A s \in Requests \ {r} : generation'[s] = generation[s]
             /\ generation[r].step = "idle"
             /\ generation'[r].step = "verifying"
             /\ generation'[r].confirmed = generation[r].confirmed
             /\ generation'[r].token \in Preflights =>
                   preflight[generation'[r].token].step = "returned"
  <2>1. generation'[r].token = token
    BY <1>0, <1>1 DEF StartGeneration, Generation
  <2>2. token \in Preflights => preflight[token].step = "returned"
    BY <1>1, ProcessAssumption DEF StartGeneration, Held
  <2> QED
    BY <1>0, <1>1, <2>1, <2>2 DEF StartGeneration, Generation
<1>2. CASE VerifyPreflight(r)
  <2> DEFINE seen == Disclose(generation[r].seen.ask, generation[r].seen.catalog)
             step == IF ~seen.allowed THEN "blocked"
                     ELSE IF generation[r].token = NoToken THEN "missing" ELSE "consuming"
  <2>1. generation[r].seen.ask \in Asks /\ generation[r].seen.catalog \in 1..Catalogs
    BY <1>0 DEF Generation, Disclosure
  <2>2. generation' = [generation EXCEPT ![r] = [@ EXCEPT !.seen = seen, !.step = step]]
    BY <1>2 DEF VerifyPreflight
  <2>3. \E ask \in Asks, version \in 1..Catalogs : seen = Disclose(ask, version)
    BY <2>1
  <2>4. /\ step \in {"blocked", "missing", "consuming"}
        /\ step = "consuming" => generation[r].token # NoToken
    OBVIOUS
  <2> HIDE DEF seen, step
  <2>5. /\ generation'[r].seen = seen /\ generation'[r].step = step
        /\ generation'[r].confirmed = generation[r].confirmed
        /\ generation'[r].token = generation[r].token
    BY <1>0, <2>2 DEF Generation
  <2>6. \A s \in Requests \ {r} : generation'[s] = generation[s]
    BY <2>2
  <2> QED
    BY <1>2, <2>3, <2>4, <2>5, <2>6 DEF VerifyPreflight
<1>3. ASSUME NEW replica \in Replicas,
             \/ ConsumeConfirmation(r, replica)
             \/ RejectConfirmation(r, replica)
      PROVE  /\ UNCHANGED <<policies, changes, preflight>>
             /\ \A s \in Requests \ {r} : generation'[s] = generation[s]
             /\ generation[r].step \notin Unevaluated
             /\ generation'[r].step \notin Unevaluated \cup {"consuming"}
             /\ generation'[r].token = generation[r].token
             /\ generation'[r].seen = generation[r].seen
             /\ generation[r].confirmed => generation'[r].confirmed
  <2>1. CASE ConsumeConfirmation(r, replica)
    BY <1>0, <2>1 DEF ConsumeConfirmation, Generation
  <2>2. CASE RejectConfirmation(r, replica)
    BY <1>0, <2>2 DEF RejectConfirmation, Generation
  <2> QED
    BY <1>3, <2>1, <2>2
<1>4. CASE RecordRefusal(r)
  BY <1>0, <1>4 DEF RecordRefusal, AfterRefusal, Generation
<1>5. CASE SendPrompt(r)
  BY <1>0, <1>5 DEF SendPrompt, Generation
<1>6. CASE GatewayRefuses(r) \/ AnswerUnusable(r)
  BY <1>0, <1>6 DEF GatewayRefuses, AnswerUnusable, Generation
<1>7. CASE SemanticFallback(r)
  BY <1>0, <1>7 DEF SemanticFallback, Generation
<1>8. CASE CreateTicket(r)
  BY <1>0, <1>8 DEF CreateTicket, Generation
<1>9. CASE RecordConfirmed(r)
  BY <1>0, <1>9 DEF RecordConfirmed, Generation
<1> QED
  BY <1>1, <1>2, <1>3, <1>4, <1>5, <1>6, <1>7, <1>8, <1>9 DEF GenerationStep

-----------------------------------------------------------------------------
(* Confirmations.                                                          *)

\* A request holds only tokens that were returned, and one that consumed its
\* token has left a row no other request can consume.
Tokens ==
    /\ \A r \in Requests :
          /\ generation[r].token \in Preflights =>
                preflight[generation[r].token].step = "returned"
          /\ generation[r].step = "consuming" => generation[r].token # NoToken
          /\ generation[r].confirmed =>
                /\ generation[r].token # NoToken
                /\ row[generation[r].token] \in {"used", "deleted"}
                /\ generation[r].step \notin Unevaluated \cup {"consuming"}
    /\ ConfirmedOnce

\* The answer to a prompt that leads further was one to a confirmed request.
Proceeding ==
    \A r \in Requests :
        generation[r].step \in {"sending", "answering", "recording", "done"} =>
            generation[r].confirmed

LEMMA TokensInit == Init => Tokens /\ Proceeding
BY ProcessAssumption DEF Init, Tokens, Proceeding, ConfirmedOnce

LEMMA TokensAdministration ==
    TypeOK /\ Tokens /\ Administration => Tokens'
BY DEF Tokens, Administration, UpsertPolicy, PublishCatalog, ClockPasses, ConfirmedOnce

LEMMA TokensPreflight ==
    ASSUME TypeOK, Tokens, NEW p \in Preflights, PreflightStep(p)
    PROVE  Tokens'
<1>1. /\ UNCHANGED generation
      /\ \A q \in Preflights \ {p} : preflight'[q] = preflight[q]
      /\ preflight[p].step # "returned"
  BY PreflightFrame
<1>2. \A q \in Preflights \ {p} : row[q] \in {"used", "deleted"} => row'[q] \in {"used", "deleted"}
  BY DEF PreflightStep, BuildContext, EvaluatePreflight, IssueConfirmation, RecordPreflight, TypeOK
<1>3. \A r \in Requests : generation[r].token \in Preflights \cup {NoToken}
  BY DEF TypeOK, Generation
<1>4. \A r \in Requests : generation[r].token # p
  BY <1>1 DEF Tokens
<1> QED
  BY <1>1, <1>2, <1>3, <1>4 DEF Tokens, ConfirmedOnce

\* Nothing else changes a row of the table or confirms a generation.
LEMMA OnlyConsumption ==
    ASSUME TypeOK, NEW r \in Requests, GenerationStep(r),
           ~ \E replica \in Replicas : ConsumeConfirmation(r, replica)
    PROVE  /\ UNCHANGED row
           /\ generation'[r].confirmed = generation[r].confirmed
<1>0. generation \in [Requests -> Generation]
  BY DEF TypeOK
<1>1. CASE \E ask \in Asks, token \in Preflights \cup {NoToken} : StartGeneration(r, ask, token)
  BY <1>0, <1>1 DEF StartGeneration, Generation
<1>2. CASE VerifyPreflight(r)
  BY <1>0, <1>2 DEF VerifyPreflight, Generation
<1>3. CASE \E replica \in Replicas : RejectConfirmation(r, replica)
  BY <1>0, <1>3 DEF RejectConfirmation, Generation
<1>4. CASE RecordRefusal(r)
  BY <1>0, <1>4 DEF RecordRefusal, Generation
<1>5. CASE SendPrompt(r)
  BY <1>0, <1>5 DEF SendPrompt, Generation
<1>6. CASE GatewayRefuses(r)
  BY <1>0, <1>6 DEF GatewayRefuses, Generation
<1>7. CASE SemanticFallback(r)
  BY <1>0, <1>7 DEF SemanticFallback, Generation
<1>8. CASE AnswerUnusable(r)
  BY <1>0, <1>8 DEF AnswerUnusable, Generation
<1>9. CASE CreateTicket(r)
  BY <1>0, <1>9 DEF CreateTicket, Generation
<1>10. CASE RecordConfirmed(r)
  BY <1>0, <1>10 DEF RecordConfirmed, Generation
<1> QED
  BY <1>1, <1>2, <1>3, <1>4, <1>5, <1>6, <1>7, <1>8, <1>9, <1>10 DEF GenerationStep

LEMMA TokensGeneration ==
    ASSUME TypeOK, Tokens, NEW r \in Requests, GenerationStep(r)
    PROVE  Tokens'
<1>1. /\ UNCHANGED preflight
      /\ \A s \in Requests \ {r} : generation'[s] = generation[s]
  BY GenerationFrame
<1>2. \A s \in Requests : generation[s].token \in Preflights \cup {NoToken}
  BY DEF TypeOK, Generation
<1>3. ASSUME NEW replica \in Replicas, ConsumeConfirmation(r, replica)
      PROVE  Tokens'
  <2> DEFINE p == generation[r].token
  <2>1. p \in Preflights /\ row[p] = "open" /\ row' = [row EXCEPT ![p] = "used"]
    BY <1>2, <1>3 DEF ConsumeConfirmation, Consumable, Unconsumed, Tokens
  <2>2. /\ generation'[r].token = p /\ generation'[r].confirmed
        /\ generation'[r].step = "sending"
    BY <1>3 DEF ConsumeConfirmation, TypeOK, Generation
  <2>3. \A s \in Requests \ {r} : ~(generation[s].confirmed /\ generation[s].token = p)
    BY <2>1 DEF Tokens
  <2>4. \A q \in Preflights : row[q] \in {"used", "deleted"} => row'[q] \in {"used", "deleted"}
    BY <2>1 DEF TypeOK
  <2>5. row'[p] = "used"
    BY <2>1 DEF TypeOK
  <2> HIDE DEF p
  <2>6. ASSUME NEW s \in Requests
        PROVE  /\ generation'[s].token \in Preflights =>
                     preflight'[generation'[s].token].step = "returned"
               /\ generation'[s].step = "consuming" => generation'[s].token # NoToken
               /\ generation'[s].confirmed =>
                     /\ generation'[s].token # NoToken
                     /\ row'[generation'[s].token] \in {"used", "deleted"}
                     /\ generation'[s].step \notin Unevaluated \cup {"consuming"}
    <3>1. CASE s = r
      BY <1>1, <2>1, <2>2, <2>5, <3>1, ProcessAssumption DEF Tokens, Unevaluated, p
    <3>2. CASE s # r
      BY <1>1, <1>2, <2>4, <3>2 DEF Tokens
    <3> QED
      BY <3>1, <3>2
  <2>7. ConfirmedOnce'
    BY <1>1, <2>2, <2>3 DEF Tokens, ConfirmedOnce
  <2> QED
    BY <2>6, <2>7 DEF Tokens
<1>4. CASE ~ \E replica \in Replicas : ConsumeConfirmation(r, replica)
  <2>1. UNCHANGED row /\ generation'[r].confirmed = generation[r].confirmed
    BY <1>4, OnlyConsumption
  <2>2. /\ generation'[r].token = generation[r].token \/ ~generation[r].confirmed
        /\ generation'[r].token \in Preflights => preflight[generation'[r].token].step = "returned"
        /\ generation'[r].step = "consuming" => generation'[r].token # NoToken
        /\ generation[r].confirmed => generation'[r].step \notin Unevaluated \cup {"consuming"}
    BY GenerationFrame DEF Tokens, Unevaluated
  <2> QED
    BY <1>1, <2>1, <2>2 DEF Tokens, ConfirmedOnce
<1> QED
  BY <1>3, <1>4

LEMMA ProceedingGeneration ==
    ASSUME TypeOK, Proceeding, NEW r \in Requests, GenerationStep(r)
    PROVE  Proceeding'
<1>1. \A s \in Requests \ {r} : generation'[s] = generation[s]
  BY GenerationFrame
<1>2. generation'[r].step \in {"sending", "answering", "recording", "done"} =>
        generation'[r].confirmed
  <2>0. generation \in [Requests -> Generation]
    BY DEF TypeOK
  <2>1. CASE \E ask \in Asks, token \in Preflights \cup {NoToken} : StartGeneration(r, ask, token)
    BY <2>0, <2>1 DEF StartGeneration, Generation
  <2>2. CASE VerifyPreflight(r)
    BY <2>0, <2>2 DEF VerifyPreflight, Generation, Proceeding
  <2>3. CASE \E replica \in Replicas : RejectConfirmation(r, replica)
    BY <2>0, <2>3 DEF RejectConfirmation, Generation, Proceeding
  <2>4. CASE RecordRefusal(r)
    BY <2>0, <2>4 DEF RecordRefusal, AfterRefusal, Generation, Proceeding
  <2>5. CASE SendPrompt(r)
    BY <2>0, <2>5 DEF SendPrompt, Generation, Proceeding
  <2>6. CASE GatewayRefuses(r)
    BY <2>0, <2>6 DEF GatewayRefuses, Generation, Proceeding
  <2>7. CASE SemanticFallback(r)
    BY <2>0, <2>7 DEF SemanticFallback, Generation, Proceeding
  <2>8. CASE AnswerUnusable(r)
    BY <2>0, <2>8 DEF AnswerUnusable, Generation, Proceeding
  <2>9. CASE CreateTicket(r)
    BY <2>0, <2>9 DEF CreateTicket, Generation, Proceeding
  <2>10. CASE RecordConfirmed(r)
    BY <2>0, <2>10 DEF RecordConfirmed, Generation, Proceeding
  <2>11. CASE \E replica \in Replicas : ConsumeConfirmation(r, replica)
    BY <2>0, <2>11 DEF ConsumeConfirmation, Generation
  <2> QED
    BY <2>1, <2>2, <2>3, <2>4, <2>5, <2>6, <2>7, <2>8, <2>9, <2>10, <2>11 DEF GenerationStep
<1> QED
  BY <1>1, <1>2 DEF Proceeding

LEMMA TokensNext == TypeOK /\ Tokens /\ Proceeding /\ [Next]_vars => Tokens' /\ Proceeding'
<1> SUFFICES ASSUME TypeOK, Tokens, Proceeding, [Next]_vars PROVE Tokens' /\ Proceeding'
  OBVIOUS
<1>1. CASE UNCHANGED vars
  BY <1>1 DEF vars, Tokens, Proceeding, ConfirmedOnce
<1>2. CASE Administration
  BY <1>2, TokensAdministration
     DEF Proceeding, Administration, UpsertPolicy, PublishCatalog, ClockPasses
<1>3. ASSUME NEW p \in Preflights, PreflightStep(p) PROVE Tokens' /\ Proceeding'
  BY <1>3, TokensPreflight, PreflightFrame DEF Proceeding
<1>4. ASSUME NEW r \in Requests, GenerationStep(r) PROVE Tokens' /\ Proceeding'
  BY <1>4, TokensGeneration, ProceedingGeneration
<1> QED
  BY <1>1, <1>2, <1>3, <1>4 DEF Next

\* A confirmation authorises one generation, for any number of requests and
\* replicas, whatever their clocks say.
THEOREM SingleUse == Spec => []ConfirmedOnce
<1>1. Tokens => ConfirmedOnce
  BY DEF Tokens
<1> QED
  BY <1>1, TypeCorrect, TokensInit, TokensNext, PTL DEF Spec

-----------------------------------------------------------------------------
(* Decisions.                                                              *)

\* A decision was made on the policy that carries its version, if there is one
\* still.
FollowsPolicy(d) ==
    policies[d.scope].version = d.version =>
        /\ d.included = Included(d.catalog, policies[d.scope])
        /\ d.allowed = Allowed(d.catalog, policies[d.scope])

\* No version comes twice, so a binding determines the decision it stands for.
Versions ==
    /\ \A s \in Scopes : policies[s].version <= changes
    /\ \A d \in Evaluated : d.version <= changes /\ FollowsPolicy(d)
    /\ \A d, e \in Evaluated : Binding(d) = Binding(e) => d = e

LEMMA EvaluatedType == TypeOK => Evaluated \subseteq Disclosure
BY DEF TypeOK, Evaluated, Preflight, Generation

LEMMA VersionsInit == Init => Versions
<1> SUFFICES ASSUME Init PROVE Versions
  OBVIOUS
<1>1. Evaluated = {}
  BY DEF Init, Evaluated, Unevaluated
<1>2. \A s \in Scopes : policies[s].version <= changes
  BY DEF Init
<1> QED
  BY <1>1, <1>2 DEF Versions

\* A step adds at most one decision, made on the policies of the moment.
LEMMA EvaluatedStep ==
    ASSUME TypeOK,
           \/ \E p \in Preflights : PreflightStep(p)
           \/ \E r \in Requests : GenerationStep(r)
    PROVE  \/ Evaluated' \subseteq Evaluated
           \/ \E ask \in Asks, version \in 1..Catalogs :
                 Evaluated' \subseteq Evaluated \cup {Disclose(ask, version)}
<1>1. ASSUME NEW p \in Preflights, PreflightStep(p)
      PROVE  \/ Evaluated' \subseteq Evaluated
             \/ \E ask \in Asks, version \in 1..Catalogs :
                   Evaluated' \subseteq Evaluated \cup {Disclose(ask, version)}
  <2>1. Evaluated' \subseteq Evaluated \cup
           (IF preflight'[p].step \in Unevaluated THEN {} ELSE {preflight'[p].seen})
    <3>1. UNCHANGED generation /\ \A q \in Preflights \ {p} : preflight'[q] = preflight[q]
      BY <1>1, PreflightFrame
    <3> QED
      BY <3>1 DEF Evaluated
  <2>2. CASE preflight'[p].step = "evaluating"
    BY <2>1, <2>2 DEF Unevaluated
  <2>3. CASE preflight[p].step \in {"issuing", "recording"} /\ preflight'[p].seen = preflight[p].seen
    <3>1. preflight[p].seen \in Evaluated
      BY <2>3 DEF Evaluated, Unevaluated
    <3> QED
      BY <2>1, <2>3, <3>1
  <2>4. CASE \E ask \in Asks, version \in 1..Catalogs : preflight'[p].seen = Disclose(ask, version)
    BY <2>1, <2>4
  <2> QED
    BY <1>1, <2>2, <2>3, <2>4, PreflightFrame
<1>2. ASSUME NEW r \in Requests, GenerationStep(r)
      PROVE  \/ Evaluated' \subseteq Evaluated
             \/ \E ask \in Asks, version \in 1..Catalogs :
                   Evaluated' \subseteq Evaluated \cup {Disclose(ask, version)}
  <2>1. Evaluated' \subseteq Evaluated \cup
           (IF generation'[r].step \in Unevaluated THEN {} ELSE {generation'[r].seen})
    <3>1. UNCHANGED preflight /\ \A s \in Requests \ {r} : generation'[s] = generation[s]
      BY <1>2, GenerationFrame
    <3> QED
      BY <3>1 DEF Evaluated
  <2>2. CASE generation'[r].step = "verifying"
    BY <2>1, <2>2 DEF Unevaluated
  <2>3. CASE generation[r].step \notin Unevaluated /\ generation'[r].seen = generation[r].seen
    <3>1. generation[r].seen \in Evaluated
      BY <2>3 DEF Evaluated
    <3> QED
      BY <2>1, <2>3, <3>1
  <2>4. CASE \E ask \in Asks, version \in 1..Catalogs : generation'[r].seen = Disclose(ask, version)
    BY <2>1, <2>4
  <2> QED
    BY <1>2, <2>2, <2>3, <2>4, GenerationFrame
<1> QED
  BY <1>1, <1>2

\* A new decision agrees with every older one that has its binding: both were
\* made on the policy that is in force.
LEMMA NewDecision ==
    ASSUME TypeOK, Versions, NEW ask \in Asks, NEW version \in 1..Catalogs
    PROVE  LET new == Disclose(ask, version)
           IN  /\ new.version <= changes /\ FollowsPolicy(new)
               /\ \A d \in Evaluated : Binding(d) = Binding(new) => d = new
<1> DEFINE new == Disclose(ask, version)
<1>1. EffectiveScope \in Scopes
  BY DEF EffectiveScope, Scopes
<1>2. /\ new.ask = ask /\ new.catalog = version /\ new.scope = EffectiveScope
      /\ new.version = policies[EffectiveScope].version
      /\ new.allowed = Allowed(version, policies[EffectiveScope])
      /\ new.included = Included(version, policies[EffectiveScope])
  BY DEF Disclose
<1>3. new \in Disclosure
  BY DiscloseType
<1> HIDE DEF new
<1>4. new.version <= changes /\ FollowsPolicy(new)
  BY <1>1, <1>2 DEF Versions, FollowsPolicy
<1>5. ASSUME NEW d \in Evaluated, Binding(d) = Binding(new) PROVE d = new
  <2>1. /\ d.ask = new.ask /\ d.catalog = new.catalog
        /\ d.scope = new.scope /\ d.version = new.version
    BY <1>5 DEF Binding
  <2>2. d.included = new.included /\ d.allowed = new.allowed
    BY <1>2, <2>1 DEF Versions, FollowsPolicy
  <2> QED
    BY <1>3, <2>1, <2>2, EvaluatedType DEF Disclosure
<1> QED
  BY <1>4, <1>5 DEF new

LEMMA VersionsNext == TypeOK /\ Versions /\ [Next]_vars => Versions'
<1> SUFFICES ASSUME TypeOK, Versions, [Next]_vars PROVE Versions'
  OBVIOUS
<1>1. ASSUME UNCHANGED <<policies, changes, preflight, generation>> PROVE Versions'
  BY <1>1 DEF Versions, Evaluated, FollowsPolicy, Binding, Included, Allowed
<1>2. ASSUME NEW scope \in Scopes, NEW ceiling \in Ceilings, UpsertPolicy(scope, ceiling)
      PROVE  Versions'
  <2>1. Evaluated' = Evaluated
    BY <1>2 DEF UpsertPolicy, Evaluated
  <2>2. /\ changes' = changes + 1 /\ changes \in Nat
        /\ policies \in [Scopes -> Policy]
        /\ policies' = [policies EXCEPT ![scope] = [version |-> changes', ceiling |-> ceiling]]
    BY <1>2 DEF UpsertPolicy, TypeOK
  <2>3. \A s \in Scopes : policies'[s].version <= changes'
    BY <2>2 DEF Versions, Policy
  <2>4. ASSUME NEW d \in Evaluated
        PROVE  d.version <= changes' /\ FollowsPolicy(d)'
    <3>1. d.version \in Nat /\ d.scope \in Scopes
      BY EvaluatedType DEF Disclosure
    <3>2. d.version <= changes /\ FollowsPolicy(d)
      BY DEF Versions
    <3>3. CASE d.scope = scope
      BY <2>2, <3>1, <3>2, <3>3 DEF FollowsPolicy
    <3>4. CASE d.scope # scope
      BY <2>2, <3>1, <3>2, <3>4 DEF FollowsPolicy, Included, Allowed
    <3> QED
      BY <3>3, <3>4
  <2>5. \A d, e \in Evaluated : Binding(d)' = Binding(e)' => d = e
    BY DEF Versions, Binding
  <2> QED
    BY <2>1, <2>3, <2>4, <2>5 DEF Versions
<1>3. ASSUME \/ \E p \in Preflights : PreflightStep(p)
             \/ \E r \in Requests : GenerationStep(r)
      PROVE  Versions'
  <2>1. UNCHANGED <<policies, changes>>
    BY <1>3, PreflightFrame, GenerationFrame
  <2>2. PICK new : /\ Evaluated' \subseteq Evaluated \cup {new}
                   /\ \/ new \in Evaluated
                      \/ Evaluated' \subseteq Evaluated
                      \/ /\ new.version <= changes /\ FollowsPolicy(new)
                         /\ \A d \in Evaluated : Binding(d) = Binding(new) => d = new
    BY <1>3, EvaluatedStep, NewDecision
  <2>3. \A d \in Evaluated' : d.version <= changes /\ FollowsPolicy(d)
    BY <2>2 DEF Versions
  <2>4. \A d, e \in Evaluated' : Binding(d) = Binding(e) => d = e
    BY <2>2 DEF Versions
  <2> QED
    BY <2>1, <2>3, <2>4 DEF Versions, FollowsPolicy, Binding, Included, Allowed
<1> QED
  BY <1>1, <1>2, <1>3 DEF Next, Administration, PublishCatalog, ClockPasses, vars, world

-----------------------------------------------------------------------------
(* Agreement.                                                              *)

LEMMA AgreementNext ==
    TypeOK /\ Tokens /\ Proceeding /\ Versions
    /\ ConfirmedAsDisclosed /\ TicketsAreConfirmed /\ [Next]_vars
    => ConfirmedAsDisclosed' /\ TicketsAreConfirmed'
<1> SUFFICES ASSUME TypeOK, Tokens, Proceeding, Versions,
                    ConfirmedAsDisclosed, TicketsAreConfirmed, [Next]_vars
             PROVE  ConfirmedAsDisclosed' /\ TicketsAreConfirmed'
  OBVIOUS
<1>0. \A r \in Requests : generation[r].token \in Preflights \cup {NoToken}
  BY DEF TypeOK, Generation
<1>1. CASE UNCHANGED <<preflight, generation, tickets>>
  BY <1>1 DEF ConfirmedAsDisclosed, TicketsAreConfirmed
<1>2. ASSUME NEW p \in Preflights, PreflightStep(p)
      PROVE  ConfirmedAsDisclosed' /\ TicketsAreConfirmed'
  <2>1. /\ UNCHANGED <<generation, tickets>>
        /\ \A q \in Preflights \ {p} : preflight'[q] = preflight[q]
        /\ preflight[p].step # "returned"
    BY <1>2, PreflightFrame
  <2>2. \A r \in Requests : generation[r].confirmed => generation[r].token \in Preflights \ {p}
    BY <1>0, <2>1 DEF Tokens
  <2> QED
    BY <2>1, <2>2 DEF ConfirmedAsDisclosed, TicketsAreConfirmed
<1>3. ASSUME NEW r \in Requests, GenerationStep(r)
      PROVE  ConfirmedAsDisclosed' /\ TicketsAreConfirmed'
  <2>1. /\ UNCHANGED preflight
        /\ \A s \in Requests \ {r} : generation'[s] = generation[s]
    BY <1>3, GenerationFrame
  <2>2. generation[r].confirmed =>
          /\ generation'[r].confirmed
          /\ generation'[r].token = generation[r].token
          /\ generation'[r].seen = generation[r].seen
    BY <1>3, GenerationFrame DEF Tokens, Unevaluated
  <2>3. ASSUME ~generation[r].confirmed, generation'[r].confirmed
        PROVE  generation'[r].seen = preflight[generation'[r].token].seen
    <3>1. PICK replica \in Replicas : ConsumeConfirmation(r, replica)
      BY <1>3, <2>3, OnlyConsumption
    <3>2. /\ Binding(preflight[generation[r].token].seen) = Binding(generation[r].seen)
          /\ generation[r].step = "consuming"
          /\ generation'[r].token = generation[r].token
          /\ generation'[r].seen = generation[r].seen
      BY <3>1 DEF ConsumeConfirmation, Consumable, TypeOK, Generation
    <3>3. /\ generation[r].token \in Preflights
          /\ preflight[generation[r].token].step = "returned"
      BY <1>0, <3>2 DEF Tokens
    <3>4. /\ generation[r].seen \in Evaluated
          /\ preflight[generation[r].token].seen \in Evaluated
      BY <3>2, <3>3 DEF Evaluated, Unevaluated
    <3> QED
      BY <3>2, <3>4 DEF Versions
  <2>4. ConfirmedAsDisclosed'
    BY <2>1, <2>2, <2>3 DEF ConfirmedAsDisclosed
  <2>5. CASE CreateTicket(r)
    <3>1. generation[r].confirmed /\ generation[r].seen = preflight[generation[r].token].seen
      BY <2>5 DEF CreateTicket, Proceeding, ConfirmedAsDisclosed
    <3>2. tickets' = [tickets EXCEPT ![r] = generation[r].seen.catalog]
      BY <2>5 DEF CreateTicket, TicketCatalog
    <3> QED
      BY <2>1, <2>2, <2>4, <3>1, <3>2 DEF TicketsAreConfirmed, TypeOK
  <2>6. CASE ~CreateTicket(r)
    <3>1. UNCHANGED tickets
      BY <1>3, <2>6 DEF GenerationStep, StartGeneration, VerifyPreflight, ConsumeConfirmation,
                        RejectConfirmation, RecordRefusal, SendPrompt, GatewayRefuses,
                        SemanticFallback, AnswerUnusable, RecordConfirmed
    <3> QED
      BY <2>1, <2>2, <2>4, <3>1 DEF TicketsAreConfirmed
  <2> QED
    BY <2>5, <2>6
<1>4. CASE Administration
  BY <1>1, <1>4 DEF Administration, UpsertPolicy, PublishCatalog, ClockPasses
<1> QED
  BY <1>1, <1>2, <1>3, <1>4 DEF Next, vars

LEMMA AgreementInit == Init => ConfirmedAsDisclosed /\ TicketsAreConfirmed
BY DEF Init, ConfirmedAsDisclosed, TicketsAreConfirmed

\* What a generation verified when it consumed its confirmation is what the
\* preflight disclosed, redactions included, however often policies change.
THEOREM Disclosed == Spec => []ConfirmedAsDisclosed
BY TypeCorrect, TokensInit, TokensNext, VersionsInit, VersionsNext, AgreementInit, AgreementNext,
   PTL DEF Spec

\* A ticket belongs to a confirmed generation and to the catalog version of its
\* preflight.
THEOREM Ticketed == Spec => []TicketsAreConfirmed
BY TypeCorrect, TokensInit, TokensNext, VersionsInit, VersionsNext, AgreementInit, AgreementNext,
   PTL DEF Spec

-----------------------------------------------------------------------------
(* Receipts and calls.                                                     *)

\* A request at these steps has sent nothing.
Unsent == {"idle", "verifying", "blocked", "missing", "consuming", "rejected", "probing"}

\* Where a request stands says what it has sent: nothing, earlier attempts, or
\* something, and what became of it.
RequestSound(r) ==
    /\ generation[r].token \in Preflights => Held(generation[r].token)
    /\ generation[r].attempt = 2 =>
          /\ generation[r].step \notin Unevaluated
          /\ generation[r].seen.ask.mode = "governed_semantic"
    /\ generation[r].step \in Unsent => \A call \in calls : call.by # r
    /\ generation[r].step = "sending" =>
          \A call \in calls : call.by = r => call.attempt < generation[r].attempt
    /\ generation[r].step \in {"answering", "recording", "done"} => \E call \in calls : call.by = r
    /\ generation[r].step \in {"recording", "done"} => tickets[r] # 0

\* An attempt sends once, under the token its request consumed.
CallSound(call) ==
    /\ call.attempt <= generation[call.by].attempt
    /\ call.under \in Preflights =>
          generation[call.by].confirmed /\ generation[call.by].token = call.under
    /\ \A other \in calls : other.by = call.by /\ other.attempt = call.attempt => other = call

\* A receipt that ends a request is written when nothing more is sent.
ReceiptSound(receipt) ==
    /\ receipt.outcome \in {"missing", "rejected"} =>
          /\ receipt.of \in Requests /\ generation[receipt.of].step = "refused"
          /\ \A call \in calls : call.by # receipt.of
    /\ receipt.outcome = "confirmed" =>
          receipt.of \in Requests /\ generation[receipt.of].step = "done"

\* The receipt of a preflight precedes its token.
TokensHaveReceipts ==
    \A p \in Preflights :
        Held(p) => [of |-> p, seen |-> preflight[p].seen, outcome |-> "issued"] \in receipts

Story ==
    /\ \A r \in Requests : RequestSound(r)
    /\ \A call \in calls : CallSound(call)
    /\ \A receipt \in receipts : ReceiptSound(receipt)
    /\ TokensHaveReceipts

LEMMA StoryInit == Init => Story
BY ProcessAssumption
   DEF Init, Story, RequestSound, TokensHaveReceipts, Held

\* Attempts are numbers, and calls have them.
LEMMA CallTypes ==
    ASSUME TypeOK
    PROVE  /\ \A r \in Requests : generation[r].attempt \in 1..2
           /\ \A call \in calls : call.by \in Requests /\ call.attempt \in 1..2
BY DEF TypeOK, Generation, Call

\* A preflight writes its receipt and then gives its token away.
LEMMA StoryPreflight ==
    ASSUME TypeOK, Tokens, Story, NEW p \in Preflights, PreflightStep(p)
    PROVE  Story'
<1>1. /\ UNCHANGED <<generation, tickets>>
      /\ \A q \in Preflights \ {p} : preflight'[q] = preflight[q]
      /\ preflight[p].step # "returned"
  BY PreflightFrame
<1>2. UNCHANGED calls
  BY DEF PreflightStep, BuildContext, EvaluatePreflight, IssueConfirmation, RecordPreflight
<1>3. \A q \in Preflights \ {p} : Held(q)' = Held(q)
  BY <1>1 DEF Held
<1>4. \A r \in Requests : generation[r].token # p \/ ~Held(p)
  BY <1>1 DEF Held
<1>5. ASSUME NEW r \in Requests PROVE RequestSound(r)'
  <2>1. RequestSound(r) /\ ~Held(p) BY <1>1 DEF Story, Held
  <2> QED BY <1>1, <1>2, <1>3, <2>1 DEF RequestSound
<1>6. ASSUME NEW call \in calls' PROVE CallSound(call)'
  BY <1>1, <1>2 DEF Story, CallSound
<1>7. CASE RecordPreflight(p)
  <2>1. PICK receipt : /\ receipts' = receipts \cup {receipt}
                       /\ receipt = [of |-> p, seen |-> preflight[p].seen,
                            outcome |-> IF preflight[p].seen.allowed THEN "issued" ELSE "blocked"]
    BY <1>7 DEF RecordPreflight
  <2>2. receipt.outcome \in {"issued", "blocked"} BY <2>1
  <2>3. ReceiptSound(receipt)' BY <2>2 DEF ReceiptSound
  <2>4. ASSUME NEW x \in receipts PROVE ReceiptSound(x)'
    BY <1>1, <1>2 DEF Story, ReceiptSound
  <2>5. preflight'[p].seen = preflight[p].seen
    BY <1>7 DEF RecordPreflight, TypeOK, Preflight
  <2>6. ASSUME NEW q \in Preflights, Held(q)'
        PROVE  [of |-> q, seen |-> preflight'[q].seen, outcome |-> "issued"] \in receipts'
    <3>1. CASE q = p BY <2>1, <2>5, <2>6, <3>1 DEF Held
    <3>2. CASE q # p
      <4>1. Held(q) /\ preflight'[q].seen = preflight[q].seen BY <1>1, <1>3, <2>6, <3>2
      <4> QED BY <2>1, <4>1 DEF Story, TokensHaveReceipts
    <3> QED BY <3>1, <3>2
  <2> QED BY <1>5, <1>6, <2>1, <2>3, <2>4, <2>6 DEF Story, TokensHaveReceipts
<1>8. CASE ~RecordPreflight(p)
  <2>1. UNCHANGED receipts
    BY <1>8 DEF PreflightStep, BuildContext, EvaluatePreflight, IssueConfirmation
  <2>2. preflight'[p].step # "returned"
    BY <1>8 DEF PreflightStep, BuildContext, EvaluatePreflight, IssueConfirmation, TypeOK, Preflight
  <2>3. ~Held(p)' BY <2>2 DEF Held
  <2>4. \A x \in receipts' : ReceiptSound(x)' BY <1>1, <1>2, <2>1 DEF Story, ReceiptSound
  <2>5. TokensHaveReceipts' BY <1>1, <1>3, <2>1, <2>3 DEF Story, TokensHaveReceipts
  <2> QED BY <1>5, <1>6, <2>4, <2>5 DEF Story
<1> QED BY <1>7, <1>8

\* A generation keeps what it consumed, and leaves the others alone.
LEMMA GenerationKeeps ==
    ASSUME TypeOK, Tokens, NEW r \in Requests, GenerationStep(r)
    PROVE  /\ UNCHANGED preflight
           /\ \A s \in Requests \ {r} : generation'[s] = generation[s]
           /\ generation[r].confirmed =>
                 generation'[r].confirmed /\ generation'[r].token = generation[r].token
BY GenerationFrame DEF Tokens, Unevaluated

\* A step that sends nothing keeps the story if it keeps its request's part.
LEMMA StoryKept ==
    ASSUME TypeOK, Tokens, Story, NEW r \in Requests, GenerationStep(r), UNCHANGED calls,
           \A s \in Requests : tickets[s] # 0 => tickets'[s] # 0,
           generation'[r].attempt \in {generation[r].attempt, generation[r].attempt + 1},
           generation[r].step \notin {"refused", "done"}, RequestSound(r)',
           receipts \subseteq receipts',
           \A x \in receipts' \ receipts : ReceiptSound(x)'
    PROVE  Story'
<1>1. /\ UNCHANGED preflight
      /\ \A s \in Requests \ {r} : generation'[s] = generation[s]
      /\ generation[r].confirmed =>
            generation'[r].confirmed /\ generation'[r].token = generation[r].token
  BY GenerationKeeps
<1>2. \A p \in Preflights : Held(p)' = Held(p) BY <1>1 DEF Held
<1>3. ASSUME NEW s \in Requests, s # r PROVE RequestSound(s)'
  BY <1>1, <1>2, <1>3 DEF Story, RequestSound
<1>4. ASSUME NEW call \in calls PROVE CallSound(call)'
  <2>1. CallSound(call) /\ call.by \in Requests /\ call.attempt \in 1..2
    BY CallTypes DEF Story
  <2>2. CASE call.by = r
    <3>1. generation[r].attempt \in 1..2 BY CallTypes
    <3> QED BY <1>1, <2>1, <2>2, <3>1 DEF CallSound
  <2>3. CASE call.by # r BY <1>1, <2>1, <2>3 DEF CallSound
  <2> QED BY <2>2, <2>3
<1>5. ASSUME NEW x \in receipts PROVE ReceiptSound(x)'
  <2>1. ReceiptSound(x) BY DEF Story
  <2> QED BY <1>1, <2>1 DEF ReceiptSound
<1>6. TokensHaveReceipts' BY <1>1, <1>2 DEF Story, TokensHaveReceipts
<1> QED BY <1>3, <1>4, <1>5, <1>6 DEF Story

\* The steps of a request up to its first call.
LEMMA StoryBefore ==
    ASSUME TypeOK, Tokens, Story, NEW r \in Requests, GenerationStep(r),
           \/ \E ask \in Asks, token \in Preflights \cup {NoToken} : StartGeneration(r, ask, token)
           \/ VerifyPreflight(r)
           \/ \E replica \in Replicas : ConsumeConfirmation(r, replica) \/ RejectConfirmation(r, replica)
           \/ RecordRefusal(r)
    PROVE  Story'
<1>0. generation \in [Requests -> Generation] /\ RequestSound(r) /\ generation[r].attempt \in 1..2
  BY CallTypes DEF TypeOK, Story
<1>1. ASSUME NEW ask \in Asks, NEW token \in Preflights \cup {NoToken}, StartGeneration(r, ask, token)
      PROVE  Story'
  <2>1. /\ generation[r].step = "idle" /\ generation'[r].step = "verifying"
        /\ generation'[r].attempt = generation[r].attempt /\ generation'[r].token = token
        /\ UNCHANGED <<preflight, receipts, calls, tickets>>
    BY <1>0, <1>1 DEF StartGeneration, Generation
  <2>2. token \in Preflights => Held(token)'
    BY <1>1, <2>1, ProcessAssumption DEF StartGeneration, Held
  <2>3. RequestSound(r)'
    BY <1>0, <2>1, <2>2 DEF RequestSound, Unsent, Unevaluated
  <2> QED BY <2>1, <2>3, StoryKept
<1>2. CASE VerifyPreflight(r)
  <2>1. /\ generation[r].step = "verifying" /\ UNCHANGED <<preflight, receipts, calls, tickets>>
        /\ generation'[r].step \in {"blocked", "missing", "consuming"}
        /\ generation'[r].attempt = generation[r].attempt
        /\ generation'[r].token = generation[r].token
    <3> DEFINE seen == Disclose(generation[r].seen.ask, generation[r].seen.catalog)
               step == IF ~seen.allowed THEN "blocked"
                       ELSE IF generation[r].token = NoToken THEN "missing" ELSE "consuming"
    <3>1. generation' = [generation EXCEPT ![r] = [@ EXCEPT !.seen = seen, !.step = step]]
      BY <1>2 DEF VerifyPreflight
    <3>2. step \in {"blocked", "missing", "consuming"} OBVIOUS
    <3> HIDE DEF seen, step
    <3> QED BY <1>0, <1>2, <3>1, <3>2 DEF VerifyPreflight, Generation
  <2>2. RequestSound(r)'
    BY <1>0, <2>1 DEF RequestSound, Unsent, Unevaluated, Held
  <2> QED BY <2>1, <2>2, StoryKept
<1>3. ASSUME NEW replica \in Replicas,
             ConsumeConfirmation(r, replica) \/ RejectConfirmation(r, replica)
      PROVE  Story'
  <2>1. /\ generation[r].step = "consuming" /\ generation'[r].step \in {"sending", "rejected"}
        /\ UNCHANGED <<preflight, receipts, calls, tickets>>
        /\ generation'[r].attempt = generation[r].attempt
        /\ generation'[r].token = generation[r].token
        /\ generation'[r].seen = generation[r].seen
    <3>1. CASE ConsumeConfirmation(r, replica) BY <1>0, <3>1 DEF ConsumeConfirmation, Generation
    <3>2. CASE RejectConfirmation(r, replica) BY <1>0, <3>2 DEF RejectConfirmation, Generation
    <3> QED BY <1>3, <3>1, <3>2
  <2>2. RequestSound(r)'
    BY <1>0, <2>1 DEF RequestSound, Unsent, Unevaluated, Held
  <2> QED BY <2>1, <2>2, StoryKept
<1>4. CASE RecordRefusal(r)
  <2>1. /\ generation[r].step \in {"blocked", "missing", "rejected"}
        /\ generation'[r].step = (IF generation[r].step = "blocked" THEN "probing" ELSE "refused")
        /\ UNCHANGED <<preflight, calls, tickets>>
        /\ generation'[r].attempt = generation[r].attempt
        /\ generation'[r].token = generation[r].token
        /\ generation'[r].seen = generation[r].seen
    BY <1>0, <1>4 DEF RecordRefusal, AfterRefusal, Generation
  <2>2. RequestSound(r)'
    BY <1>0, <2>1 DEF RequestSound, Unsent, Unevaluated, Held
  <2>3. PICK receipt : /\ receipts' = receipts \cup {receipt}
                       /\ receipt = [of |-> r, seen |-> generation[r].seen,
                                     outcome |-> generation[r].step]
    BY <1>4 DEF RecordRefusal
  <2>4. receipt.of = r /\ receipt.outcome = generation[r].step BY <2>3
  <2>5. \A call \in calls : call.by # r BY <1>0, <2>1 DEF RequestSound, Unsent
  <2>6. ReceiptSound(receipt)' BY <2>1, <2>4, <2>5 DEF ReceiptSound
  <2> QED BY <2>1, <2>2, <2>3, <2>6, StoryKept
<1> QED BY <1>1, <1>2, <1>3, <1>4

\* A call is the first of its attempt.
LEMMA StorySent ==
    ASSUME TypeOK, Tokens, Story, NEW r \in Requests, GenerationStep(r), SendPrompt(r)
    PROVE  Story'
<1>0. generation \in [Requests -> Generation] /\ RequestSound(r) /\ generation[r].attempt \in 1..2
  BY CallTypes DEF TypeOK, Story
<1>1. /\ UNCHANGED preflight
      /\ \A s \in Requests \ {r} : generation'[s] = generation[s]
      /\ generation[r].confirmed =>
            generation'[r].confirmed /\ generation'[r].token = generation[r].token
  BY GenerationKeeps
<1>2. /\ generation[r].step \in {"probing", "sending"}
      /\ generation'[r].step \in {"refused", "answering"}
      /\ UNCHANGED <<receipts, tickets>>
      /\ generation'[r].attempt = generation[r].attempt
      /\ generation'[r].token = generation[r].token
      /\ generation'[r].seen = generation[r].seen
  BY <1>0 DEF SendPrompt, Generation
<1>3. PICK call : /\ calls' = calls \cup {call}
                  /\ call.by = r /\ call.attempt = generation[r].attempt
                  /\ call.under = IF generation[r].confirmed THEN generation[r].token ELSE NoToken
  <2>1. PICK now : calls' = calls \cup
                {[by |-> r, attempt |-> generation[r].attempt, sent |-> now.included,
                  under |-> IF generation[r].confirmed THEN generation[r].token ELSE NoToken]}
    BY DEF SendPrompt
  <2>2. PICK call : call = [by |-> r, attempt |-> generation[r].attempt, sent |-> now.included,
                  under |-> IF generation[r].confirmed THEN generation[r].token ELSE NoToken]
    OBVIOUS
  <2> QED BY <2>1, <2>2
<1>4. \A other \in calls : other.by = r => other.attempt < generation[r].attempt
  BY <1>0, <1>2 DEF RequestSound, Unsent
<1>5. \A p \in Preflights : Held(p)' = Held(p) BY <1>1 DEF Held
<1>6. RequestSound(r)'
  <2>1. (generation[r].token \in Preflights => Held(generation[r].token))'
    BY <1>0, <1>2, <1>5 DEF RequestSound
  <2>2. generation'[r].attempt = 2 =>
          /\ generation'[r].step \notin Unevaluated
          /\ generation'[r].seen.ask.mode = "governed_semantic"
    BY <1>0, <1>2 DEF RequestSound, Unevaluated
  <2>3. generation'[r].step \notin Unsent \cup {"sending", "recording", "done"} BY <1>2 DEF Unsent
  <2>4. \E other \in calls' : other.by = r BY <1>3
  <2> QED BY <2>1, <2>2, <2>3, <2>4 DEF RequestSound
<1>7. ASSUME NEW s \in Requests, s # r PROVE RequestSound(s)'
  <2>1. RequestSound(s) /\ generation'[s] = generation[s] BY <1>1, <1>7 DEF Story
  <2>2. generation[s].token \in Preflights => Held(generation[s].token)' BY <1>5, <2>1 DEF RequestSound
  <2>3. \A other \in calls' : other.by = s => other \in calls BY <1>3, <1>7
  <2>4. calls \subseteq calls' BY <1>3
  <2> QED BY <1>2, <2>1, <2>2, <2>3, <2>4 DEF RequestSound
<1>8. CallSound(call)'
  <2>1. call.attempt <= generation'[call.by].attempt BY <1>0, <1>2, <1>3
  <2>2. call.under \in Preflights =>
          generation'[call.by].confirmed /\ generation'[call.by].token = call.under
    BY <1>1, <1>2, <1>3, ProcessAssumption
  <2>3. \A other \in calls : other.by = call.by => other.attempt # call.attempt
    BY <1>0, <1>3, <1>4, CallTypes
  <2>4. \A other \in calls' : other.by = call.by /\ other.attempt = call.attempt => other = call
    BY <1>3, <2>3
  <2> QED BY <2>1, <2>2, <2>4 DEF CallSound
<1>9. ASSUME NEW c \in calls PROVE CallSound(c)'
  <2>1. CallSound(c) /\ c.by \in Requests /\ c.attempt \in 1..2 BY CallTypes DEF Story
  <2>2. /\ generation'[c.by].attempt = generation[c.by].attempt
        /\ generation[c.by].confirmed =>
              generation'[c.by].confirmed /\ generation'[c.by].token = generation[c.by].token
    BY <1>1, <1>2, <2>1
  <2>3. ~(call.by = c.by /\ call.attempt = c.attempt) BY <1>0, <1>3, <1>4, <2>1
  <2>4. \A other \in calls' : other.by = c.by /\ other.attempt = c.attempt => other = c
    BY <1>3, <2>1, <2>3 DEF CallSound
  <2> QED BY <2>1, <2>2, <2>4 DEF CallSound
<1>10. ASSUME NEW x \in receipts PROVE ReceiptSound(x)'
  <2>1. ReceiptSound(x) BY DEF Story
  <2> QED BY <1>1, <1>2, <1>3, <2>1 DEF ReceiptSound
<1>11. TokensHaveReceipts' BY <1>1, <1>2, <1>5 DEF Story, TokensHaveReceipts
<1> QED BY <1>2, <1>3, <1>6, <1>7, <1>8, <1>9, <1>10, <1>11 DEF Story

\* The steps of a request once it may have sent something.
LEMMA StoryAfter ==
    ASSUME TypeOK, Tokens, Story, NEW r \in Requests, GenerationStep(r),
           \/ GatewayRefuses(r) \/ SemanticFallback(r) \/ AnswerUnusable(r)
           \/ CreateTicket(r) \/ RecordConfirmed(r)
    PROVE  Story'
<1>0. generation \in [Requests -> Generation] /\ RequestSound(r) /\ generation[r].attempt \in 1..2
  BY CallTypes DEF TypeOK, Story
<1>1. CASE GatewayRefuses(r) \/ AnswerUnusable(r)
  <2>1. /\ generation[r].step \in {"probing", "sending", "answering"}
        /\ generation'[r].step \in {"refused", "failed"}
        /\ UNCHANGED <<preflight, receipts, calls, tickets>>
        /\ generation'[r].attempt = generation[r].attempt
        /\ generation'[r].token = generation[r].token
        /\ generation'[r].seen = generation[r].seen
    BY <1>0, <1>1 DEF GatewayRefuses, AnswerUnusable, Generation
  <2>2. RequestSound(r)' BY <1>0, <2>1 DEF RequestSound, Unsent, Unevaluated, Held
  <2> QED BY <2>1, <2>2, StoryKept
<1>2. CASE SemanticFallback(r)
  <2>1. /\ generation[r].step = "answering" /\ generation'[r].step = "sending"
        /\ UNCHANGED <<preflight, receipts, calls, tickets>>
        /\ generation[r].attempt = 1 /\ generation'[r].attempt = 2
        /\ generation'[r].token = generation[r].token
        /\ generation'[r].seen = generation[r].seen
        /\ generation[r].seen.ask.mode = "governed_semantic"
    BY <1>0, <1>2 DEF SemanticFallback, FallsBack, Generation
  <2>2. \A call \in calls : call.by = r => call.attempt < 2
    BY <2>1, CallTypes DEF Story, CallSound
  <2>3. RequestSound(r)' BY <1>0, <2>1, <2>2 DEF RequestSound, Unsent, Unevaluated, Held
  <2> QED BY <2>1, <2>3, StoryKept
<1>3. CASE CreateTicket(r)
  <2>1. /\ generation[r].step = "answering" /\ generation'[r].step = "recording"
        /\ UNCHANGED <<preflight, receipts, calls>>
        /\ generation'[r].attempt = generation[r].attempt
        /\ generation'[r].token = generation[r].token
        /\ generation'[r].seen = generation[r].seen
    BY <1>0, <1>3 DEF CreateTicket, Generation
  <2>2. generation[r].seen.catalog \in 1..Catalogs BY <1>0 DEF Generation, Disclosure
  <2>3. tickets' = [tickets EXCEPT ![r] = generation[r].seen.catalog]
    BY <1>3 DEF CreateTicket, TicketCatalog
  <2>4. tickets'[r] # 0 /\ \A s \in Requests : tickets[s] # 0 => tickets'[s] # 0
    BY <2>2, <2>3, BoundAssumption DEF TypeOK
  <2>5. RequestSound(r)' BY <1>0, <2>1, <2>4 DEF RequestSound, Unsent, Unevaluated, Held
  <2> QED BY <2>1, <2>4, <2>5, StoryKept
<1>4. CASE RecordConfirmed(r)
  <2>1. /\ generation[r].step = "recording" /\ generation'[r].step = "done"
        /\ UNCHANGED <<preflight, calls, tickets>>
        /\ generation'[r].attempt = generation[r].attempt
        /\ generation'[r].token = generation[r].token
        /\ generation'[r].seen = generation[r].seen
    BY <1>0, <1>4 DEF RecordConfirmed, Generation
  <2>0. PICK receipt : receipt = [of |-> r, seen |-> generation[r].seen, outcome |-> "confirmed"]
    OBVIOUS
  <2>2. /\ receipts' = receipts \cup {receipt}
        /\ receipt.of = r /\ receipt.outcome = "confirmed"
    BY <1>4, <2>0 DEF RecordConfirmed
  <2>3. ReceiptSound(receipt)' BY <2>1, <2>2 DEF ReceiptSound
  <2>4. RequestSound(r)' BY <1>0, <2>1 DEF RequestSound, Unsent, Unevaluated, Held
  <2> QED BY <2>1, <2>2, <2>3, <2>4, StoryKept
<1> QED BY <1>1, <1>2, <1>3, <1>4

LEMMA StoryNext == TypeOK /\ Tokens /\ Story /\ [Next]_vars => Story'
<1> SUFFICES ASSUME TypeOK, Tokens, Story, [Next]_vars PROVE Story'
  OBVIOUS
<1>1. CASE UNCHANGED <<preflight, generation, receipts, calls, tickets>>
  BY <1>1 DEF Story, RequestSound, CallSound, ReceiptSound, TokensHaveReceipts, Held
<1>2. CASE Administration
  BY <1>1, <1>2 DEF Administration, UpsertPolicy, PublishCatalog, ClockPasses
<1>3. ASSUME NEW r \in Requests, GenerationStep(r) PROVE Story'
  BY <1>3, StoryBefore, StorySent, StoryAfter DEF GenerationStep
<1> QED
  BY <1>1, <1>2, <1>3, StoryPreflight DEF Next, vars

\* A set in which one value identifies a member has at most one per value.
LEMMA AtMostTwo ==
    ASSUME NEW S, NEW limit \in 1..2, \A c \in S : c.attempt \in 1..limit,
           \A c, d \in S : c.attempt = d.attempt => c = d
    PROVE  Cardinality(S) <= limit
<1> DEFINE At(n) == {c \in S : c.attempt = n}
<1>1. ASSUME NEW n \in 1..2 PROVE IsFiniteSet(At(n)) /\ Cardinality(At(n)) \in 0..1
  <2>1. CASE At(n) = {} BY <2>1, FS_EmptySet
  <2>2. CASE At(n) # {}
    <3>1. PICK c \in At(n) : At(n) = {c} BY <2>2
    <3>2. IsFiniteSet({c}) /\ Cardinality({c}) = 1 BY FS_Singleton
    <3> HIDE DEF At
    <3> QED BY <3>1, <3>2
  <2> QED BY <2>1, <2>2
<1>2. S = At(1) \cup At(2) BY DEF At
<1>3. CASE limit = 1
  <2>1. S = At(1) BY <1>3
  <2> HIDE DEF At
  <2> QED BY <1>1, <1>3, <2>1
<1>4. CASE limit = 2
  <2>1. IsFiniteSet(At(1)) /\ IsFiniteSet(At(2))
        /\ Cardinality(At(1)) \in 0..1 /\ Cardinality(At(2)) \in 0..1
    BY <1>1
  <2> HIDE DEF At
  <2>2. Cardinality(At(1) \cup At(2)) =
           Cardinality(At(1)) + Cardinality(At(2)) - Cardinality(At(1) \cap At(2))
    BY <2>1, FS_Union
  <2>3. Cardinality(At(1) \cap At(2)) \in Nat
    BY <2>1, FS_Intersection, FS_CardinalityType
  <2> QED BY <1>2, <1>4, <2>1, <2>2, <2>3
<1> QED BY <1>3, <1>4

\* What was sent under a confirmation, one request sent, once per attempt.
LEMMA CallsFit ==
    ASSUME TypeOK, Tokens, Story, ConfirmedAsDisclosed, NEW p \in Preflights
    PROVE  /\ Cardinality(CallsUnder(p)) <= MaximumCalls(preflight[p].seen.ask.mode)
           /\ CallsUnder(p) # {} =>
                [of |-> p, seen |-> preflight[p].seen, outcome |-> "issued"] \in receipts
<1>1. ASSUME NEW c \in CallsUnder(p)
      PROVE  /\ c \in calls /\ c.by \in Requests /\ c.attempt \in 1..2
             /\ generation[c.by].confirmed /\ generation[c.by].token = p
             /\ c.attempt <= generation[c.by].attempt
  BY <1>1, CallTypes DEF CallsUnder, Story, CallSound
<1>2. CASE CallsUnder(p) = {}
  <2>1. Cardinality(CallsUnder(p)) = 0 BY <1>2, FS_EmptySet
  <2> QED BY <1>2, <2>1 DEF MaximumCalls
<1>3. CASE CallsUnder(p) # {}
  <2>1. PICK r \in Requests : generation[r].confirmed /\ generation[r].token = p
    BY <1>1, <1>3
  <2>2. \A c \in CallsUnder(p) : c.by = r BY <1>1, <2>1 DEF Tokens, ConfirmedOnce
  <2>3. generation[r].seen = preflight[p].seen BY <2>1 DEF ConfirmedAsDisclosed
  <2>4. PICK limit : limit = MaximumCalls(preflight[p].seen.ask.mode) OBVIOUS
  <2>5. limit \in 1..2 BY <2>4 DEF MaximumCalls
  <2>6. generation[r].attempt <= limit
    <3>1. generation[r].attempt \in 1..2 BY CallTypes
    <3>2. generation[r].attempt = 2 => limit = 2
      BY <2>3, <2>4 DEF Story, RequestSound, MaximumCalls
    <3> QED BY <2>5, <3>1, <3>2
  <2>7. ASSUME NEW c \in CallsUnder(p) PROVE c.attempt \in 1..limit
    <3>1. c.attempt \in 1..2 /\ c.attempt <= generation[r].attempt BY <1>1, <2>2
    <3>2. generation[r].attempt \in 1..2 BY CallTypes
    <3> QED BY <2>5, <2>6, <3>1, <3>2
  <2>8. \A c, d \in CallsUnder(p) : c.attempt = d.attempt => c = d
    BY <1>1, <2>2 DEF Story, CallSound
  <2>9. Cardinality(CallsUnder(p)) <= limit BY <2>5, <2>7, <2>8, AtMostTwo
  <2>10. Held(p) BY <2>1 DEF Story, RequestSound
  <2> QED BY <2>4, <2>9, <2>10 DEF Story, TokensHaveReceipts
<1> QED BY <1>2, <1>3

\* Under one confirmation the provider is called no more often than its
\* preflight said, after the preflight's receipt, and the receipts of refused and of
\* confirmed requests tell what was sent.
THEOREM CallsTold == Spec => []CallsAreDisclosed
<1>1. TypeOK /\ Tokens /\ Story /\ ConfirmedAsDisclosed => CallsAreDisclosed
  <2> SUFFICES ASSUME TypeOK, Tokens, Story, ConfirmedAsDisclosed PROVE CallsAreDisclosed
    OBVIOUS
  <2>1. ASSUME NEW x \in receipts
        PROVE  /\ x.outcome \in {"missing", "rejected"} => CallsBy(x.of) = {}
               /\ x.outcome = "confirmed" => CallsBy(x.of) # {} /\ tickets[x.of] # 0
    <3>1. ReceiptSound(x) BY DEF Story
    <3>2. ASSUME x.outcome = "confirmed" PROVE CallsBy(x.of) # {} /\ tickets[x.of] # 0
      <4>1. x.of \in Requests /\ generation[x.of].step = "done" BY <3>1, <3>2 DEF ReceiptSound
      <4>2. RequestSound(x.of) BY <4>1 DEF Story
      <4> QED BY <4>1, <4>2 DEF RequestSound, CallsBy
    <3> QED BY <3>1, <3>2 DEF ReceiptSound, CallsBy
  <2> QED BY <2>1, CallsFit DEF CallsAreDisclosed
<1> QED
  BY <1>1, TypeCorrect, TokensInit, TokensNext, StoryInit, StoryNext, Disclosed, PTL DEF Spec
================================================================================
