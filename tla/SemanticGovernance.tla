-------------------------- MODULE SemanticGovernance --------------------------
(***************************************************************************)
(* Governed meaning: descriptions of tables and columns, business          *)
(* concepts, metrics and business rules.  Definitions are immutable        *)
(* evidence; one resolution per key holds the current meaning.  Stewards   *)
(* propose and correct, inference and ingestion propose descriptions, and  *)
(* all of them write through the repository's propose methods: read the    *)
(* resolution, decide by epistemic precedence, then write, under the       *)
(* process's lock but in no common transaction.                            *)
(***************************************************************************)
EXTENDS CatalogStore

CONSTANTS
    Stewards,   \* threads serving review and proposal endpoints
    Inferers,   \* threads running description inference
    Keys, NoKey,
    KindOf,     \* "semantic", "concept", "metric" or "rule"
    RefsOf,     \* the catalog objects a key's definitions reference, by payload
    DepsOf,     \* the concepts and rules a key's definitions depend on, by payload
    Payloads, NoPayload,
    NamesOf,    \* the normalized names and terms of a payload
    Remit,      \* the keys, statuses and payloads each steward submits
    Phrases     \* the payloads the model may answer

ASSUME GovernorAssumption == Stewards \cup Inferers \subseteq Threads
ASSUME KeyAssumption ==
    /\ NoKey \notin Keys /\ NoPayload \notin Payloads
    /\ KindOf \in [Keys -> {"semantic", "concept", "metric", "rule"}]
    /\ RefsOf \in [Keys -> [Payloads \cup {NoPayload} -> SUBSET References]]
    /\ \A k \in Keys : KindOf[k] = "semantic" =>
          \A p \in Payloads : RefsOf[k][p] = RefsOf[k][NoPayload]
    /\ DepsOf \in [Keys -> [Payloads \cup {NoPayload} -> SUBSET Keys]]
    /\ \A k \in Keys : \A p \in Payloads \cup {NoPayload} : \A d \in DepsOf[k][p] :
          <<KindOf[k], KindOf[d]>> \in {<<"metric", "concept">>, <<"metric", "rule">>,
                                       <<"rule", "concept">>}
    /\ NamesOf \in [Payloads -> SUBSET UNION {NamesOf[p] : p \in Payloads}]
    /\ Remit \in [Stewards -> SUBSET (Keys \X {"unknown", "inferred", "imported", "confirmed"}
                                        \X (Payloads \cup {NoPayload}))]
    \* A description may be confirmed as it stands, without being repeated.
    /\ \A t \in Stewards : \A m \in Remit[t] :
          m[3] = NoPayload => KindOf[m[1]] = "semantic" /\ m[2] = "confirmed"
    /\ Phrases \subseteq Payloads

VARIABLES
    resolution, \* per key, the current meaning
    proposal,   \* per thread, the definition it is about to write
    inference   \* per thread, its description inference

governanceVars == <<resolution, proposal, inference>>

Rank == [none |-> 0, unknown |-> 0, inferred |-> 1, imported |-> 2, confirmed |-> 3]
\* What may be proposed rather than corrected.
Proposable == {"unknown", "inferred", "imported"}

Status == {"none", "unknown", "inferred", "imported", "confirmed", "conflicting"}

\* version: the catalog version of the selected definition, 0 for none
\* updated: the writes so far, standing for the strictly increasing updated_at
Resolution == [status : Status, payload : Payloads \cup {NoPayload},
               version : Nat, updated : Nat]

Undefined == [status |-> "none", payload |-> NoPayload, version |-> 0, updated |-> 0]

\* asIs: a description is confirmed without being repeated
\* reviewed: what the client saw when it loaded the resolution at `expected`
\* seen: the resolution as the repository read it
Proposal == [step : {"idle", "looking", "current", "concepts", "rules", "names",
                     "read", "commit"},
             key : Keys \cup {NoKey}, status : Status, payload : Payloads \cup {NoPayload},
             asIs : BOOLEAN, version : Nat, expected : Nat, reviewed : Payloads \cup {NoPayload},
             seen : Resolution]

NoProposal == [step |-> "idle", key |-> NoKey, status |-> "none", payload |-> NoPayload,
               asIs |-> FALSE, version |-> 0, expected |-> 0, reviewed |-> NoPayload, seen |-> Undefined]

Inference == [step : {"idle", "looking", "model", "writing"}, version : Nat,
              targets : SUBSET Keys, payload : Payloads \cup {NoPayload}]

NoInference == [step |-> "idle", version |-> 0, targets |-> {}, payload |-> NoPayload]

\* What is known at first was confirmed call by call: the selected definitions
\* fit their versions, and what they depend on is confirmed.
ASSUME MeaningAssumption == \A d \in Deployments :
    /\ d.meaning \in [Keys -> Resolution]
    /\ \A k \in Keys : d.meaning[k] # Undefined =>
          /\ d.meaning[k].status = "confirmed" /\ d.meaning[k].payload # NoPayload
          /\ d.meaning[k].version \in DOMAIN d.versions
          /\ LET v == d.versions[d.meaning[k].version]
             IN RefsOf[k][d.meaning[k].payload] \subseteq v.tables \cup v.columns
          /\ \A l \in DepsOf[k][d.meaning[k].payload] : d.meaning[l].status = "confirmed"

GovernanceInit(d) ==
    /\ resolution = d.meaning
    /\ proposal = [t \in Threads |-> NoProposal]
    /\ inference = [t \in Inferers |-> NoInference]

GovernanceTypeOK ==
    /\ resolution \in [Keys -> Resolution]
    /\ proposal \in [Threads -> Proposal]
    /\ inference \in [Inferers -> Inference]

-----------------------------------------------------------------------------
(* Epistemic precedence.                                                   *)

\* Corrections are the confirmed definitions: no proposal may be confirmed.
IsCorrection(d) == d.status = "confirmed"

\* The new definition becomes the current meaning.
Accepts(seen, d) ==
    \/ IsCorrection(d)
    \/ seen.status \in {"none", "unknown"}
    \/ /\ seen.status # "conflicting"
       /\ \/ Rank[d.status] > Rank[seen.status]
          \/ Rank[d.status] = Rank[seen.status] /\ d.payload = seen.payload

\* Different definitions of equal authority need a person.
Disputes(seen, d) ==
    /\ seen.status \notin {"none", "unknown", "conflicting"}
    /\ ~IsCorrection(d)
    /\ Rank[d.status] = Rank[seen.status] /\ d.payload # seen.payload

\* The resolution a write leaves, given the one it read.
Resolved(current, seen, d) ==
    IF Accepts(seen, d)
    THEN [status |-> d.status, payload |-> d.payload, version |-> d.version,
          updated |-> current.updated + 1]
    ELSE IF Disputes(seen, d)
    THEN [seen EXCEPT !.status = "conflicting", !.version = 0, !.updated = current.updated + 1]
    ELSE current

-----------------------------------------------------------------------------
(* The repository's propose methods.                                       *)

Abandon(t) == proposal' = [proposal EXCEPT ![t] = NoProposal]

\* A correction must name the resolution it was made against.
ExpectationHolds(t) ==
    IsCorrection(proposal[t]) => proposal[t].expected = resolution[proposal[t].key].updated

ReadResolution(t) ==
    /\ proposal[t].step = "read" /\ Free(t)
    /\ IF ExpectationHolds(t)
       THEN /\ proposal' = [proposal EXCEPT ![t] =
                               [@ EXCEPT !.step = "commit", !.seen = resolution[proposal[t].key]]]
            /\ Enter(t)
       ELSE Abandon(t) /\ UNCHANGED holder
    /\ UNCHANGED <<versions, view, calls, resolution, inference>>

\* Evidence and resolution are written together.
Commit(t, kinds) ==
    LET d == proposal[t]
    IN
    /\ d.step = "commit" /\ KindOf[d.key] \in kinds
    /\ resolution' = [resolution EXCEPT ![d.key] = Resolved(@, d.seen, d)]
    /\ Abandon(t)
    /\ Leave(t)
    /\ UNCHANGED <<versions, view, calls, inference>>

ProposeSemanticDefinition(t) == Commit(t, {"semantic"})

ProposeBusinessConceptDefinition(t) == Commit(t, {"concept"})

ProposeAnalyticSemanticDefinition(t) == Commit(t, {"metric", "rule"})

-----------------------------------------------------------------------------
(* Stewards.                                                               *)

\* The client submits, naming the resolution it loaded.
Submit(t, kind, statuses) ==
    /\ proposal[t].step = "idle" /\ view[t].step = "none" /\ Called(t)
    /\ \E m \in Remit[t] :
          LET k == m[1]
          IN
          /\ KindOf[k] = kind /\ m[2] \in statuses
          /\ proposal' = [proposal EXCEPT ![t] =
                             [NoProposal EXCEPT !.step = "looking", !.key = k, !.status = m[2],
                                 !.payload = m[3], !.asIs = (m[3] = NoPayload),
                                 !.expected = resolution[k].updated,
                                 !.reviewed = resolution[k].payload]]
    /\ StartLooking(t)
    /\ UNCHANGED <<versions, holder, resolution, inference>>

CorrectSemantics(t) == Submit(t, "semantic", {"confirmed"})

ProposeBusinessConcept(t) == Submit(t, "concept", Proposable)

CorrectBusinessConcept(t) == Submit(t, "concept", {"confirmed"})

ProposeMetric(t) == Submit(t, "metric", Proposable)

CorrectMetric(t) == Submit(t, "metric", {"confirmed"})

ProposeBusinessRule(t) == Submit(t, "rule", Proposable)

CorrectBusinessRule(t) == Submit(t, "rule", {"confirmed"})

\* The latest version is known: a definition may only speak of `refs`.
Locate(t, kinds, refs, step) ==
    LET d == proposal[t]
        known == view[t].step = "ready" /\ RefsOf[d.key][d.payload] \subseteq refs
    IN
    /\ d.step = "looking" /\ KindOf[d.key] \in kinds /\ Looked(t)
    /\ IF known
       THEN proposal' = [proposal EXCEPT ![t] =
                            [@ EXCEPT !.step = step, !.version = view[t].version]]
       ELSE Abandon(t)
    /\ StopLooking(t)
    /\ UNCHANGED <<versions, holder, calls, resolution, inference>>

LocateDescription(t) == Locate(t, {"semantic"}, view[t].refs, "current")

\* Corrections must have free names, once everything else was checked.
LastCheck(t) == IF IsCorrection(proposal[t]) THEN "names" ELSE "read"

LocateConcept(t) == Locate(t, {"concept"}, view[t].refs, LastCheck(t))

\* Metrics and rules are made of columns.
LocateMetric(t) == Locate(t, {"metric"}, view[t].refs \cap Columns, "concepts")

LocateRule(t) == Locate(t, {"rule"}, view[t].refs \cap Columns, "concepts")

\* A blank correction of a description takes the current one.
ReadCurrent(t) ==
    LET d == proposal[t]
        final == IF d.payload = NoPayload THEN resolution[d.key].payload ELSE d.payload
    IN
    /\ d.step = "current" /\ Free(t)
    /\ IF final = NoPayload
       THEN Abandon(t)
       ELSE proposal' = [proposal EXCEPT ![t] = [@ EXCEPT !.step = "read", !.payload = final]]
    /\ UNCHANGED <<storeVars, resolution, inference>>

\* A check that lets the call go on or ends it.
Proceed(t, ok, step) ==
    /\ Free(t)
    /\ IF ok THEN proposal' = [proposal EXCEPT ![t].step = step] ELSE Abandon(t)
    /\ UNCHANGED <<storeVars, resolution, inference>>

\* Mutant: a dependency needs only to exist.
DepsAreConfirmed_Exist(d, kind) ==
    \A k \in DepsOf[d.key][d.payload] : KindOf[k] = kind => resolution[k].status # "none"

\* The dependencies of a kind that a definition needs confirmed.
DepsAreConfirmed(d, kind) ==
    \A k \in DepsOf[d.key][d.payload] : KindOf[k] = kind => resolution[k].status = "confirmed"

CheckConcepts(t) ==
    LET d == proposal[t]
    IN
    /\ d.step = "concepts"
    /\ Proceed(t, DepsAreConfirmed(d, "concept"),
               IF KindOf[d.key] = "metric" THEN "rules" ELSE LastCheck(t))

CheckRules(t) ==
    /\ proposal[t].step = "rules"
    /\ Proceed(t, DepsAreConfirmed(proposal[t], "rule"), LastCheck(t))

\* No other confirmed key of the kind has one of the correction's names.
NamesAreFree(d) ==
    \A k \in Keys \ {d.key} :
        KindOf[k] = KindOf[d.key] /\ resolution[k].status = "confirmed"
            => NamesOf[resolution[k].payload] \cap NamesOf[d.payload] = {}

CheckNames(t) ==
    /\ proposal[t].step = "names"
    /\ Proceed(t, NamesAreFree(proposal[t]), "read")

-----------------------------------------------------------------------------
(* Description inference.                                                  *)

StartInference(t) ==
    /\ inference[t].step = "idle" /\ proposal[t].step = "idle" /\ view[t].step = "none"
    /\ Called(t)
    /\ inference' = [inference EXCEPT ![t].step = "looking"]
    /\ StartLooking(t)
    /\ UNCHANGED <<versions, holder, resolution, proposal>>

\* Descriptions of the version's objects that nothing stronger governs.
Eligible(refs) ==
    {k \in Keys : /\ KindOf[k] = "semantic" /\ RefsOf[k][NoPayload] \subseteq refs
                  /\ resolution[k].status \in {"none", "unknown", "inferred"}}

ReadTargets(t) ==
    LET targets == IF view[t].step = "ready" THEN Eligible(view[t].refs) ELSE {}
    IN
    /\ inference[t].step = "looking" /\ Looked(t) /\ Free(t)
    /\ inference' = [inference EXCEPT ![t] =
                        IF targets = {} THEN NoInference
                        ELSE [NoInference EXCEPT !.step = "model", !.targets = targets,
                                                 !.version = view[t].version]]
    /\ StopLooking(t)
    /\ UNCHANGED <<versions, holder, calls, resolution, proposal>>

\* The model describes some of the targets, or its answer is refused whole.
ModelAnswers(t) ==
    /\ inference[t].step = "model"
    /\ \/ \E S \in SUBSET inference[t].targets, p \in Phrases :
             inference' = [inference EXCEPT ![t] =
                              [@ EXCEPT !.step = "writing", !.targets = S, !.payload = p]]
       \/ inference' = [inference EXCEPT ![t] = NoInference]
    /\ UNCHANGED <<storeVars, resolution, proposal>>

\* The descriptions are proposed one by one, for the version read at first.
ProposeInferred(t) ==
    /\ inference[t].step = "writing" /\ proposal[t].step = "idle"
    /\ \E k \in inference[t].targets :
          /\ proposal' = [proposal EXCEPT ![t] =
                             [NoProposal EXCEPT !.step = "read", !.key = k,
                                 !.status = "inferred", !.payload = inference[t].payload,
                                 !.version = inference[t].version]]
          /\ inference' = [inference EXCEPT ![t].targets = @ \ {k}]
    /\ UNCHANGED <<storeVars, resolution>>

InferenceEnds(t) ==
    /\ inference[t].step = "writing" /\ inference[t].targets = {}
    /\ proposal[t].step = "idle"
    /\ inference' = [inference EXCEPT ![t] = NoInference]
    /\ UNCHANGED <<storeVars, resolution, proposal>>

-----------------------------------------------------------------------------

Looking(t) ==
    /\ \/ proposal[t].step = "looking" /\ LookingStep(t)
       \/ /\ t \in Inferers /\ inference[t].step = "looking"
          /\ (ReadVersion(t) \/ ReadTables(t) \/ ReadKnownColumns(t))
    /\ UNCHANGED governanceVars

StewardStep(t) ==
    \/ CorrectSemantics(t) \/ ProposeBusinessConcept(t) \/ CorrectBusinessConcept(t)
    \/ ProposeMetric(t) \/ CorrectMetric(t) \/ ProposeBusinessRule(t) \/ CorrectBusinessRule(t)
    \/ Looking(t) \/ LocateDescription(t) \/ LocateConcept(t) \/ LocateMetric(t) \/ LocateRule(t)
    \/ ReadCurrent(t) \/ CheckConcepts(t) \/ CheckRules(t) \/ CheckNames(t)

InfererStep(t) ==
    \/ StartInference(t) \/ Looking(t) \/ ReadTargets(t) \/ ModelAnswers(t)
    \/ ProposeInferred(t) \/ InferenceEnds(t)

WriterStep(t) ==
    \/ ReadResolution(t)
    \/ ProposeSemanticDefinition(t) \/ ProposeBusinessConceptDefinition(t)
    \/ ProposeAnalyticSemanticDefinition(t)

-----------------------------------------------------------------------------
(* Properties.                                                             *)

\* Only one process uses the repository: its lock then covers every method.
OneProcess == \E r \in Replicas : \A t \in Threads : replica[t] = r

\* A correction of k made against its current resolution is being written.
CorrectionOf(k) ==
    \E t \in Threads : /\ proposal[t].step = "commit" /\ proposal[t].key = k
                       /\ IsCorrection(proposal[t])
                       /\ proposal[t].expected = resolution[k].updated

\* However proposals, inference, ingestion and corrections interleave in one
\* process, authority never falls: a disputed meaning only leaves dispute by
\* a correction, a confirmed one only gives way to a correction made against
\* it, and lower evidence never replaces higher (ADR-003, ADR-013:27-32).  In
\* any number of processes, a description confirmed as it stood is the one its
\* client had loaded, not one that replaced it while the request was under way.
AuthorityHolds ==
    [][/\ OneProcess =>
            \A k \in Keys :
               resolution'[k] # resolution[k] =>
                   /\ resolution'[k].updated > resolution[k].updated
                   /\ \/ "conflicting" \in {resolution[k].status, resolution'[k].status}
                      \/ Rank[resolution'[k].status] >= Rank[resolution[k].status]
                   /\ resolution[k].status \in {"confirmed", "conflicting"} => CorrectionOf(k)
       /\ \A t \in Stewards : proposal[t].step = "commit" /\ proposal[t].asIs
            => proposal[t].payload = proposal[t].reviewed]_resolution

\* What a selected definition rests on stands: the catalog version it names
\* has the objects it speaks of and, in one process, what it is defined in
\* terms of is confirmed for ever, although both were checked in earlier
\* methods than the one that wrote it.
DefinitionsStand ==
    \A k \in Keys : resolution[k].status # "none" =>
        /\ OneProcess => \A d \in DepsOf[k][resolution[k].payload] :
                            resolution[d].status = "confirmed"
        /\ resolution[k].version # 0 =>
              LET v == versions[resolution[k].version]
              IN RefsOf[k][resolution[k].payload] \subseteq v.tables \cup v.columns

\* Confirmed keys of a kind do not share a name or term.
ConfirmedNamesAreUnique ==
    \A k, l \in Keys :
        (/\ k # l /\ KindOf[k] = KindOf[l] /\ KindOf[k] # "semantic"
         /\ resolution[k].status = "confirmed" /\ resolution[l].status = "confirmed")
            => NamesOf[resolution[k].payload] \cap NamesOf[resolution[l].payload] = {}
=============================================================================
