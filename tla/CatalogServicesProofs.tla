------------------------ MODULE CatalogServicesProofs ------------------------
EXTENDS CatalogServices, TLAPS, WellFoundedInduction, FiniteSetTheorems

-----------------------------------------------------------------------------
(* Who changes what.                                                       *)

\* Who changes the versions.
LEMMA VersionsMove ==
    ASSUME Next
    PROVE  \/ UNCHANGED versions
           \/ \E t \in Ingesters : \/ InsertVersion(t) \/ CreateSchemaObject(t) \/ CreateColumn(t)
                                   \/ CreateRelationship(t)
<1>1. CASE \E t \in Threads \ Correctors : Writer(t)
  BY <1>1 DEF Writer, WriterStep, ReadResolution, ProposeSemanticDefinition,
              ProposeBusinessConceptDefinition, ProposeAnalyticSemanticDefinition, Commit
<1>2. CASE \E t \in Stewards : Steward(t)
  BY <1>2, ZenonT(60) DEF Steward, StewardStep, CorrectSemantics, ProposeBusinessConcept, CorrectBusinessConcept,
              ProposeMetric, CorrectMetric, ProposeBusinessRule, CorrectBusinessRule, Submit,
              Looking, LookingStep, ReadVersion, ReadTables, ReadColumns, ReadKnownColumns,
              LocateDescription, LocateConcept, LocateMetric, LocateRule, Locate, ReadCurrent,
              CheckConcepts, CheckRules, CheckNames, Proceed, storeVars
<1>3. CASE \E t \in Inferers : Inferer(t)
  BY <1>3 DEF Inferer, InfererStep, StartInference, ReadTargets, ModelAnswers,
              ProposeInferred, InferenceEnds,
              Looking, LookingStep, ReadVersion, ReadTables, ReadColumns, ReadKnownColumns, storeVars
<1>4. CASE \E t \in Ingesters : Ingester(t)
  BY <1>4 DEF Ingester, IngestStep, IngestCall, NextVersion, FinishIngest, IngestFails, IngestReturns,
              IngestDataSource, ImportManual, ImportDDL, IngestCalled, storeVars
<1>5. CASE \E t \in Explorers : Explorer(t)
  BY <1>5 DEF Explorer, Explore, ReadVersion, ReadTables, ReadKnownColumns, ReadLinks
<1>6. CASE \E t \in Registrars : Registrar(t)
  BY <1>6 DEF Registrar, RegistrationStep, StartRegistration, ReadDraft, Ingested, ReadDefinition,
              InsertDefinition, storeVars
<1>7. CASE \E t \in Curators : Curator(t)
  BY <1>7 DEF Curator, LessonStep, StartCorrection, FindPredecessor, CheckPredecessor,
              InsertExample, StartFeedback, StartPromotion, CheckActive, ContinueIf, Begin,
              RecordFeedback, CheckFeedback, CheckCatalog, InsertCandidate, StartDecision, InsertReview,
              LookingStep, ReadVersion, ReadTables, ReadColumns, storeVars
<1>8. CASE \E t \in Readers : Reader(t)
  BY <1>8 DEF Reader, ContextStep, StartContext, NoCatalog, ResolveTerms, ResolveMetrics, ResolveRules,
              ReadDescriptions, RetrieveExamples, BuildContext,
              LookingStep, ReadVersion, ReadTables, ReadColumns, ReadKnownColumns, storeVars
<1>9. CASE \E t \in Correctors : Corrector(t)
  BY <1>9, ZenonT(60) DEF Corrector, CorrectorStep, CorrectMapping, InterpretCorrection, Begins,
              ReadTicket, CheckVersion,
              CheckReferences, Interpreted, FindConcept, CorrectionRefused, Remember, ReadRow, CancelTicket,
              Looking, LocateConcept, Locate, CheckNames, Proceed, ReadResolution,
              ProposeBusinessConceptDefinition, Commit,
              LookingStep, ReadVersion, ReadTables, ReadColumns, ReadKnownColumns, storeVars
<1>10. CASE \E t \in Requesters : Requester(t)
  BY <1>10 DEF Requester, RequesterStep, Approve, Reopen, Execute, Finish, Cancel, Explain, Moved
<1> QED
  BY <1>1, <1>2, <1>3, <1>4, <1>5, <1>6, <1>7, <1>8, <1>9, <1>10 DEF Next

\* A thread begins to look, reads on, or stops.
Looks(t) ==
    \/ StartLooking(t) \/ StopLooking(t)
    \/ ReadVersion(t) \/ ReadTables(t) \/ ReadColumns(t) \/ ReadKnownColumns(t) \/ ReadLinks(t)
    \/ view' = [view EXCEPT ![t] = [Blind EXCEPT !.step = "version"]]

\* Who changes what a thread has read of the catalog.
LEMMA ViewMove ==
    ASSUME Next
    PROVE  UNCHANGED view \/ \E t \in Threads : Looks(t) /\ (t \in Readers => ContextStep(t))
<1> USE RoleAssumption, GovernorAssumption, IngesterAssumption, CuratorAssumption, ReaderAssumption, CorrectorAssumption
<1>1. CASE \E t \in Threads \ Correctors : Writer(t)
  BY <1>1 DEF Writer, WriterStep, ReadResolution, ProposeSemanticDefinition,
              ProposeBusinessConceptDefinition, ProposeAnalyticSemanticDefinition, Commit
<1>2. CASE \E t \in Stewards : Steward(t)
  BY <1>2, ZenonT(60) DEF Looks, Steward, StewardStep, CorrectSemantics, ProposeBusinessConcept, CorrectBusinessConcept,
              ProposeMetric, CorrectMetric, ProposeBusinessRule, CorrectBusinessRule, Submit,
              Looking, LookingStep,
              LocateDescription, LocateConcept, LocateMetric, LocateRule, Locate, ReadCurrent,
              CheckConcepts, CheckRules, CheckNames, Proceed, storeVars
<1>3. CASE \E t \in Inferers : Inferer(t)
  BY <1>3 DEF Looks, Inferer, InfererStep, StartInference, ReadTargets, ModelAnswers,
              ProposeInferred, InferenceEnds,
              Looking, LookingStep, storeVars
<1>4. CASE \E t \in Ingesters : Ingester(t)
  BY <1>4 DEF Looks, Ingester, IngestStep, IngestCall, NextVersion, FinishIngest, IngestFails, IngestReturns,
              IngestDataSource, ImportManual, ImportDDL, IngestCalled, InsertVersion, CreateSchemaObject,
              CreateColumn, CreateRelationship, storeVars
<1>5. CASE \E t \in Explorers : Explorer(t)
  BY <1>5 DEF Looks, Explorer, Explore
<1>6. CASE \E t \in Registrars : Registrar(t)
  BY <1>6 DEF Looks, Registrar, RegistrationStep, StartRegistration, ReadDraft, Ingested, ReadDefinition,
              InsertDefinition, storeVars
<1>7. CASE \E t \in Curators : Curator(t)
  BY <1>7 DEF Looks, Curator, LessonStep, StartCorrection, FindPredecessor, CheckPredecessor,
              InsertExample, StartFeedback, StartPromotion, CheckActive, ContinueIf,
              RecordFeedback, CheckFeedback, CheckCatalog, InsertCandidate, StartDecision, InsertReview,
              LookingStep, storeVars
<1>8. CASE \E t \in Readers : Reader(t)
  <2>1. PICK t \in Readers : ContextStep(t)
    BY <1>8 DEF Reader
  <2>2. UNCHANGED view \/ Looks(t)
    BY <2>1 DEF Looks, ContextStep, StartContext, NoCatalog, ResolveTerms, ResolveMetrics, ResolveRules,
                ReadDescriptions, RetrieveExamples, BuildContext, LookingStep, storeVars
  <2> QED BY <2>1, <2>2
<1>9. CASE \E t \in Correctors : Corrector(t)
  BY <1>9, ZenonT(60) DEF Looks, Corrector, CorrectorStep, CorrectMapping, InterpretCorrection, Begins,
              ReadTicket, CheckVersion,
              CheckReferences, Interpreted, FindConcept, CorrectionRefused, Remember, ReadRow, CancelTicket,
              Looking, LocateConcept, Locate, CheckNames, Proceed, ReadResolution,
              ProposeBusinessConceptDefinition, Commit, LookingStep, storeVars
<1>10. CASE \E t \in Requesters : Requester(t)
  BY <1>10 DEF Requester, RequesterStep, Approve, Reopen, Execute, Finish, Cancel, Explain, Moved
<1> QED
  BY <1>1, <1>2, <1>3, <1>4, <1>5, <1>6, <1>7, <1>8, <1>9, <1>10 DEF Next

\* Who changes the governed meaning and the proposals.
LEMMA GovernanceMove ==
    ASSUME Next
    PROVE  \/ UNCHANGED <<resolution, proposal>>
           \/ \E t \in Threads :
                 \/ \E kind \in {"semantic", "concept", "metric", "rule"},
                       statuses \in {Proposable, {"confirmed"}} : t \in Stewards /\ Submit(t, kind, statuses)
                 \/ LocateDescription(t) \/ LocateConcept(t) \/ LocateMetric(t) \/ LocateRule(t)
                 \/ ReadCurrent(t) \/ CheckConcepts(t) \/ CheckRules(t) \/ CheckNames(t)
                 \/ ReadResolution(t)
                 \/ \E kinds \in {{"semantic"}, {"concept"}, {"metric", "rule"}} : Commit(t, kinds)
                 \/ t \in Inferers /\ ProposeInferred(t)
                 \/ t \in Ingesters /\ (CreateSchemaObject(t) \/ CreateColumn(t))
                 \/ t \in Correctors /\ FindConcept(t)
<1> USE GovernorAssumption, IngesterAssumption, CuratorAssumption, ReaderAssumption, CorrectorAssumption
<1>1. CASE \E t \in Threads \ Correctors : Writer(t)
  BY <1>1 DEF Writer, WriterStep, ProposeSemanticDefinition,
              ProposeBusinessConceptDefinition, ProposeAnalyticSemanticDefinition
<1>2. CASE \E t \in Stewards : Steward(t)
  BY <1>2, ZenonT(60) DEF Steward, StewardStep, CorrectSemantics, ProposeBusinessConcept, CorrectBusinessConcept,
              ProposeMetric, CorrectMetric, ProposeBusinessRule, CorrectBusinessRule, Looking, governanceVars
<1>3. CASE \E t \in Inferers : Inferer(t)
  BY <1>3 DEF Inferer, InfererStep, StartInference, ReadTargets, ModelAnswers, InferenceEnds,
              Looking, governanceVars
<1>4. CASE \E t \in Ingesters : Ingester(t)
  BY <1>4 DEF Ingester, IngestStep, IngestCall, NextVersion, FinishIngest, IngestFails, IngestReturns,
              IngestDataSource, ImportManual, ImportDDL, IngestCalled, InsertVersion,
              CreateRelationship, governanceVars
<1>5. CASE \E t \in Explorers : Explorer(t)
  BY <1>5 DEF Explorer, Explore, governanceVars
<1>6. CASE \E t \in Registrars : Registrar(t)
  BY <1>6 DEF Registrar, RegistrationStep, StartRegistration, ReadDraft, Ingested, ReadDefinition,
              InsertDefinition, governanceVars
<1>7. CASE \E t \in Curators : Curator(t)
  BY <1>7 DEF Curator, governanceVars
<1>8. CASE \E t \in Readers : Reader(t)
  BY <1>8 DEF Reader, governanceVars
<1>9. CASE \E t \in Correctors : Corrector(t)
  BY <1>9, ZenonT(60) DEF Corrector, CorrectorStep, CorrectMapping, InterpretCorrection, Begins,
              ReadTicket, CheckVersion,
              CheckReferences, Interpreted, CorrectionRefused, Remember, ReadRow, CancelTicket,
              Looking, ProposeBusinessConceptDefinition, governanceVars
<1>10. CASE \E t \in Requesters : Requester(t)
  BY <1>10 DEF Requester, governanceVars
<1> QED
  BY <1>1, <1>2, <1>3, <1>4, <1>5, <1>6, <1>7, <1>8, <1>9, <1>10 DEF Next

-----------------------------------------------------------------------------
(* What the types rest on, and the versions only growing.                  *)

\* What version i of vs has.
Objects(vs, i) == vs[i].tables \cup vs[i].columns

\* Versions are only added and filled.
Grown(vs, ws) ==
    /\ Len(vs) <= Len(ws)
    /\ \A i \in 1..Len(vs) : /\ vs[i].tables \subseteq ws[i].tables
                              /\ vs[i].columns \subseteq ws[i].columns
                              /\ vs[i].links \subseteq ws[i].links

\* What was read is in the version it was read of.
GoodView(v, vs) ==
    v.step \in {"tables", "columns", "ready"} =>
        /\ v.version \in 1..Len(vs)
        /\ v.tables \subseteq vs[v.version].tables
        /\ v.refs \subseteq Objects(vs, v.version)

\* The steps of a proposal whose references were found.
Located == {"current", "concepts", "rules", "names", "read", "commit"}

\* A proposal speaks of a key, and once located of what its version has.
GoodProposal(p, vs) ==
    /\ p.step # "idle" => /\ p.key \in Keys
                          /\ p.status \in {"unknown", "inferred", "imported", "confirmed"}
                          /\ p.payload = NoPayload =>
                                KindOf[p.key] = "semantic" /\ p.step \in {"looking", "current"}
    /\ p.step \in Located => /\ p.version \in 1..Len(vs)
                             /\ RefsOf[p.key][p.payload] \subseteq Objects(vs, p.version)
    /\ p.seen.status # "none" => p.seen.payload # NoPayload

\* The targets of an inference are descriptions of objects of its version.
GoodInference(i, vs) ==
    /\ i.step \in {"model", "writing"} =>
          /\ i.version \in 1..Len(vs)
          /\ \A k \in i.targets : /\ KindOf[k] = "semantic"
                                  /\ RefsOf[k][NoPayload] \subseteq Objects(vs, i.version)
    /\ i.step = "writing" => i.payload # NoPayload

\* An ingestion that fills a version fills one that is there.
GoodIngest(i, vs) ==
    /\ i.step = "insert" => i.version # 0
    /\ i.step \in {"fill", "done"} => i.version \in 1..Len(vs)

\* A meaning that is there says something.
GoodResolution(r) == r.status # "none" => r.payload # NoPayload

\* A correction under way is of a mapping that can be remembered.
GoodMemory(m) ==
    /\ m.step # "idle" /\ ~m.text => m.mapping \in Mappings
    /\ m.step \in {"concept", "correcting", "ticket", "update"} => ~m.text

\* A thread serves one call: who has a proposal, and what else it is then doing.
OneCall ==
    /\ \A t \in Threads : proposal[t].step # "idle" => t \in Stewards \cup Inferers \cup Ingesters \cup Correctors
    /\ \A t \in Ingesters : proposal[t].step # "idle" => ingest[t].step = "fill"
    /\ \A t \in Registrars : registration[t].step # "ingesting" => ingest[t].step = "idle"
    /\ \A t \in Correctors : proposal[t].step # "idle" => memory[t].step = "correcting"

\* What the types of the store, the meaning and the ingestions rest on.
Sound ==
    /\ \A t \in Threads : GoodView(view[t], versions)
    /\ \A t \in Threads : GoodProposal(proposal[t], versions)
    /\ \A t \in Inferers : GoodInference(inference[t], versions)
    /\ \A t \in Ingesters : GoodIngest(ingest[t], versions)
    /\ \A k \in Keys : GoodResolution(resolution[k])
    /\ \A t \in Correctors : GoodMemory(memory[t])
    /\ OneCall

\* Versions that stay have grown.
LEMMA GrownRefl ==
    ASSUME NEW vs \in Seq(Version)
    PROVE  Grown(vs, vs)
BY DEF Grown

\* What was read stays true while versions grow.
LEMMA ViewKept ==
    ASSUME NEW vs \in Seq(Version), NEW ws \in Seq(Version), Grown(vs, ws), NEW v \in View, GoodView(v, vs)
    PROVE  GoodView(v, ws)
BY DEF GoodView, Objects, Grown, View

\* A located proposal stays located while versions grow.
LEMMA ProposalKept ==
    ASSUME NEW vs \in Seq(Version), NEW ws \in Seq(Version), Grown(vs, ws), NEW p \in Proposal, GoodProposal(p, vs)
    PROVE  GoodProposal(p, ws)
BY DEF GoodProposal, Objects, Grown, Proposal

\* The targets of an inference stay there while versions grow.
LEMMA InferenceKept ==
    ASSUME NEW vs \in Seq(Version), NEW ws \in Seq(Version), Grown(vs, ws), NEW i \in Inference, GoodInference(i, vs)
    PROVE  GoodInference(i, ws)
BY DEF GoodInference, Objects, Grown, Inference

\* A version being filled stays there while versions grow.
LEMMA IngestKept ==
    ASSUME NEW vs \in Seq(Version), NEW ws \in Seq(Version), Grown(vs, ws), NEW i \in Ingest, GoodIngest(i, vs)
    PROVE  GoodIngest(i, ws)
BY DEF GoodIngest, Grown, Ingest

\* The versions only grow.
LEMMA VersionsGrow ==
    ASSUME TypeOK, Sound, Next
    PROVE  versions' \in Seq(Version) /\ Grown(versions, versions')
<1>0. versions \in Seq(Version)
  BY DEF TypeOK, StoreTypeOK
<1>1. CASE UNCHANGED versions
  BY <1>0, <1>1, GrownRefl
<1>2. ASSUME NEW t \in Ingesters, \/ CreateSchemaObject(t) \/ CreateColumn(t) \/ CreateRelationship(t)
      PROVE  versions' \in Seq(Version) /\ Grown(versions, versions')
  <2> DEFINE i == ingest[t].version
             s == ingest[t].snapshot
  <2>0. ingest[t].step = "fill"
    BY <1>2 DEF CreateSchemaObject, CreateColumn, CreateRelationship, Filling
  <2>1. i \in 1..Len(versions)
    BY <2>0 DEF Sound, GoodIngest
  <2>2. s \in Snapshot
    BY DEF TypeOK, IngestTypeOK, Ingest
  <2>3. \E v \in Version : /\ versions' = [versions EXCEPT ![i] = v]
                           /\ versions[i].tables \subseteq v.tables
                           /\ versions[i].columns \subseteq v.columns
                           /\ versions[i].links \subseteq v.links
    <3>1. versions[i] \in Version
      BY <1>0, <2>1
    <3>2. CASE CreateSchemaObject(t)
      <4>1. PICK x \in s.tables : versions' = [versions EXCEPT ![i].tables = @ \cup {x}]
        BY <3>2 DEF CreateSchemaObject
      <4>2. [versions[i] EXCEPT !.tables = @ \cup {x}] \in Version
        BY <3>1, <2>2, <4>1 DEF Version, Snapshot
      <4> QED BY <4>1, <4>2, <3>1, <2>1, <1>0 DEF Version
    <3>3. CASE CreateColumn(t)
      <4>1. PICK x \in s.columns : versions' = [versions EXCEPT ![i].columns = @ \cup {x}]
        BY <3>3 DEF CreateColumn
      <4>2. [versions[i] EXCEPT !.columns = @ \cup {x}] \in Version
        BY <3>1, <2>2, <4>1 DEF Version, Snapshot
      <4> QED BY <4>1, <4>2, <3>1, <2>1, <1>0 DEF Version
    <3>4. CASE CreateRelationship(t)
      <4>1. PICK x \in s.links : versions' = [versions EXCEPT ![i].links = @ \cup {x}]
        BY <3>4 DEF CreateRelationship
      <4>2. [versions[i] EXCEPT !.links = @ \cup {x}] \in Version
        BY <3>1, <2>2, <4>1 DEF Version, Snapshot
      <4> QED BY <4>1, <4>2, <3>1, <2>1, <1>0 DEF Version
    <3> QED BY <1>2, <3>2, <3>3, <3>4
  <2> QED BY <1>0, <2>1, <2>3 DEF Grown
<1>3. ASSUME NEW t \in Ingesters, InsertVersion(t)
      PROVE  versions' \in Seq(Version) /\ Grown(versions, versions')
  <2>1. \/ UNCHANGED versions
        \/ versions' = Append(versions, [tables |-> {}, columns |-> {}, links |-> {}])
    BY <1>3 DEF InsertVersion
  <2>2. [tables |-> {}, columns |-> {}, links |-> {}] \in Version
    BY DEF Version
  <2> QED BY <1>0, <2>1, <2>2, GrownRefl DEF Grown
<1> QED BY <1>1, <1>2, <1>3, VersionsMove

-----------------------------------------------------------------------------
(* The store.                                                              *)

\* What a thread knows of the catalog stays true of it.
LEMMA ViewsStay ==
    ASSUME TypeOK, Sound, Next
    PROVE  /\ view' \in [Threads -> View]
           /\ \A t \in Threads : GoodView(view'[t], versions')
<1>0. /\ versions \in Seq(Version) /\ versions' \in Seq(Version) /\ Grown(versions, versions')
      /\ view \in [Threads -> View] /\ \A t \in Threads : GoodView(view[t], versions)
  BY VersionsGrow DEF TypeOK, StoreTypeOK, Sound
<1>1. \A t \in Threads : GoodView(view[t], versions')
  BY <1>0, ViewKept
<1>2. SUFFICES \/ UNCHANGED view
               \/ \E t \in Threads, v \in View :
                     view' = [view EXCEPT ![t] = v] /\ GoodView(v, versions')
  BY <1>0, <1>1
<1>3. Blind \in View /\ GoodView(Blind, versions')
  BY DEF Blind, View, GoodView
<1>4. ASSUME NEW t \in Threads, \/ StartLooking(t) \/ StopLooking(t)
                                \/ view' = [view EXCEPT ![t] = [Blind EXCEPT !.step = "version"]]
      PROVE  \E v \in View : view' = [view EXCEPT ![t] = v] /\ GoodView(v, versions')
  <2>1. /\ [view[t] EXCEPT !.step = "version"] \in View
        /\ GoodView([view[t] EXCEPT !.step = "version"], versions')
        /\ [Blind EXCEPT !.step = "version"] \in View
        /\ GoodView([Blind EXCEPT !.step = "version"], versions')
    BY <1>0, <1>3 DEF View, GoodView
  <2>2. StartLooking(t) => view' = [view EXCEPT ![t] = [view[t] EXCEPT !.step = "version"]]
    BY <1>0 DEF StartLooking, View
  <2> QED BY <1>3, <1>4, <2>1, <2>2 DEF StopLooking
<1>5. ASSUME NEW t \in Threads, ReadVersion(t)
      PROVE  \E v \in View : view' = [view EXCEPT ![t] = v] /\ GoodView(v, versions')
  <2>0. versions' = versions
    BY <1>5 DEF ReadVersion
  <2>1. CASE Latest = 0
    <3>1. view' = [view EXCEPT ![t] = [Blind EXCEPT !.step = "absent"]]
      BY <1>5, <2>1 DEF ReadVersion
    <3>2. /\ [Blind EXCEPT !.step = "absent"] \in View
          /\ GoodView([Blind EXCEPT !.step = "absent"], versions')
      BY DEF Blind, View, GoodView
    <3> QED BY <3>1, <3>2
  <2>2. CASE Latest # 0
    <3>1. view' = [view EXCEPT ![t] = [Blind EXCEPT !.step = "tables", !.version = Latest]]
      BY <1>5, <2>2 DEF ReadVersion
    <3>2. Latest \in 1..Len(versions')
      BY <1>0, <2>0, <2>2 DEF Latest
    <3> DEFINE v == [Blind EXCEPT !.step = "tables", !.version = Latest]
    <3>5. Latest \in Nat
      BY <1>0 DEF Latest
    <3>3. v \in View /\ v.tables = {} /\ v.refs = {} /\ v.version = Latest
      BY <3>5 DEF Blind, View
    <3>4. GoodView(v, versions')
      BY <3>2, <3>3 DEF GoodView
    <3> QED BY <3>1, <3>3, <3>4
  <2> QED BY <2>1, <2>2
<1>6. ASSUME NEW t \in Threads, \/ ReadTables(t) \/ ReadColumns(t)
                                \/ ReadKnownColumns(t) \/ ReadLinks(t)
      PROVE  \E v \in View : view' = [view EXCEPT ![t] = v] /\ GoodView(v, versions')
  <2> DEFINE i == view[t].version
  <2>0. versions' = versions /\ view[t].step \in {"tables", "columns", "ready"}
    BY <1>6 DEF ReadTables, ReadColumns, ReadKnownColumns, ReadLinks
  <2>1. /\ i \in 1..Len(versions) /\ versions[i] \in Version /\ view[t] \in View
        /\ view[t].tables \subseteq versions[i].tables
        /\ view[t].refs \subseteq Objects(versions, i)
    BY <1>0, <2>0 DEF GoodView
  <2>2. CASE ReadTables(t)
    <3>1. view' = [view EXCEPT ![t] = [view[t] EXCEPT !.step = "columns",
                                                      !.tables = versions[i].tables]]
      BY <1>0, <2>2 DEF ReadTables
    <3>2. [view[t] EXCEPT !.step = "columns", !.tables = versions[i].tables] \in View
      BY <2>1 DEF View, Version
    <3>3. GoodView([view[t] EXCEPT !.step = "columns", !.tables = versions[i].tables], versions)
      BY <2>1 DEF View, GoodView
    <3> QED BY <2>0, <3>1, <3>2, <3>3
  <2>3. CASE ReadColumns(t)
    <3> DEFINE v == [view[t] EXCEPT !.step = "ready", !.tables = {},
                                    !.refs = view[t].tables \cup versions[i].columns]
               w == [Blind EXCEPT !.step = "lost"]
    <3>1. view' = [view EXCEPT ![t] = v] \/ view' = [view EXCEPT ![t] = w]
      BY <1>0, <2>3 DEF ReadColumns, VersionRead
    <3>2. v \in View /\ GoodView(v, versions)
      BY <2>1 DEF View, GoodView, Objects, Version, References
    <3>3. w \in View /\ GoodView(w, versions)
      BY DEF View, GoodView, Blind
    <3> HIDE DEF v, w
    <3> QED BY <2>0, <3>1, <3>2, <3>3
  <2>4. CASE ReadKnownColumns(t)
    <3> DEFINE cs == {c \in versions[i].columns : TableOf[c] \in view[t].tables}
               v == [view[t] EXCEPT !.step = "ready", !.refs = view[t].tables \cup cs]
    <3>1. view' = [view EXCEPT ![t] = v]
      BY <1>0, <2>4 DEF ReadKnownColumns, VersionRead
    <3>2. cs \subseteq versions[i].columns
      OBVIOUS
    <3> HIDE DEF cs
    <3>3. v \in View /\ GoodView(v, versions)
      BY <2>1, <3>2 DEF View, GoodView, Objects, Version, References
    <3> QED BY <2>0, <3>1, <3>3
  <2>5. CASE ReadLinks(t)
    <3>1. \/ view' = [view EXCEPT ![t] = Blind]
          \/ view' = [view EXCEPT ![t] = [Blind EXCEPT !.step = "lost"]]
      BY <1>0, <2>5 DEF ReadLinks
    <3> QED BY <1>3, <3>1 DEF View, GoodView, Blind
  <2> QED BY <1>6, <2>2, <2>3, <2>4, <2>5
<1> QED BY <1>4, <1>5, <1>6, ViewMove DEF Looks


\* A step is a step of one call.
LEMMA CallsMove ==
    ASSUME Next
    PROVE  UNCHANGED calls \/ \E t \in Threads : Called(t)
<1> USE GovernorAssumption, IngesterAssumption, CuratorAssumption, ReaderAssumption, CorrectorAssumption,
        RegistrarAssumption
<1>1. CASE \E t \in Threads \ Correctors : Writer(t)
  BY <1>1 DEF Writer, WriterStep, ReadResolution, ProposeSemanticDefinition,
              ProposeBusinessConceptDefinition, ProposeAnalyticSemanticDefinition, Commit
<1>2. CASE \E t \in Stewards : Steward(t)
  BY <1>2, ZenonT(60) DEF Steward, StewardStep, CorrectSemantics, ProposeBusinessConcept, CorrectBusinessConcept,
              ProposeMetric, CorrectMetric, ProposeBusinessRule, CorrectBusinessRule, Submit,
              Looking, LookingStep, ReadVersion, ReadTables, ReadColumns, ReadKnownColumns,
              LocateDescription, LocateConcept, LocateMetric, LocateRule, Locate, ReadCurrent,
              CheckConcepts, CheckRules, CheckNames, Proceed, storeVars
<1>3. CASE \E t \in Inferers : Inferer(t)
  BY <1>3 DEF Inferer, InfererStep, StartInference, ReadTargets, ModelAnswers,
              ProposeInferred, InferenceEnds,
              Looking, LookingStep, ReadVersion, ReadTables, ReadColumns, ReadKnownColumns, storeVars
<1>4. CASE \E t \in Ingesters : Ingester(t)
  BY <1>4 DEF Ingester, IngestStep, IngestCall, NextVersion, FinishIngest, IngestFails, IngestReturns,
              IngestDataSource, ImportManual, ImportDDL, IngestCalled, InsertVersion, CreateSchemaObject,
              CreateColumn, CreateRelationship, storeVars
<1>5. CASE \E t \in Explorers : Explorer(t)
  BY <1>5 DEF Explorer, Explore, ReadVersion, ReadTables, ReadKnownColumns, ReadLinks
<1>6. CASE \E t \in Registrars : Registrar(t)
  BY <1>6 DEF Registrar, RegistrationStep, StartRegistration, ReadDraft, Ingested, ReadDefinition,
              InsertDefinition, storeVars
<1>7. CASE \E t \in Curators : Curator(t)
  BY <1>7 DEF Curator, LessonStep, StartCorrection, FindPredecessor, CheckPredecessor,
              InsertExample, StartFeedback, StartPromotion, CheckActive, ContinueIf, Begin,
              RecordFeedback, CheckFeedback, CheckCatalog, InsertCandidate, StartDecision, InsertReview,
              LookingStep, ReadVersion, ReadTables, ReadColumns, storeVars
<1>8. CASE \E t \in Readers : Reader(t)
  BY <1>8 DEF Reader, ContextStep, StartContext, NoCatalog, ResolveTerms, ResolveMetrics, ResolveRules,
              ReadDescriptions, RetrieveExamples, BuildContext,
              LookingStep, ReadVersion, ReadTables, ReadColumns, ReadKnownColumns, storeVars
<1>9. CASE \E t \in Correctors : Corrector(t)
  BY <1>9, ZenonT(60) DEF Corrector, CorrectorStep, CorrectMapping, InterpretCorrection, Begins,
              ReadTicket, CheckVersion,
              CheckReferences, Interpreted, FindConcept, CorrectionRefused, Remember, ReadRow, CancelTicket,
              Looking, LocateConcept, Locate, CheckNames, Proceed, ReadResolution,
              ProposeBusinessConceptDefinition, Commit,
              LookingStep, ReadVersion, ReadTables, ReadColumns, ReadKnownColumns, storeVars
<1>10. CASE \E t \in Requesters : Requester(t)
  BY <1>10 DEF Requester, RequesterStep, Approve, Reopen, Execute, Finish, Cancel, Explain, Moved
<1> QED
  BY <1>1, <1>2, <1>3, <1>4, <1>5, <1>6, <1>7, <1>8, <1>9, <1>10 DEF Next

\* The reads that end in the lock, and the writes that end it.
Enters(t) ==
    \/ ReadResolution(t)
    \/ t \in Ingesters /\ NextVersion(t)
    \/ t \in Registrars /\ ReadDefinition(t)
    \/ t \in Curators /\ CheckPredecessor(t)
    \/ t \in Correctors /\ ReadRow(t)

\* The writes that end it.
Leaves(t) ==
    \/ \E kinds \in {{"semantic"}, {"concept"}, {"metric", "rule"}} : Commit(t, kinds)
    \/ t \in Ingesters /\ InsertVersion(t)
    \/ t \in Registrars /\ InsertDefinition(t)
    \/ t \in Curators /\ InsertExample(t)
    \/ t \in Correctors /\ CancelTicket(t)

\* Who enters and leaves the lock of a process.
LEMMA HolderMove ==
    ASSUME Next
    PROVE  UNCHANGED holder \/ \E t \in Threads : Enters(t) \/ Leaves(t)
<1> USE GovernorAssumption, IngesterAssumption, CuratorAssumption, ReaderAssumption, CorrectorAssumption,
        RegistrarAssumption
<1>1. CASE \E t \in Threads \ Correctors : Writer(t)
  BY <1>1 DEF Enters, Leaves, Writer, WriterStep, ProposeSemanticDefinition,
              ProposeBusinessConceptDefinition, ProposeAnalyticSemanticDefinition
<1>2. CASE \E t \in Stewards : Steward(t)
  BY <1>2, ZenonT(60) DEF Enters, Leaves, Steward, StewardStep, CorrectSemantics,
              ProposeBusinessConcept, CorrectBusinessConcept,
              ProposeMetric, CorrectMetric, ProposeBusinessRule, CorrectBusinessRule, Submit,
              Looking, LookingStep, ReadVersion, ReadTables, ReadColumns, ReadKnownColumns,
              LocateDescription, LocateConcept, LocateMetric, LocateRule, Locate, ReadCurrent,
              CheckConcepts, CheckRules, CheckNames, Proceed, storeVars
<1>3. CASE \E t \in Inferers : Inferer(t)
  BY <1>3 DEF Enters, Leaves, Inferer, InfererStep, StartInference, ReadTargets, ModelAnswers,
              ProposeInferred, InferenceEnds,
              Looking, LookingStep, ReadVersion, ReadTables, ReadColumns, ReadKnownColumns, storeVars
<1>4. CASE \E t \in Ingesters : Ingester(t)
  BY <1>4 DEF Enters, Leaves, Ingester, IngestStep, IngestCall, FinishIngest, IngestFails, IngestReturns,
              IngestDataSource, ImportManual, ImportDDL, IngestCalled, CreateSchemaObject,
              CreateColumn, CreateRelationship, storeVars
<1>5. CASE \E t \in Explorers : Explorer(t)
  BY <1>5 DEF Enters, Leaves, Explorer, Explore, ReadVersion, ReadTables, ReadKnownColumns, ReadLinks
<1>6. CASE \E t \in Registrars : Registrar(t)
  BY <1>6 DEF Enters, Leaves, Registrar, RegistrationStep, StartRegistration, ReadDraft, Ingested,
              InsertDefinition, storeVars
<1>7. CASE \E t \in Curators : Curator(t)
  BY <1>7 DEF Enters, Leaves, Curator, LessonStep, StartCorrection, FindPredecessor,
              StartFeedback, StartPromotion, CheckActive, ContinueIf, Begin,
              RecordFeedback, CheckFeedback, CheckCatalog, InsertCandidate, StartDecision, InsertReview,
              LookingStep, ReadVersion, ReadTables, ReadColumns, storeVars
<1>8. CASE \E t \in Readers : Reader(t)
  BY <1>8 DEF Enters, Leaves, Reader, ContextStep, StartContext, NoCatalog, ResolveTerms, ResolveMetrics, ResolveRules,
              ReadDescriptions, RetrieveExamples, BuildContext,
              LookingStep, ReadVersion, ReadTables, ReadColumns, ReadKnownColumns, storeVars
<1>9. CASE \E t \in Correctors : Corrector(t)
  BY <1>9, ZenonT(60) DEF Enters, Leaves, Corrector, CorrectorStep, CorrectMapping, InterpretCorrection, Begins,
              ReadTicket, CheckVersion,
              CheckReferences, Interpreted, FindConcept, CorrectionRefused, Remember,
              Looking, LocateConcept, Locate, CheckNames, Proceed,
              ProposeBusinessConceptDefinition,
              LookingStep, ReadVersion, ReadTables, ReadColumns, ReadKnownColumns, storeVars
<1>10. CASE \E t \in Requesters : Requester(t)
  BY <1>10 DEF Enters, Leaves, Requester, RequesterStep, Approve, Reopen, Execute, Finish, Cancel, Explain, Moved
<1> QED
  BY <1>1, <1>2, <1>3, <1>4, <1>5, <1>6, <1>7, <1>8, <1>9, <1>10 DEF Next

\* The store keeps its types.
LEMMA StoreStays ==
    ASSUME TypeOK, Sound, Next
    PROVE  StoreTypeOK'
<1>1. /\ versions' \in Seq(Version) /\ view' \in [Threads -> View]
  BY VersionsGrow, ViewsStay
<1>2. replica' = replica
  BY DEF Next, Writer, Steward, Inferer, Ingester, Explorer, Registrar, Curator, Reader, Corrector, Requester
<1>3. holder' \in [Replicas -> Threads \cup {NoThread}]
  <2>1. UNCHANGED holder \/ \E t \in Threads : Enter(t) \/ Leave(t)
    BY HolderMove DEF Enters, Leaves, ReadResolution, NextVersion, ReadDefinition, CheckPredecessor, ReadRow,
                      Commit, InsertVersion, InsertDefinition, InsertExample, CancelTicket
  <2> QED BY <2>1 DEF TypeOK, StoreTypeOK, Enter, Leave
<1>4. calls' \in [Threads -> Nat]
  BY CallsMove DEF TypeOK, StoreTypeOK, Called
<1> QED BY <1>1, <1>2, <1>3, <1>4 DEF TypeOK, StoreTypeOK

-----------------------------------------------------------------------------
(* Proposals.                                                              *)

\* A thread's next proposal is one of proposals.
Proposes(t, p) == proposal' = [proposal EXCEPT ![t] = p]

\* No proposal promises nothing.
LEMMA NoProposalGood ==
    ASSUME NEW vs
    PROVE  NoProposal \in Proposal /\ GoodProposal(NoProposal, vs)
BY DEF NoProposal, Proposal, GoodProposal, Undefined, Resolution, Located, Status

\* A mapping can be remembered under any of the concepts' names, or its own.
LEMMA Memorable ==
    ASSUME NEW m \in Mappings, NEW k \in Keys, KindOf[k] = "concept", NEW names,
           names \in {NamesOf[p] : p \in Payloads} \cup {{m.term}}, m.term \in names
    PROVE  \E p \in Payloads : NamesOf[p] = names /\ RefsOf[k][p] = {m.ref}
BY MemorableAssumption

\* Proposals stay such that their definition can be written.
LEMMA ProposalsStay ==
    ASSUME TypeOK, Sound, Next
    PROVE  /\ proposal' \in [Threads -> Proposal]
           /\ \A t \in Threads : GoodProposal(proposal'[t], versions')
<1>0. /\ versions \in Seq(Version) /\ versions' \in Seq(Version) /\ Grown(versions, versions')
      /\ proposal \in [Threads -> Proposal] /\ resolution \in [Keys -> Resolution]
      /\ \A t \in Threads : GoodProposal(proposal[t], versions)
      /\ \A k \in Keys : GoodResolution(resolution[k])
      /\ view \in [Threads -> View] /\ \A t \in Threads : GoodView(view[t], versions)
  BY VersionsGrow DEF TypeOK, StoreTypeOK, GovernanceTypeOK, Sound
<1>1. \A t \in Threads : GoodProposal(proposal[t], versions')
  BY <1>0, ProposalKept
<1>2. SUFFICES \/ UNCHANGED proposal
               \/ \E t \in Threads, p \in Proposal : Proposes(t, p) /\ GoodProposal(p, versions')
  BY <1>0, <1>1 DEF Proposes
<1>3. NoProposal \in Proposal /\ GoodProposal(NoProposal, versions')
  BY NoProposalGood
<1>4. ASSUME NEW t \in Stewards, NEW kind, NEW statuses \in {Proposable, {"confirmed"}},
             Submit(t, kind, statuses)
      PROVE  \E p \in Proposal : Proposes(t, p) /\ GoodProposal(p, versions')
  <2>1. PICK m \in Remit[t] :
          /\ KindOf[m[1]] = kind /\ m[2] \in statuses
          /\ Proposes(t, [NoProposal EXCEPT !.step = "looking", !.key = m[1], !.status = m[2],
                                            !.payload = m[3], !.asIs = (m[3] = NoPayload),
                                            !.expected = resolution[m[1]].updated,
                                            !.reviewed = resolution[m[1]].payload])
    BY <1>4 DEF Submit, Proposes
  <2>2. /\ m \in Keys \X {"unknown", "inferred", "imported", "confirmed"} \X (Payloads \cup {NoPayload})
        /\ m[3] = NoPayload => KindOf[m[1]] = "semantic"
    BY <2>1, KeyAssumption
  <2> DEFINE p == [NoProposal EXCEPT !.step = "looking", !.key = m[1], !.status = m[2],
                                     !.payload = m[3], !.asIs = (m[3] = NoPayload),
                                     !.expected = resolution[m[1]].updated,
                                     !.reviewed = resolution[m[1]].payload]
  <2>3. resolution[m[1]].updated \in Nat /\ resolution[m[1]].payload \in Payloads \cup {NoPayload}
    BY <1>0, <2>2 DEF Resolution
  <2>4. p \in Proposal
    BY <2>2, <2>3, <1>3 DEF Proposal, NoProposal, Status
  <2>5. GoodProposal(p, versions')
    BY <2>2 DEF GoodProposal, NoProposal, Undefined, Located
  <2> QED BY <2>1, <2>4, <2>5
<1>5. ASSUME NEW t \in Threads, NEW kinds, NEW refs, NEW step \in {"current", "concepts", "names", "read"},
             refs \subseteq view[t].refs, Locate(t, kinds, refs, step),
             step # "current" => "semantic" \notin kinds
      PROVE  \E p \in Proposal : Proposes(t, p) /\ GoodProposal(p, versions')
  <2> DEFINE p == [proposal[t] EXCEPT !.step = step, !.version = view[t].version]
  <2>0. versions' = versions /\ proposal[t].step = "looking" /\ KindOf[proposal[t].key] \in kinds
    BY <1>5 DEF Locate
  <2>1. CASE Proposes(t, NoProposal)
    BY <2>1, <1>3
  <2>2. CASE /\ Proposes(t, p) /\ view[t].step = "ready"
             /\ RefsOf[proposal[t].key][proposal[t].payload] \subseteq refs
    <3>1. /\ view[t].version \in 1..Len(versions)
          /\ RefsOf[proposal[t].key][proposal[t].payload] \subseteq Objects(versions, view[t].version)
      BY <1>0, <1>5, <2>2 DEF GoodView
    <3>2. proposal[t] \in Proposal /\ GoodProposal(proposal[t], versions) /\ view[t].version \in Nat
      BY <1>0 DEF View
    <3>3. p \in Proposal
      BY <3>2 DEF Proposal
    <3>4. GoodProposal(p, versions)
      BY <1>5, <2>0, <3>1, <3>2 DEF Proposal, GoodProposal, Located
    <3> QED BY <2>0, <2>2, <3>3, <3>4
  <2> QED BY <1>5, <2>1, <2>2 DEF Locate, Abandon, Proposes
<1>6. ASSUME NEW t \in Threads, \/ LocateDescription(t) \/ LocateConcept(t) \/ LocateMetric(t) \/ LocateRule(t)
      PROVE  \E p \in Proposal : Proposes(t, p) /\ GoodProposal(p, versions')
  <2>1. LastCheck(t) \in {"names", "read"}
    BY DEF LastCheck
  <2> HIDE DEF LastCheck
  <2>2. CASE LocateDescription(t)
    BY <2>2, <1>5 DEF LocateDescription
  <2>3. CASE LocateConcept(t)
    BY <2>1, <2>3, <1>5 DEF LocateConcept
  <2>4. CASE LocateMetric(t)
    BY <2>4, <1>5 DEF LocateMetric
  <2>5. CASE LocateRule(t)
    BY <2>5, <1>5 DEF LocateRule
  <2> QED BY <1>6, <2>2, <2>3, <2>4, <2>5
<1>7. ASSUME NEW t \in Threads, ReadCurrent(t)
      PROVE  \E p \in Proposal : Proposes(t, p) /\ GoodProposal(p, versions')
  <2> DEFINE d == proposal[t]
             final == IF d.payload = NoPayload THEN resolution[d.key].payload ELSE d.payload
             p == [proposal[t] EXCEPT !.step = "read", !.payload = final]
  <2>0. versions' = versions /\ d.step = "current"
    BY <1>7 DEF ReadCurrent, storeVars
  <2>1. /\ d \in Proposal /\ d.key \in Keys /\ d.version \in 1..Len(versions)
        /\ d.status \in {"unknown", "inferred", "imported", "confirmed"}
        /\ d.payload = NoPayload => KindOf[d.key] = "semantic"
        /\ RefsOf[d.key][d.payload] \subseteq Objects(versions, d.version)
        /\ d.seen.status # "none" => d.seen.payload # NoPayload
    BY <1>0, <2>0 DEF GoodProposal, Located
  <2>2. CASE Proposes(t, NoProposal)
    BY <2>2, <1>3
  <2>3. CASE Proposes(t, p) /\ final # NoPayload
    <3>1. final \in Payloads
      BY <1>0, <2>1, <2>3 DEF Resolution, Proposal
    <3>2. RefsOf[d.key][final] \subseteq Objects(versions, d.version)
      BY <2>1, <3>1, KeyAssumption
    <3> HIDE DEF final
    <3>3. p \in Proposal
      BY <2>1, <3>1 DEF Proposal
    <3>4. GoodProposal(p, versions)
      BY <2>1, <2>3, <3>1, <3>2 DEF GoodProposal, Located, Proposal
    <3> QED BY <2>0, <2>3, <3>3, <3>4
  <2> QED BY <1>7, <2>2, <2>3 DEF ReadCurrent, Abandon, Proposes
<1>8. ASSUME NEW t \in Threads, \/ CheckConcepts(t) \/ CheckRules(t) \/ CheckNames(t)
      PROVE  \E p \in Proposal : Proposes(t, p) /\ GoodProposal(p, versions')
  <2>0. LastCheck(t) \in {"names", "read"}
    BY DEF LastCheck
  <2> HIDE DEF LastCheck
  <2>1. /\ versions' = versions /\ proposal[t].step \in {"concepts", "rules", "names"}
        /\ \/ Proposes(t, NoProposal)
           \/ \E s \in {"rules", "names", "read"} : Proposes(t, [proposal[t] EXCEPT !.step = s])
    BY <1>0, <1>8, <2>0 DEF CheckConcepts, CheckRules, CheckNames, Proceed, Abandon, Proposes, storeVars
  <2>2. ASSUME NEW s \in {"rules", "names", "read"}
        PROVE  LET p == [proposal[t] EXCEPT !.step = s] IN p \in Proposal /\ GoodProposal(p, versions)
    BY <1>0, <2>1, ZenonT(60) DEF Proposal, GoodProposal, Located
  <2> QED BY <2>1, <2>2, <1>3
<1>9. ASSUME NEW t \in Threads, ReadResolution(t)
      PROVE  \E p \in Proposal : Proposes(t, p) /\ GoodProposal(p, versions')
  <2> DEFINE p == [proposal[t] EXCEPT !.step = "commit", !.seen = resolution[proposal[t].key]]
  <2>0. /\ versions' = versions /\ proposal[t].step = "read"
        /\ Proposes(t, NoProposal) \/ Proposes(t, p)
    BY <1>9 DEF ReadResolution, Abandon, Proposes
  <2>1. proposal[t] \in Proposal /\ GoodProposal(proposal[t], versions) /\ proposal[t].key \in Keys
    BY <1>0, <2>0 DEF GoodProposal
  <2>2. resolution[proposal[t].key] \in Resolution /\ GoodResolution(resolution[proposal[t].key])
    BY <1>0, <2>1
  <2>3. p \in Proposal
    BY <2>1, <2>2 DEF Proposal
  <2>4. GoodProposal(p, versions)
    BY <2>0, <2>1, <2>2 DEF GoodProposal, GoodResolution, Located, Proposal
  <2> QED BY <2>0, <2>3, <2>4, <1>3
<1>10. ASSUME NEW t \in Threads, NEW kinds, Commit(t, kinds)
       PROVE  \E p \in Proposal : Proposes(t, p) /\ GoodProposal(p, versions')
  BY <1>3, <1>10 DEF Commit, Abandon, Proposes
\* What inference and ingestion write is a description of what they know.
<1>11. ASSUME NEW t \in Threads, NEW k \in Keys, NEW status \in {"inferred", "imported"}, NEW payload \in Payloads,
              NEW version \in 1..Len(versions'), RefsOf[k][NoPayload] \subseteq Objects(versions', version),
              KindOf[k] = "semantic",
              Proposes(t, [NoProposal EXCEPT !.step = "read", !.key = k, !.status = status,
                                             !.payload = payload, !.version = version])
       PROVE  \E p \in Proposal : Proposes(t, p) /\ GoodProposal(p, versions')
  <2> DEFINE p == [NoProposal EXCEPT !.step = "read", !.key = k, !.status = status,
                                     !.payload = payload, !.version = version]
  <2>1. payload # NoPayload /\ RefsOf[k][payload] = RefsOf[k][NoPayload] /\ version \in Nat
    BY <1>0, <1>11, KeyAssumption
  <2>2. p \in Proposal
    BY <2>1, <1>3 DEF Proposal, NoProposal, Status
  <2>3. GoodProposal(p, versions')
    BY <2>1, <1>11 DEF GoodProposal, Located, NoProposal, Undefined
  <2> QED BY <1>11, <2>2, <2>3
<1>12. ASSUME NEW t \in Inferers, ProposeInferred(t)
       PROVE  \E p \in Proposal : Proposes(t, p) /\ GoodProposal(p, versions')
  <2> DEFINE i == inference[t]
  <2>0. /\ i \in Inference /\ GoodInference(i, versions) /\ t \in Threads
        /\ i.step = "writing" /\ versions' = versions
    BY <1>12, GovernorAssumption DEF TypeOK, GovernanceTypeOK, Sound, ProposeInferred, storeVars
  <2>1. PICK k \in i.targets :
           Proposes(t, [NoProposal EXCEPT !.step = "read", !.key = k, !.status = "inferred",
                                          !.payload = i.payload, !.version = i.version])
    BY <1>12 DEF ProposeInferred, Proposes
  <2>2. /\ k \in Keys /\ i.payload \in Payloads /\ i.version \in 1..Len(versions')
        /\ RefsOf[k][NoPayload] \subseteq Objects(versions', i.version) /\ KindOf[k] = "semantic"
    BY <2>0, <2>1 DEF Inference, GoodInference
  <2> QED BY <2>0, <2>1, <2>2, <1>11
<1>13. ASSUME NEW t \in Ingesters, CreateSchemaObject(t) \/ CreateColumn(t)
       PROVE  \/ UNCHANGED proposal
              \/ \E p \in Proposal : Proposes(t, p) /\ GoodProposal(p, versions')
  <2> DEFINE s == ingest[t].snapshot
             v == ingest[t].version
  <2>0. t \in Threads /\ s \in Snapshot /\ v \in 1..Len(versions)
    BY <1>13, IngesterAssumption
       DEF TypeOK, IngestTypeOK, Ingest, Sound, GoodIngest, CreateSchemaObject, CreateColumn, Filling
  <2>1. PICK x : /\ ImportDescription(t, x)
                 /\ \/ versions' = [versions EXCEPT ![v].tables = @ \cup {x}]
                    \/ versions' = [versions EXCEPT ![v].columns = @ \cup {x}]
    BY <1>13 DEF CreateSchemaObject, CreateColumn
  <2>2. v \in 1..Len(versions') /\ x \in Objects(versions', v)
    <3>1. versions[v] \in Version /\ v \in DOMAIN versions
      BY <1>0, <2>0
    <3>2. CASE versions' = [versions EXCEPT ![v].tables = @ \cup {x}]
      BY <1>0, <2>0, <3>1, <3>2 DEF Objects, Version
    <3>3. CASE versions' = [versions EXCEPT ![v].columns = @ \cup {x}]
      BY <1>0, <2>0, <3>1, <3>3 DEF Objects, Version
    <3> QED BY <2>1, <3>2, <3>3
  <2>3. CASE UNCHANGED proposal
    BY <2>3
  <2>4. CASE \E k \in DOMAIN s.comments :
               /\ RefsOf[k][NoPayload] = {x}
               /\ Proposes(t, [NoProposal EXCEPT !.step = "read", !.key = k, !.status = "imported",
                                                 !.payload = s.comments[k], !.version = v])
    <3>1. PICK k \in DOMAIN s.comments :
               /\ RefsOf[k][NoPayload] = {x}
               /\ Proposes(t, [NoProposal EXCEPT !.step = "read", !.key = k, !.status = "imported",
                                                 !.payload = s.comments[k], !.version = v])
      BY <2>4
    <3>2. s.comments \in UNION {[some -> Payloads] : some \in SUBSET Descriptions}
      BY <2>0 DEF Snapshot
    <3>3. PICK some \in SUBSET Descriptions : s.comments \in [some -> Payloads]
      BY <3>2
    <3>4. k \in Keys /\ KindOf[k] = "semantic" /\ s.comments[k] \in Payloads
      BY <3>1, <3>3 DEF Descriptions
    <3>5. RefsOf[k][NoPayload] \subseteq Objects(versions', v)
      BY <2>2, <3>1
    <3> QED BY <2>0, <2>2, <3>1, <3>4, <3>5, <1>11
  <2> QED BY <2>1, <2>3, <2>4 DEF ImportDescription, Proposes
<1>14. ASSUME NEW t \in Correctors, FindConcept(t)
       PROVE  \/ UNCHANGED proposal
              \/ \E p \in Proposal : Proposes(t, p) /\ GoodProposal(p, versions')
  <2> DEFINE m == memory[t].mapping
             owners == Having(m.term)
             P(k) == [NoProposal EXCEPT !.step = "looking", !.key = k, !.status = "confirmed",
                                        !.payload = Remembering(k, m),
                                        !.expected = IF owners = {} THEN 0 ELSE resolution[k].updated,
                                        !.reviewed = resolution[k].payload]
  <2>0. m \in Mappings /\ versions' = versions
    BY <1>14 DEF FindConcept, Sound, GoodMemory
  <2>1. CASE UNCHANGED proposal
    BY <2>1
  <2>2. CASE \E k \in (IF owners = {} THEN {NewKey[m.term]} ELSE owners) : Proposes(t, P(k))
    <3>1. PICK k \in (IF owners = {} THEN {NewKey[m.term]} ELSE owners) : Proposes(t, P(k))
      BY <2>2
    <3>2. k \in Keys /\ KindOf[k] = "concept"
      BY <2>0, <3>1, CorrectorAssumption DEF Having
    <3>3. Remembering(k, m) \in Payloads
      <4> DEFINE names == IF k \in Having(m.term) THEN NamesOf[resolution[k].payload] ELSE {m.term}
      <4>1. CASE k \in Having(m.term)
        <5>1. resolution[k].payload \in Payloads /\ m.term \in NamesOf[resolution[k].payload]
          BY <1>0, <3>2, <4>1 DEF Having, Resolution, GoodResolution
        <5>2. NamesOf[resolution[k].payload] \in {NamesOf[p] : p \in Payloads} \cup {{m.term}}
          BY <5>1
        <5>3. \E p \in Payloads : NamesOf[p] = NamesOf[resolution[k].payload] /\ RefsOf[k][p] = {m.ref}
          <6> DEFINE ns == NamesOf[resolution[k].payload]
          <6>1. ns \in {NamesOf[p] : p \in Payloads} \cup {{m.term}} /\ m.term \in ns
            BY <5>1, <5>2
          <6> HIDE DEF ns, m
          <6>2. \E p \in Payloads : NamesOf[p] = ns /\ RefsOf[k][p] = {m.ref}
            BY <2>0, <3>2, <6>1, Memorable
          <6> QED BY <6>2 DEF ns
        <5> QED BY <4>1, <5>3 DEF Remembering
      <4>2. CASE k \notin Having(m.term)
        <5>1. \E p \in Payloads : NamesOf[p] = {m.term} /\ RefsOf[k][p] = {m.ref}
          <6> DEFINE ns == {m.term}
          <6>1. ns \in {NamesOf[p] : p \in Payloads} \cup {{m.term}} /\ m.term \in ns
            OBVIOUS
          <6> HIDE DEF ns, m
          <6>2. \E p \in Payloads : NamesOf[p] = ns /\ RefsOf[k][p] = {m.ref}
            BY <2>0, <3>2, <6>1, Memorable
          <6> QED BY <6>2 DEF ns
        <5> QED BY <4>2, <5>1 DEF Remembering
      <4> QED BY <4>1, <4>2
    <3>4. /\ resolution[k].updated \in Nat /\ resolution[k].payload \in Payloads \cup {NoPayload}
          /\ Remembering(k, m) # NoPayload
      BY <1>0, <3>2, <3>3, KeyAssumption DEF Resolution
    <3> HIDE DEF owners, m
    <3>5. P(k) \in Proposal
      BY <3>2, <3>3, <3>4, <1>3 DEF Proposal, NoProposal, Status
    <3>6. GoodProposal(P(k), versions')
      BY <3>2, <3>4 DEF GoodProposal, NoProposal, Undefined, Located
    <3> HIDE DEF P
    <3> QED BY <3>1, <3>5, <3>6
  <2> QED BY <1>14, <2>1, <2>2 DEF FindConcept, Proposes
<1> QED BY <1>4, <1>6, <1>7, <1>8, <1>9, <1>10, <1>12, <1>13, <1>14, GovernanceMove,
           GovernorAssumption, IngesterAssumption, CorrectorAssumption

-----------------------------------------------------------------------------
(* Resolutions and inferences.                                             *)

\* Precedence leaves a resolution, and one that says something.
LEMMA ResolvedTyped ==
    ASSUME NEW current \in Resolution, NEW seen \in Resolution, NEW d \in Proposal,
           GoodResolution(current), GoodResolution(seen), d.payload # NoPayload
    PROVE  Resolved(current, seen, d) \in Resolution /\ GoodResolution(Resolved(current, seen, d))
<1>1. CASE Accepts(seen, d)
  BY <1>1 DEF Resolved, Resolution, GoodResolution, Proposal
<1>2. CASE ~Accepts(seen, d) /\ Disputes(seen, d)
  <2> DEFINE r == [seen EXCEPT !.status = "conflicting", !.version = 0, !.updated = current.updated + 1]
  <2>1. Resolved(current, seen, d) = r
    BY <1>2 DEF Resolved
  <2>2. r \in Resolution /\ r.payload = seen.payload
    <3>1. "conflicting" \in Status /\ 0 \in Nat /\ current.updated + 1 \in Nat
      BY DEF Status, Resolution
    <3> QED BY <3>1 DEF Resolution
  <2>3. seen.payload # NoPayload
    BY <1>2 DEF GoodResolution, Disputes
  <2> HIDE DEF r
  <2> QED BY <2>1, <2>2, <2>3 DEF GoodResolution
<1>3. CASE ~Accepts(seen, d) /\ ~Disputes(seen, d)
  BY <1>3 DEF Resolved
<1> QED BY <1>1, <1>2, <1>3

\* The current meaning stays such.
LEMMA ResolutionsStay ==
    ASSUME TypeOK, Sound, Next
    PROVE  /\ resolution' \in [Keys -> Resolution]
           /\ \A k \in Keys : GoodResolution(resolution'[k])
<1>0. /\ resolution \in [Keys -> Resolution] /\ \A k \in Keys : GoodResolution(resolution[k])
  BY DEF TypeOK, GovernanceTypeOK, Sound
<1>1. CASE UNCHANGED resolution
  BY <1>0, <1>1
<1>2. ASSUME NEW t \in Threads, NEW kinds, Commit(t, kinds)
      PROVE  /\ resolution' \in [Keys -> Resolution]
             /\ \A k \in Keys : GoodResolution(resolution'[k])
  <2> DEFINE d == proposal[t]
  <2>1. /\ d \in Proposal /\ d.key \in Keys /\ d.payload # NoPayload
        /\ d.seen \in Resolution /\ GoodResolution(d.seen)
    BY <1>2 DEF Commit, TypeOK, GovernanceTypeOK, Sound, GoodProposal, GoodResolution, Proposal
  <2>2. resolution' = [resolution EXCEPT ![d.key] = Resolved(resolution[d.key], d.seen, d)]
    BY <1>0, <1>2, <2>1 DEF Commit
  <2>3. /\ Resolved(resolution[d.key], d.seen, d) \in Resolution
        /\ GoodResolution(Resolved(resolution[d.key], d.seen, d))
    BY <1>0, <2>1, ResolvedTyped
  <2> QED BY <1>0, <2>1, <2>2, <2>3
<1>3. \/ UNCHANGED resolution
      \/ \E t \in Threads, kinds \in {{"semantic"}, {"concept"}, {"metric", "rule"}} : Commit(t, kinds)
  BY GovernanceMove
     DEF Submit, LocateDescription, LocateConcept, LocateMetric, LocateRule, Locate, ReadCurrent,
         CheckConcepts, CheckRules, CheckNames, Proceed, ReadResolution, ProposeInferred,
         CreateSchemaObject, CreateColumn, FindConcept
<1> QED BY <1>1, <1>2, <1>3

\* Who changes the inferences.
LEMMA InferenceMove ==
    ASSUME Next
    PROVE  \/ UNCHANGED inference
           \/ \E t \in Inferers : \/ StartInference(t) \/ ReadTargets(t) \/ ModelAnswers(t)
                                  \/ ProposeInferred(t) \/ InferenceEnds(t)
<1>1. CASE \E t \in Threads \ Correctors : Writer(t)
  BY <1>1 DEF Writer, WriterStep, ReadResolution, ProposeSemanticDefinition,
              ProposeBusinessConceptDefinition, ProposeAnalyticSemanticDefinition, Commit
<1>2. CASE \E t \in Stewards : Steward(t)
  BY <1>2 DEF Steward, StewardStep, CorrectSemantics, ProposeBusinessConcept, CorrectBusinessConcept,
              ProposeMetric, CorrectMetric, ProposeBusinessRule, CorrectBusinessRule, Submit, Looking,
              LocateDescription, LocateConcept, LocateMetric, LocateRule, Locate, ReadCurrent,
              CheckConcepts, CheckRules, CheckNames, Proceed, governanceVars
<1>3. CASE \E t \in Inferers : Inferer(t)
  BY <1>3 DEF Inferer, InfererStep, Looking, governanceVars
<1>4. CASE \E t \in Ingesters : Ingester(t)
  BY <1>4 DEF Ingester, IngestStep, IngestCall, NextVersion, FinishIngest, IngestFails, IngestReturns,
              IngestDataSource, ImportManual, ImportDDL, IngestCalled, InsertVersion, CreateSchemaObject,
              CreateColumn, CreateRelationship, governanceVars
<1>5. CASE \E t \in Explorers : Explorer(t)
  BY <1>5 DEF Explorer, Explore, governanceVars
<1>6. CASE \E t \in Registrars : Registrar(t)
  BY <1>6 DEF Registrar, RegistrationStep, StartRegistration, ReadDraft, Ingested, ReadDefinition,
              InsertDefinition, governanceVars
<1>7. CASE \E t \in Correctors : Corrector(t)
  BY <1>7 DEF Corrector, CorrectorStep, CorrectMapping, InterpretCorrection, Begins,
              ReadTicket, CheckVersion,
              CheckReferences, Interpreted, FindConcept, CorrectionRefused, Remember, ReadRow, CancelTicket,
              Looking, LocateConcept, Locate, CheckNames, Proceed, ReadResolution,
              ProposeBusinessConceptDefinition, Commit, governanceVars
<1> QED
  BY <1>1, <1>2, <1>3, <1>4, <1>5, <1>6, <1>7
     DEF Next, Curator, Reader, Requester, governanceVars

\* No inference promises nothing.
LEMMA NoInferenceGood ==
    ASSUME NEW vs
    PROVE  NoInference \in Inference /\ GoodInference(NoInference, vs)
BY DEF NoInference, Inference, GoodInference

\* Inferences keep to what their version has.
LEMMA InferencesStay ==
    ASSUME TypeOK, Sound, Next
    PROVE  /\ inference' \in [Inferers -> Inference]
           /\ \A t \in Inferers : GoodInference(inference'[t], versions')
<1>0. /\ versions \in Seq(Version) /\ versions' \in Seq(Version) /\ Grown(versions, versions')
      /\ inference \in [Inferers -> Inference] /\ \A t \in Inferers : GoodInference(inference[t], versions)
      /\ view \in [Threads -> View] /\ \A t \in Threads : GoodView(view[t], versions)
  BY VersionsGrow DEF TypeOK, StoreTypeOK, GovernanceTypeOK, Sound
<1>1. \A t \in Inferers : GoodInference(inference[t], versions')
  BY <1>0, InferenceKept
<1>2. SUFFICES \/ UNCHANGED inference
               \/ \E t \in Inferers, i \in Inference :
                     inference' = [inference EXCEPT ![t] = i] /\ GoodInference(i, versions')
  BY <1>0, <1>1
<1>3. NoInference \in Inference /\ GoodInference(NoInference, versions')
  BY NoInferenceGood
<1>4. ASSUME NEW t \in Inferers, StartInference(t)
      PROVE  \E i \in Inference : inference' = [inference EXCEPT ![t] = i] /\ GoodInference(i, versions')
  <2> DEFINE i == [inference[t] EXCEPT !.step = "looking"]
  <2>1. inference' = [inference EXCEPT ![t] = i] /\ i \in Inference /\ GoodInference(i, versions')
    BY <1>0, <1>4 DEF StartInference, Inference, GoodInference
  <2> QED BY <2>1
<1>5. ASSUME NEW t \in Inferers, ReadTargets(t)
      PROVE  \E i \in Inference : inference' = [inference EXCEPT ![t] = i] /\ GoodInference(i, versions')
  <2> DEFINE targets == IF view[t].step = "ready" THEN Eligible(view[t].refs) ELSE {}
             i == [NoInference EXCEPT !.step = "model", !.targets = targets, !.version = view[t].version]
  <2>1. \/ inference' = [inference EXCEPT ![t] = NoInference]
        \/ targets # {} /\ inference' = [inference EXCEPT ![t] = i]
    BY <1>5 DEF ReadTargets
  <2>2. ASSUME targets # {}
        PROVE  i \in Inference /\ GoodInference(i, versions')
    <3>1. view[t].step = "ready" /\ view[t] \in View /\ GoodView(view[t], versions')
      BY <1>0, <1>5, <2>2, ViewKept, GovernorAssumption
    <3>2. /\ view[t].version \in Nat /\ targets \in SUBSET Keys /\ view[t].version \in 1..Len(versions')
          /\ \A k \in targets : /\ KindOf[k] = "semantic"
                                /\ RefsOf[k][NoPayload] \subseteq Objects(versions', view[t].version)
      BY <3>1 DEF View, GoodView, Eligible
    <3> HIDE DEF targets
    <3> QED BY <3>2 DEF Inference, NoInference, GoodInference
  <2> HIDE DEF i
  <2> QED BY <1>3, <2>1, <2>2
<1>6. ASSUME NEW t \in Inferers, ModelAnswers(t)
      PROVE  \E i \in Inference : inference' = [inference EXCEPT ![t] = i] /\ GoodInference(i, versions')
  <2>1. CASE inference' = [inference EXCEPT ![t] = NoInference]
    BY <1>3, <2>1
  <2>2. ASSUME NEW S \in SUBSET inference[t].targets, NEW p \in Phrases,
               inference' = [inference EXCEPT ![t] =
                                [inference[t] EXCEPT !.step = "writing", !.targets = S, !.payload = p]]
        PROVE  \E i \in Inference : inference' = [inference EXCEPT ![t] = i] /\ GoodInference(i, versions')
    <3> DEFINE i == [inference[t] EXCEPT !.step = "writing", !.targets = S, !.payload = p]
    <3>1. /\ inference[t] \in Inference /\ GoodInference(inference[t], versions')
          /\ inference[t].step = "model" /\ p \in Payloads /\ p # NoPayload
      BY <1>0, <1>1, <1>6, KeyAssumption DEF ModelAnswers
    <3>2. i \in Inference
      BY <3>1 DEF Inference
    <3>3. GoodInference(i, versions')
      BY <3>1 DEF GoodInference, Inference
    <3> QED BY <2>2, <3>2, <3>3
  <2> QED BY <1>0, <1>6, <2>1, <2>2 DEF ModelAnswers
<1>7. ASSUME NEW t \in Inferers, ProposeInferred(t)
      PROVE  \E i \in Inference : inference' = [inference EXCEPT ![t] = i] /\ GoodInference(i, versions')
  <2>1. PICK k : inference' = [inference EXCEPT ![t].targets = @ \ {k}]
    BY <1>7 DEF ProposeInferred
  <2> DEFINE i == [inference[t] EXCEPT !.targets = @ \ {k}]
  <2>2. inference' = [inference EXCEPT ![t] = i] /\ i \in Inference
    BY <1>0, <2>1 DEF Inference
  <2>3. GoodInference(i, versions')
    BY <1>0, <1>1 DEF GoodInference, Inference
  <2> QED BY <2>2, <2>3
<1>8. ASSUME NEW t \in Inferers, InferenceEnds(t)
      PROVE  \E i \in Inference : inference' = [inference EXCEPT ![t] = i] /\ GoodInference(i, versions')
  BY <1>3, <1>8 DEF InferenceEnds
<1> QED BY <1>4, <1>5, <1>6, <1>7, <1>8, InferenceMove

-----------------------------------------------------------------------------
(* Ingestions.                                                             *)

\* A set of naturals with a bound has a greatest element.
LEMMA GreatestOf ==
    ASSUME NEW n \in Nat, NEW S \in SUBSET (1..n), S # {}
    PROVE  \E i \in S : \A j \in S : j <= i
<1> DEFINE T == {n - i : i \in S}
<1>1. T \subseteq Nat /\ T # {}
  <2>1. \A i \in S : n - i \in Nat
    OBVIOUS
  <2>2. T \subseteq Nat
    BY <2>1
  <2>3. PICK i \in S : TRUE
    OBVIOUS
  <2>4. n - i \in T
    OBVIOUS
  <2> QED BY <2>2, <2>4
<1>2. PICK x \in T : \A y \in T : ~ (<<y, x>> \in OpToRel(<, Nat))
  <2> HIDE DEF T
  <2> QED BY <1>1, WFMin, NatLessThanWellFounded
<1>3. \A y \in T : ~ (y < x)
  <2> HIDE DEF T
  <2> QED BY <1>1, <1>2 DEF OpToRel
<1>4. PICK i \in S : x = n - i
  BY <1>2
<1>5. \A j \in S : n - j \in T /\ ~ (n - j < n - i)
  BY <1>3, <1>4
<1> QED BY <1>5

\* The empty snapshot is one.
LEMMA NoSnapshotTyped == NoSnapshot \in Snapshot
<1>1. <<>> \in [{} -> Payloads] /\ {} \in SUBSET Descriptions
  OBVIOUS
<1>2. <<>> \in UNION {[some -> Payloads] : some \in SUBSET Descriptions}
  BY <1>1
<1> QED BY <1>2 DEF NoSnapshot, Snapshot

\* What a script is parsed to is a snapshot.
LEMMA ParsedTyped ==
    ASSUME NEW script \in Scripts
    PROVE  Parsed(script) \in Snapshot
<1>0. /\ script \in Seq(Statement)
      /\ \A i \in DOMAIN script :
            script[i].kind = "comment" => /\ script[i].key \in Keys /\ script[i].payload # NoPayload
                                          /\ KindOf[script[i].key] = "semantic"
  BY ScriptAssumption
<1>a. \A i \in DOMAIN script : script[i] \in Statement
  BY <1>0
<1> DEFINE C == Of(script, "comment")
           K == {script[i].key : i \in C}
<1>1. C \in SUBSET (1..Len(script)) /\ Len(script) \in Nat
  BY <1>0 DEF Of
<1>2. \A i \in C : script[i].payload \in Payloads /\ script[i].key \in Descriptions
  BY <1>0, <1>a DEF Of, Descriptions, Statement
<1>3. K \in SUBSET Descriptions
  BY <1>2
<1>4. ASSUME NEW k \in K
      PROVE  script[CHOOSE i \in C : /\ script[i].key = k
                                     /\ \A j \in C : script[j].key = k => j <= i].payload \in Payloads
  <2> DEFINE S == {i \in C : script[i].key = k}
  <2>1. S \in SUBSET (1..Len(script)) /\ S # {}
    BY <1>1
  <2>2. \E i \in S : \A j \in S : j <= i
    <3> HIDE DEF S
    <3> QED BY <1>1, <2>1, GreatestOf
  <2>3. \E i \in C : script[i].key = k /\ \A j \in C : script[j].key = k => j <= i
    BY <2>2
  <2>4. (CHOOSE i \in C : script[i].key = k /\ \A j \in C : script[j].key = k => j <= i) \in C
    BY <2>3
  <2> HIDE DEF C
  <2> QED BY <1>2, <2>4
<1>5. Comments(script) \in [K -> Payloads]
  BY <1>4 DEF Comments
<1>6. Comments(script) \in UNION {[some -> Payloads] : some \in SUBSET Descriptions}
  <2> HIDE DEF K
  <2> QED BY <1>3, <1>5
<1>7. \A i \in DOMAIN script : /\ script[i].table \in Tables /\ script[i].columns \in SUBSET Columns
                               /\ script[i].links \in SUBSET Links
  BY <1>a DEF Statement
<1>8. /\ Created(script) \in SUBSET Tables /\ CreatedColumns(script) \in SUBSET Columns
      /\ UNION {script[i].links : i \in Of(script, "create")} \in SUBSET Links
  BY <1>7 DEF Created, CreatedColumns, Of
<1> QED BY <1>6, <1>8 DEF Parsed, Snapshot

\* Who changes the ingestions.
LEMMA IngestMove ==
    ASSUME Next
    PROVE  \/ UNCHANGED ingest
           \/ /\ UNCHANGED queryVars
              /\ \E t \in Ingesters : \/ NextVersion(t) \/ InsertVersion(t) \/ FinishIngest(t) \/ IngestFails(t)
                                      \/ /\ t \notin Registrars
                                         /\ \/ IngestDataSource(t) \/ ImportManual(t) \/ ImportDDL(t)
                                            \/ IngestReturns(t)
           \/ \E t \in Registrars : ReadDraft(t) \/ Ingested(t)
<1>1. CASE \E t \in Ingesters : Ingester(t)
  BY <1>1 DEF Ingester, IngestStep, IngestCall, CreateSchemaObject, CreateColumn, CreateRelationship
<1>2. CASE \E t \in Registrars : Registrar(t)
  BY <1>2 DEF Registrar, RegistrationStep, StartRegistration, ReadDefinition, InsertDefinition
<1> QED BY <1>1, <1>2 DEF Next, Writer, Steward, Inferer, Explorer, Explore, Curator, Reader, Corrector, Requester

\* No ingestion promises nothing.
LEMMA NoIngestGood ==
    ASSUME NEW vs
    PROVE  NoIngest \in Ingest /\ GoodIngest(NoIngest, vs)
BY NoSnapshotTyped DEF NoIngest, Ingest, GoodIngest

\* An ingestion begins with a number to find, or has failed.
LEMMA BeginsIngest ==
    ASSUME NEW t, NEW s \in Snapshot, NEW vs, BeginIngest(t, s)
    PROVE  \E i \in Ingest : /\ ingest' = [ingest EXCEPT ![t] = i] /\ GoodIngest(i, vs)
                             /\ i.step \in {"number", "failed"} /\ i.snapshot \in {s, NoSnapshot}
                             /\ i.step = "number" => i.snapshot = s
<1> DEFINE a == [NoIngest EXCEPT !.step = "number", !.snapshot = s]
           b == [NoIngest EXCEPT !.step = "failed"]
<1>1. a \in Ingest /\ b \in Ingest
  BY NoSnapshotTyped DEF NoIngest, Ingest
<1>2. /\ GoodIngest(a, vs) /\ GoodIngest(b, vs)
      /\ a.step = "number" /\ a.snapshot = s /\ b.step = "failed" /\ b.snapshot = NoSnapshot
  BY DEF NoIngest, GoodIngest
<1>3. ingest' = [ingest EXCEPT ![t] = a] \/ ingest' = [ingest EXCEPT ![t] = b]
  BY DEF BeginIngest
<1> HIDE DEF a, b
<1> QED BY <1>1, <1>2, <1>3

\* An ingestion fills the version it made.
LEMMA IngestsStay ==
    ASSUME TypeOK, Sound, Next
    PROVE  /\ IngestTypeOK'
           /\ \A t \in Ingesters : GoodIngest(ingest'[t], versions')
<1>0. /\ versions \in Seq(Version) /\ versions' \in Seq(Version) /\ Grown(versions, versions')
      /\ ingest \in [Ingesters -> Ingest] /\ \A t \in Ingesters : GoodIngest(ingest[t], versions)
      /\ registration \in [Registrars -> Registration]
  BY VersionsGrow DEF TypeOK, StoreTypeOK, IngestTypeOK, QueriesTypeOK, Sound
<1>1. \A t \in Ingesters : GoodIngest(ingest[t], versions')
  BY <1>0, IngestKept
<1>2. SUFFICES \/ UNCHANGED ingest
               \/ \E t \in Ingesters, i \in Ingest :
                     ingest' = [ingest EXCEPT ![t] = i] /\ GoodIngest(i, versions')
  BY <1>0, <1>1 DEF IngestTypeOK
<1>3. NoIngest \in Ingest /\ GoodIngest(NoIngest, versions')
  BY NoIngestGood
<1>4. ASSUME NEW t \in Ingesters, \/ IngestDataSource(t) \/ ImportManual(t) \/ ImportDDL(t)
      PROVE  \/ UNCHANGED ingest
             \/ \E i \in Ingest : ingest' = [ingest EXCEPT ![t] = i] /\ GoodIngest(i, versions')
  <2>1. \/ UNCHANGED ingest
        \/ \E s \in Snapshots : BeginIngest(t, s)
        \/ \E script \in Scripts : BeginIngest(t, Parsed(script))
    BY <1>4 DEF IngestDataSource, ImportManual, ImportDDL
  <2>2. UNCHANGED ingest \/ \E s \in Snapshot : BeginIngest(t, s)
    BY <2>1, SnapshotAssumption, ParsedTyped
  <2> QED BY <2>2, BeginsIngest
<1>5. ASSUME NEW t \in Ingesters, NextVersion(t)
      PROVE  \E i \in Ingest : ingest' = [ingest EXCEPT ![t] = i] /\ GoodIngest(i, versions')
  <2> DEFINE i == [ingest[t] EXCEPT !.step = "insert", !.version = Latest + 1]
  <2>1. ingest' = [ingest EXCEPT ![t] = i] /\ Latest \in Nat
    BY <1>0, <1>5 DEF NextVersion, Latest
  <2>2. i \in Ingest /\ GoodIngest(i, versions')
    <3>1. Latest + 1 \in Nat /\ Latest + 1 # 0
      BY <2>1
    <3>2. i \in Ingest
      BY <1>0, <3>1 DEF Ingest
    <3>3. i.step = "insert" /\ i.version = Latest + 1
      BY <1>0 DEF Ingest
    <3> QED BY <3>1, <3>2, <3>3 DEF GoodIngest
  <2> QED BY <2>1, <2>2
<1>6. ASSUME NEW t \in Ingesters, InsertVersion(t)
      PROVE  \E i \in Ingest : ingest' = [ingest EXCEPT ![t] = i] /\ GoodIngest(i, versions')
  <2> DEFINE i == [ingest[t] EXCEPT !.step = "fill"]
             f == [ingest[t] EXCEPT !.step = "failed"]
  <2>1. i \in Ingest /\ f \in Ingest /\ GoodIngest(f, versions')
    BY <1>0 DEF Ingest, GoodIngest
  <2>2. CASE ingest[t].version = Latest + 1
    <3>1. ingest' = [ingest EXCEPT ![t] = i] /\ Len(versions') = Latest + 1
      BY <1>0, <1>6, <2>2 DEF InsertVersion, Latest
    <3>2. GoodIngest(i, versions')
      BY <1>0, <3>1, <2>2 DEF GoodIngest, Latest, Ingest
    <3> QED BY <2>1, <3>1, <3>2
  <2>3. CASE ingest[t].version # Latest + 1
    BY <1>0, <1>6, <2>1, <2>3 DEF InsertVersion
  <2> QED BY <2>2, <2>3
<1>7. ASSUME NEW t \in Ingesters, \/ FinishIngest(t) \/ IngestFails(t)
      PROVE  \E i \in Ingest : ingest' = [ingest EXCEPT ![t] = i] /\ GoodIngest(i, versions')
  <2>1. PICK step \in {"done", "failed"} : ingest' = [ingest EXCEPT ![t] = [ingest[t] EXCEPT !.step = step]]
    BY <1>0, <1>7 DEF FinishIngest, IngestFails
  <2>2. [ingest[t] EXCEPT !.step = step] \in Ingest /\ ingest[t].step = "fill"
    BY <1>0, <1>7 DEF Ingest, FinishIngest, IngestFails
  <2>3. GoodIngest([ingest[t] EXCEPT !.step = step], versions')
    BY <1>0, <1>1, <2>2 DEF GoodIngest, Ingest
  <2> QED BY <2>1, <2>2, <2>3
<1>8. ASSUME NEW t \in Ingesters, IngestReturns(t)
      PROVE  \E i \in Ingest : ingest' = [ingest EXCEPT ![t] = i] /\ GoodIngest(i, versions')
  BY <1>3, <1>8 DEF IngestReturns
<1>9. ASSUME NEW t \in Registrars, ReadDraft(t)
      PROVE  \E i \in Ingest : ingest' = [ingest EXCEPT ![t] = i] /\ GoodIngest(i, versions')
  <2>1. registration[t].snapshot \in Snapshot
    BY <1>0, RegistrarAssumption, NoSnapshotTyped DEF Registration
  <2> QED BY <1>9, <2>1, BeginsIngest DEF ReadDraft
<1>10. ASSUME NEW t \in Registrars, Ingested(t)
       PROVE  \E i \in Ingest : ingest' = [ingest EXCEPT ![t] = i] /\ GoodIngest(i, versions')
  BY <1>3, <1>10 DEF Ingested
<1> QED BY <1>4, <1>5, <1>6, <1>7, <1>8, <1>9, <1>10, IngestMove, RegistrarAssumption

-----------------------------------------------------------------------------
(* Registrations and corrections: their types.                             *)

\* Who changes the definitions and the registrations.
LEMMA QueriesMove ==
    ASSUME Next
    PROVE  UNCHANGED queryVars \/ \E t \in Registrars : RegistrationStep(t)
BY DEF Next, Writer, Steward, Inferer, Ingester, Explorer, Registrar, Curator, Reader, Corrector, Requester

\* Registrations keep their types.
LEMMA QueriesStay ==
    ASSUME TypeOK, Sound, Next
    PROVE  QueriesTypeOK'
<1>0. /\ definitions \in Seq([catalog : Nat, tables : SUBSET Tables])
      /\ registration \in [Registrars -> Registration] /\ ingest \in [Ingesters -> Ingest]
  BY DEF TypeOK, QueriesTypeOK, IngestTypeOK
<1>1. CASE UNCHANGED queryVars
  BY <1>0, <1>1 DEF QueriesTypeOK, queryVars
<1>2. ASSUME NEW t \in Registrars, RegistrationStep(t)
      PROVE  QueriesTypeOK'
  <2> DEFINE r == registration[t]
  <2>0. r \in Registration /\ NoRegistration \in Registration /\ r.snapshot \in Snapshot
    BY <1>0, RegistrarAssumption, NoSnapshotTyped DEF Registration, NoRegistration
  <2>1. definitions' \in Seq([catalog : Nat, tables : SUBSET Tables])
    <3>1. [catalog |-> r.catalog, tables |-> r.snapshot.tables] \in [catalog : Nat, tables : SUBSET Tables]
      BY <2>0 DEF Registration, Snapshot
    <3>2. \/ definitions' = definitions
          \/ definitions' = Append(definitions, [catalog |-> r.catalog, tables |-> r.snapshot.tables])
      BY <1>2 DEF RegistrationStep, StartRegistration, ReadDraft, Ingested, ReadDefinition, InsertDefinition
    <3>3. ASSUME NEW d \in [catalog : Nat, tables : SUBSET Tables]
          PROVE  Append(definitions, d) \in Seq([catalog : Nat, tables : SUBSET Tables])
      BY <1>0
    <3> QED BY <1>0, <3>1, <3>2, <3>3
  <2>2. \E n \in Registration : registration' = [registration EXCEPT ![t] = n]
    <3>1. CASE StartRegistration(t)
      <4>1. PICK s \in VirtualTables : registration' = [registration EXCEPT ![t] =
                              [NoRegistration EXCEPT !.step = "draft", !.snapshot = s]]
        BY <3>1 DEF StartRegistration
      <4>2. [NoRegistration EXCEPT !.step = "draft", !.snapshot = s] \in Registration
        BY DEF NoRegistration, Registration
      <4> QED BY <4>1, <4>2
    <3>2. CASE ReadDraft(t)
      <4> DEFINE n == [r EXCEPT !.step = "ingesting", !.draft = Len(definitions) + 1]
      <4>1. registration' = [registration EXCEPT ![t] = n] /\ Len(definitions) + 1 \in Nat
        BY <1>0, <3>2 DEF ReadDraft
      <4>2. n \in Registration
        BY <2>0, <4>1 DEF Registration
      <4> QED BY <4>1, <4>2
    <3>3. CASE Ingested(t)
      <4> DEFINE n == [r EXCEPT !.step = "read", !.draft = Drafted(t), !.catalog = ingest[t].version]
      <4>1. registration' = [registration EXCEPT ![t] = NoRegistration] \/ registration' = [registration EXCEPT ![t] = n]
        BY <1>0, <3>3 DEF Ingested
      <4>2. n \in Registration
        BY <1>0, <2>0, RegistrarAssumption DEF Registration, Drafted, Ingest
      <4> QED BY <2>0, <4>1, <4>2
    <3>4. CASE ReadDefinition(t)
      <4> DEFINE n == [r EXCEPT !.step = "insert"]
      <4>1. registration' = [registration EXCEPT ![t] = NoRegistration] \/ registration' = [registration EXCEPT ![t] = n]
        BY <1>0, <3>4 DEF ReadDefinition
      <4>2. n \in Registration
        BY <2>0 DEF Registration
      <4> QED BY <2>0, <4>1, <4>2
    <3>5. CASE InsertDefinition(t)
      BY <2>0, <3>5 DEF InsertDefinition
    <3> QED BY <1>2, <3>1, <3>2, <3>3, <3>4, <3>5 DEF RegistrationStep
  <2> QED BY <1>0, <2>1, <2>2 DEF QueriesTypeOK
<1> QED BY <1>1, <1>2, QueriesMove

\* Who changes the ticket and the corrections.
LEMMA MemoryMove ==
    ASSUME Next
    PROVE  \/ UNCHANGED memoryVars
           \/ \E t \in Correctors :
                 \/ CorrectMapping(t) \/ InterpretCorrection(t) \/ ReadTicket(t) \/ CheckVersion(t)
                 \/ CheckReferences(t) \/ Interpreted(t) \/ FindConcept(t) \/ CorrectionRefused(t)
                 \/ Remember(t) \/ ReadRow(t) \/ CancelTicket(t)
           \/ \E t \in Requesters : RequesterStep(t)
BY DEF Next, Writer, Steward, Inferer, Ingester, Explorer, Registrar, Curator, Reader, Corrector, Requester,
       CorrectorStep

\* No correction is one.
LEMMA NoMemoryTyped == NoMemory \in Memory
<1>1. NoMapping \in Mapped /\ "received" \in States
  BY DEF NoMapping, Mapped, States
<1> QED BY <1>1 DEF NoMemory, Memory, Ticket

\* An answered correction promises nothing.
LEMMA NoMemoryGood ==
    ASSUME NEW a \in {"none", "error", "clarify", "kept", "regenerate"}
    PROVE  LET m == [NoMemory EXCEPT !.answer = a] IN m \in Memory /\ GoodMemory(m)
BY NoMemoryTyped DEF NoMemory, GoodMemory, Memory

\* Corrections keep their types, and stay of mappings that can be remembered.
LEMMA MemoryStays ==
    ASSUME TypeOK, Sound, Next
    PROVE  MemoryTypeOK' /\ \A t \in Correctors : GoodMemory(memory'[t])
<1>0. /\ ticket \in Ticket /\ memory \in [Correctors -> Memory] /\ \A t \in Correctors : GoodMemory(memory[t])
      /\ view \in [Threads -> View] /\ Correctors \subseteq Threads
  BY CorrectorAssumption DEF TypeOK, MemoryTypeOK, Sound, StoreTypeOK
<1>1. ASSUME NEW t \in Correctors,
             \/ CorrectMapping(t) \/ InterpretCorrection(t) \/ ReadTicket(t) \/ CheckVersion(t)
             \/ CheckReferences(t) \/ Interpreted(t) \/ FindConcept(t) \/ CorrectionRefused(t)
             \/ Remember(t) \/ ReadRow(t) \/ CancelTicket(t)
      PROVE  /\ ticket' \in Ticket
             /\ UNCHANGED memory \/ \E m \in Memory : memory' = [memory EXCEPT ![t] = m] /\ GoodMemory(m)
  <2> DEFINE Goal == \E m \in Memory : memory' = [memory EXCEPT ![t] = m] /\ GoodMemory(m)
  <2>0. memory[t] \in Memory /\ GoodMemory(memory[t]) /\ view[t] \in View
    BY <1>0
  <2>1. ASSUME NEW a \in {"none", "error", "clarify", "kept", "regenerate"}, Answer(t, a)
        PROVE  Goal
    BY <2>1, NoMemoryGood DEF Answer
  <2>2. ASSUME NEW text \in BOOLEAN, NEW m \in Mapped, ~text => m \in Mappings,
               memory' = [memory EXCEPT ![t] = [NoMemory EXCEPT !.step = "request", !.text = text, !.mapping = m]]
        PROVE  Goal
    <3> DEFINE n == [NoMemory EXCEPT !.step = "request", !.text = text, !.mapping = m]
    <3>2. n \in Memory
      BY NoMemoryTyped DEF Memory, NoMemory
    <3>3. GoodMemory(n)
      BY <2>2 DEF GoodMemory, NoMemory
    <3> QED BY <2>2, <3>2, <3>3
  <2>3. ASSUME NEW step \in {"references", "concept", "correcting", "ticket", "update", "version"},
               memory[t].step # "idle", step \in {"concept", "correcting", "ticket", "update"} => ~memory[t].text,
               NEW state \in States, NEW seen \in Ticket,
               memory' = [memory EXCEPT ![t] = [memory[t] EXCEPT !.step = step, !.state = state, !.seen = seen]]
        PROVE  Goal
    <3> DEFINE n == [memory[t] EXCEPT !.step = step, !.state = state, !.seen = seen]
    <3>1. n \in Memory
      BY <2>0 DEF Memory
    <3>2. GoodMemory(n)
      BY <2>0, <2>3 DEF GoodMemory, Memory
    <3> QED BY <2>3, <3>1, <3>2
  \* A step alone, or with the ticket.
  <2>4. ASSUME NEW step, memory' = [memory EXCEPT ![t].step = step]
        PROVE  memory' = [memory EXCEPT ![t] = [memory[t] EXCEPT !.step = step, !.state = memory[t].state,
                                                                 !.seen = memory[t].seen]]
    BY <2>0, <2>4, <1>0 DEF Memory
  <2>5. memory[t].state \in States /\ memory[t].seen \in Ticket
    BY <2>0 DEF Memory
  <2>6. CASE CorrectMapping(t) \/ InterpretCorrection(t)
    <3>1. ticket' = ticket
      BY <2>6 DEF CorrectMapping, InterpretCorrection, Begins
    <3>2. CASE CorrectMapping(t)
      BY <1>0, <2>2, <3>1, <3>2, CorrectorAssumption DEF CorrectMapping, Begins
    <3>3. CASE InterpretCorrection(t)
      <4>1. PICK m \in Mappings : Begins(t, TRUE, [NoMapping EXCEPT !.previous = m.previous])
        BY <3>3 DEF InterpretCorrection
      <4>2. [NoMapping EXCEPT !.previous = m.previous] \in Mapped
        BY CorrectorAssumption DEF NoMapping, Mapped
      <4> QED BY <1>0, <2>2, <3>1, <4>1, <4>2 DEF Begins
    <3> QED BY <2>6, <3>2, <3>3
  <2>7. CASE ReadTicket(t)
    <3>1. memory' = [memory EXCEPT ![t] = [memory[t] EXCEPT !.step = "version", !.state = ticket.state]]
      BY <1>0, <2>7 DEF ReadTicket
    <3>2. [memory[t] EXCEPT !.step = "version", !.state = ticket.state]
             = [memory[t] EXCEPT !.step = "version", !.state = ticket.state, !.seen = memory[t].seen]
      BY <2>0 DEF Memory
    <3>3. ticket.state \in States /\ ticket' = ticket /\ memory[t].step = "request"
      BY <1>0, <2>7 DEF Ticket, ReadTicket
    <3> QED BY <1>0, <2>3, <2>5, <3>1, <3>2, <3>3
  <2>8. CASE CheckVersion(t)
    <3>1. \/ Answer(t, "error")
          \/ memory' = [memory EXCEPT ![t].step = "references"]
      BY <2>8 DEF CheckVersion
    <3>2. memory[t].step = "version" /\ ticket' = ticket
      BY <2>8 DEF CheckVersion
    <3> QED BY <1>0, <2>1, <2>3, <2>4, <2>5, <3>1, <3>2
  <2>9. CASE CheckReferences(t)
    <3>1. CASE memory' = [memory EXCEPT ![t] = [memory[t] EXCEPT !.step = "model", !.refs = view[t].refs]]
               /\ memory[t].text
      <4> DEFINE n == [memory[t] EXCEPT !.step = "model", !.refs = view[t].refs]
      <4>1. n \in Memory /\ GoodMemory(n)
        BY <2>0, <3>1 DEF Memory, View, GoodMemory
      <4> QED BY <1>0, <2>9, <3>1, <4>1 DEF CheckReferences
    <3>2. CASE memory' = [memory EXCEPT ![t] = [memory[t] EXCEPT !.step = "concept"]] /\ ~memory[t].text
      <4> DEFINE n == [memory[t] EXCEPT !.step = "concept"]
      <4>1. n \in Memory /\ GoodMemory(n)
        BY <2>0, <2>9, <3>2 DEF Memory, GoodMemory, CheckReferences
      <4> QED BY <1>0, <2>9, <3>2, <4>1 DEF CheckReferences
    <3> QED BY <1>0, <2>1, <2>9, <3>1, <3>2 DEF CheckReferences
  <2>10. CASE Interpreted(t)
    <3>1. ASSUME NEW n \in Mappings,
                 memory' = [memory EXCEPT ![t] = [NoMemory EXCEPT !.step = "request", !.mapping = n]]
          PROVE  Goal
      <4>1. [NoMemory EXCEPT !.step = "request", !.mapping = n]
               = [NoMemory EXCEPT !.step = "request", !.text = FALSE, !.mapping = n]
        BY NoMemoryTyped DEF Memory, NoMemory
      <4> QED BY <2>2, <3>1, <4>1, CorrectorAssumption
    <3> QED BY <1>0, <2>1, <2>10, <3>1 DEF Interpreted, Interpretations
  <2>11. CASE FindConcept(t)
    <3>1. Answer(t, "error") \/ memory' = [memory EXCEPT ![t].step = "correcting"]
      BY <2>11 DEF FindConcept
    <3>2. ~memory[t].text /\ ticket' = ticket /\ memory[t].step = "concept"
      BY <2>0, <2>11 DEF GoodMemory, FindConcept
    <3> QED BY <1>0, <2>1, <2>3, <2>4, <2>5, <3>1, <3>2
  <2>12. CASE CorrectionRefused(t)
    BY <1>0, <2>1, <2>12 DEF CorrectionRefused
  <2>13. CASE Remember(t)
    <3>1. \/ \E a \in {"kept", "regenerate"} : Answer(t, a)
          \/ memory' = [memory EXCEPT ![t].step = "ticket"]
      BY <2>13 DEF Remember
    <3>2. ~memory[t].text /\ memory[t].step = "correcting" /\ ticket' = ticket
      BY <1>0, <2>0, <2>13 DEF Remember, Sound, OneCall, GoodMemory
    <3> QED BY <1>0, <2>1, <2>3, <2>4, <2>5, <3>1, <3>2
  <2>14. CASE ReadRow(t)
    <3>1. \/ Answer(t, "error")
          \/ memory' = [memory EXCEPT ![t] = [memory[t] EXCEPT !.step = "update", !.seen = ticket]]
      BY <1>0, <2>14 DEF ReadRow
    <3>2. ~memory[t].text /\ memory[t].step = "ticket" /\ ticket' = ticket
      BY <2>0, <2>14 DEF GoodMemory, ReadRow
    <3>3. [memory[t] EXCEPT !.step = "update", !.seen = ticket]
             = [memory[t] EXCEPT !.step = "update", !.state = memory[t].state, !.seen = ticket]
      BY <2>0 DEF Memory
    <3> QED BY <1>0, <2>1, <2>3, <2>5, <3>1, <3>2, <3>3, ZenonT(60)
  <2>15. CASE CancelTicket(t)
    <3>1. \E a \in {"error", "regenerate"} : Answer(t, a)
      BY <2>15 DEF CancelTicket
    <3>2. ticket' = ticket \/ ticket' = [ticket EXCEPT !.state = "cancelled"]
      BY <2>15 DEF CancelTicket
    <3>3. ticket' \in Ticket
      BY <1>0, <3>2 DEF Ticket, States
    <3> QED BY <2>1, <3>1, <3>3
  <2> QED BY <1>1, <2>6, <2>7, <2>8, <2>9, <2>10, <2>11, <2>12, <2>13, <2>14, <2>15
<1>2. ASSUME NEW t \in Requesters, RequesterStep(t)
      PROVE  ticket' \in Ticket /\ memory' = memory
  <2>1. /\ memory' = memory
        /\ \/ \E s \in {"approved", "ready_for_preview", "executing", "succeeded", "failed_execution", "cancelled"} :
                 ticket' = [ticket EXCEPT !.state = s]
           \/ ticket' = [ticket EXCEPT !.explain = @ + 1]
    BY <1>2 DEF RequesterStep, Approve, Reopen, Execute, Finish, Cancel, Explain, Moved
  <2> QED BY <1>0, <2>1 DEF Ticket, States
<1> QED BY <1>0, <1>1, <1>2, MemoryMove DEF MemoryTypeOK, memoryVars

-----------------------------------------------------------------------------
(* One call at a time.                                                     *)

\* A proposal begins with one of four calls.
LEMMA ProposalBegins ==
    ASSUME TypeOK, Next, NEW t \in Threads, proposal[t].step = "idle", proposal'[t].step # "idle"
    PROVE  \/ t \in Stewards \/ t \in Inferers
           \/ t \in Ingesters /\ ingest[t].step = "fill" /\ UNCHANGED ingest
           \/ t \in Correctors /\ memory'[t].step = "correcting"
<1>0. proposal \in [Threads -> Proposal] /\ memory \in [Correctors -> Memory]
  BY DEF TypeOK, GovernanceTypeOK, MemoryTypeOK
<1>1. proposal' # proposal
  OBVIOUS
<1>2. ASSUME NEW u \in Threads,
             \/ LocateDescription(u) \/ LocateConcept(u) \/ LocateMetric(u) \/ LocateRule(u)
             \/ ReadCurrent(u) \/ CheckConcepts(u) \/ CheckRules(u) \/ CheckNames(u) \/ ReadResolution(u)
      PROVE  FALSE
  <2>1. proposal[u].step # "idle"
    BY <1>2 DEF LocateDescription, LocateConcept, LocateMetric, LocateRule, Locate, ReadCurrent, CheckConcepts,
                CheckRules, CheckNames, ReadResolution
  <2>2. \E p : proposal' = [proposal EXCEPT ![u] = p]
    BY <1>0, <1>2 DEF LocateDescription, LocateConcept, LocateMetric, LocateRule, Locate, ReadCurrent, CheckConcepts,
                CheckRules, CheckNames, Proceed, ReadResolution, Abandon
  <2> QED BY <1>0, <2>1, <2>2
<1>3. ASSUME NEW u \in Threads, NEW kinds, Commit(u, kinds)
      PROVE  FALSE
  <2>1. proposal' = [proposal EXCEPT ![u] = NoProposal]
    BY <1>3 DEF Commit, Abandon
  <2> QED BY <1>0, <2>1 DEF NoProposal
<1>4. ASSUME NEW u \in Stewards, NEW kind, NEW statuses, Submit(u, kind, statuses)
      PROVE  t \in Stewards
  <2>1. \E p : proposal' = [proposal EXCEPT ![u] = p]
    BY <1>4 DEF Submit
  <2> QED BY <1>0, <2>1
<1>5. ASSUME NEW u \in Inferers, ProposeInferred(u)
      PROVE  t \in Inferers
  <2>1. \E p : proposal' = [proposal EXCEPT ![u] = p]
    BY <1>5 DEF ProposeInferred
  <2> QED BY <1>0, <2>1
<1>6. ASSUME NEW u \in Ingesters, CreateSchemaObject(u) \/ CreateColumn(u)
      PROVE  t \in Ingesters /\ ingest[t].step = "fill" /\ UNCHANGED ingest
  <2>1. \E p : proposal' = [proposal EXCEPT ![u] = p]
    BY <1>0, <1>6 DEF CreateSchemaObject, CreateColumn, ImportDescription
  <2>2. t = u
    BY <1>0, <2>1
  <2> QED BY <1>6, <2>2 DEF CreateSchemaObject, CreateColumn, Filling
<1>7. ASSUME NEW u \in Correctors, FindConcept(u)
      PROVE  t \in Correctors /\ memory'[t].step = "correcting"
  <2>1. /\ \E p : proposal' = [proposal EXCEPT ![u] = p]
        /\ memory' = [memory EXCEPT ![u].step = "correcting"]
    BY <1>1, <1>7 DEF FindConcept
  <2>2. t = u
    BY <1>0, <2>1
  <2> QED BY <1>0, <2>1, <2>2 DEF Memory
<1> QED BY <1>1, <1>2, <1>3, <1>4, <1>5, <1>6, <1>7, GovernanceMove

\* Threads keep to one call.
LEMMA OneCallStays ==
    ASSUME TypeOK, Sound, Next
    PROVE  OneCall'
<1>0. /\ proposal \in [Threads -> Proposal] /\ proposal' \in [Threads -> Proposal]
      /\ ingest \in [Ingesters -> Ingest] /\ registration \in [Registrars -> Registration]
      /\ memory \in [Correctors -> Memory] /\ OneCall
  BY ProposalsStay DEF TypeOK, GovernanceTypeOK, IngestTypeOK, QueriesTypeOK, MemoryTypeOK, Sound
<1>1. \A t \in Threads : proposal'[t].step # "idle" => t \in Stewards \cup Inferers \cup Ingesters \cup Correctors
  BY <1>0, ProposalBegins DEF OneCall
<1>2. ASSUME NEW t \in Ingesters, proposal'[t].step # "idle"
      PROVE  ingest'[t].step = "fill"
  <2>0. t \in Threads /\ t \notin Stewards \cup Inferers \cup Correctors
    BY IngesterAssumption, RoleAssumption
  <2>1. CASE proposal[t].step = "idle"
    BY <1>2, <2>0, <2>1, ProposalBegins
  <2>2. CASE proposal[t].step # "idle"
    <3>0. ingest[t].step = "fill"
      BY <1>0, <2>2 DEF OneCall
    <3>1. ASSUME NEW u \in Ingesters, \/ NextVersion(u) \/ InsertVersion(u) \/ FinishIngest(u) \/ IngestFails(u)
                                      \/ IngestDataSource(u) \/ ImportManual(u) \/ ImportDDL(u) \/ IngestReturns(u)
          PROVE  ingest'[t] = ingest[t]
      <4>1. u # t
        BY <2>2, <3>0, <3>1 DEF NextVersion, InsertVersion, FinishIngest, IngestFails, IngestDataSource,
                                ImportManual, ImportDDL, IngestCalled, IngestReturns
      <4>2. UNCHANGED ingest \/ \E i : ingest' = [ingest EXCEPT ![u] = i]
        BY <1>0, <3>1 DEF NextVersion, InsertVersion, FinishIngest, IngestFails, IngestDataSource, ImportManual,
                          ImportDDL, BeginIngest, IngestReturns
      <4> QED BY <1>0, <4>1, <4>2
    <3>2. ASSUME NEW u \in Registrars, ReadDraft(u) \/ Ingested(u)
          PROVE  ingest'[t] = ingest[t]
      <4>1. u # t
        BY <1>0, <3>0, <3>2 DEF ReadDraft, Ingested, OneCall
      <4>2. \E i : ingest' = [ingest EXCEPT ![u] = i]
        BY <3>2 DEF ReadDraft, Ingested, BeginIngest
      <4> QED BY <1>0, <4>1, <4>2
    <3> QED BY <3>0, <3>1, <3>2, IngestMove
  <2> QED BY <2>1, <2>2
<1>3. ASSUME NEW t \in Registrars
      PROVE  registration'[t].step = "ingesting" \/ ingest'[t].step = "idle"
  <2>0. t \in Ingesters /\ (registration[t].step = "ingesting" \/ ingest[t].step = "idle")
    BY <1>0, RegistrarAssumption DEF OneCall
  <2>1. ASSUME NEW u \in Registrars, RegistrationStep(u)
        PROVE  registration'[t].step = "ingesting" \/ ingest'[t].step = "idle"
    <3>1. /\ UNCHANGED ingest \/ \E i : ingest' = [ingest EXCEPT ![u] = i]
          /\ \E r : registration' = [registration EXCEPT ![u] = r]
      BY <1>0, <2>1 DEF RegistrationStep, StartRegistration, ReadDraft, BeginIngest, Ingested, ReadDefinition,
                        InsertDefinition
    <3>2. CASE u # t
      BY <1>0, <2>0, <3>1, <3>2
    <3>3. CASE StartRegistration(t)
      BY <3>3 DEF StartRegistration
    <3>4. CASE ReadDraft(t)
      BY <1>0, <3>4 DEF ReadDraft, Registration
    <3>5. CASE Ingested(t)
      BY <1>0, <2>0, <3>5 DEF Ingested, NoIngest
    <3>6. CASE ReadDefinition(t) \/ InsertDefinition(t)
      BY <2>0, <3>6 DEF ReadDefinition, InsertDefinition
    <3> QED BY <2>1, <3>2, <3>3, <3>4, <3>5, <3>6 DEF RegistrationStep
  <2>2. ASSUME NEW u \in Ingesters, UNCHANGED queryVars,
               \/ NextVersion(u) \/ InsertVersion(u) \/ FinishIngest(u) \/ IngestFails(u)
               \/ /\ u \notin Registrars
                  /\ IngestDataSource(u) \/ ImportManual(u) \/ ImportDDL(u) \/ IngestReturns(u)
        PROVE  registration'[t].step = "ingesting" \/ ingest'[t].step = "idle"
    <3>1. UNCHANGED ingest \/ \E i : ingest' = [ingest EXCEPT ![u] = i]
      BY <1>0, <2>2 DEF NextVersion, InsertVersion, FinishIngest, IngestFails, IngestDataSource, ImportManual,
                        ImportDDL, BeginIngest, IngestReturns
    <3>2. CASE u # t
      BY <1>0, <2>0, <2>2, <3>1, <3>2 DEF queryVars
    <3>3. CASE u = t
      BY <2>0, <2>2, <3>3 DEF NextVersion, InsertVersion, FinishIngest, IngestFails, queryVars
    <3> QED BY <3>2, <3>3
  <2>3. CASE UNCHANGED queryVars /\ UNCHANGED ingest
    BY <2>0, <2>3 DEF queryVars
  <2>4. \A u : ReadDraft(u) \/ Ingested(u) => RegistrationStep(u)
    BY DEF RegistrationStep
  <2> QED BY <2>1, <2>2, <2>3, <2>4, IngestMove, QueriesMove
<1>4. ASSUME NEW t \in Correctors, proposal'[t].step # "idle"
      PROVE  memory'[t].step = "correcting"
  <2>0. t \in Threads /\ t \notin Stewards \cup Inferers \cup Ingesters
    BY CorrectorAssumption, RoleAssumption
  <2>1. CASE proposal[t].step = "idle"
    BY <1>4, <2>0, <2>1, ProposalBegins
  <2>2. CASE proposal[t].step # "idle"
    <3>0. memory[t].step = "correcting"
      BY <1>0, <2>2 DEF OneCall
    <3>1. ASSUME NEW u \in Correctors,
                 \/ CorrectMapping(u) \/ InterpretCorrection(u) \/ ReadTicket(u) \/ CheckVersion(u)
                 \/ CheckReferences(u) \/ Interpreted(u) \/ FindConcept(u) \/ CorrectionRefused(u)
                 \/ Remember(u) \/ ReadRow(u) \/ CancelTicket(u)
          PROVE  memory'[t] = memory[t]
      <4>1. \E m : memory' = [memory EXCEPT ![u] = m] \/ UNCHANGED memory
        BY <1>0, <3>1 DEF CorrectMapping, InterpretCorrection, Begins, ReadTicket, CheckVersion, CheckReferences,
                          Interpreted, FindConcept, CorrectionRefused, Remember, ReadRow, CancelTicket, Answer
      <4>2. CASE u # t
        BY <1>0, <4>1, <4>2
      <4>3. CASE Remember(t)
        BY <1>0, <1>4, <2>0, <4>3 DEF Remember, ProposeBusinessConceptDefinition, Commit, Abandon, NoProposal
      <4> QED BY <2>2, <3>0, <3>1, <4>2, <4>3
              DEF CorrectMapping, InterpretCorrection, Begins, ReadTicket, CheckVersion, CheckReferences,
                  Interpreted, FindConcept, CorrectionRefused, ReadRow, CancelTicket
    <3> QED BY <3>0, <3>1, MemoryMove DEF memoryVars, RequesterStep, Approve, Reopen, Execute, Finish, Cancel,
                                          Explain, Moved
  <2> QED BY <2>1, <2>2
<1> QED BY <1>1, <1>2, <1>3, <1>4 DEF OneCall

-----------------------------------------------------------------------------
(* The learning loop: its state.                                           *)

\* Examples are only added.
Longer(xs, ys) == Len(xs) <= Len(ys) /\ \A i \in 1..Len(xs) : ys[i] = xs[i]

\* Feedback is final.
Final(fs, gs) == \A r \in Requests : fs[r].outcome # "none" => gs[r] = fs[r]

\* What each step of a lesson has found out, which stays so.
GoodLesson(l, xs, fs, vs) ==
    /\ l.step \in {"looking", "store", "insert"} => l.draft.question \in Questions
    /\ l.step \in {"store", "insert"} =>
          /\ l.draft.version \in 1..Len(vs) /\ l.draft.refs \subseteq Objects(vs, l.draft.version)
          /\ l.draft.supersedes = 0 => l.draft.revision = 1
          /\ l.draft.supersedes # 0 =>
                /\ l.draft.supersedes \in 1..Len(xs)
                /\ xs[l.draft.supersedes].question = l.draft.question
                /\ l.draft.revision = xs[l.draft.supersedes].revision + 1
    /\ l.step = "active" => l.example \in 1..Len(xs)
    /\ l.step = "active" /\ l.outcome = "corrected" => l.draft.request \in Requests
    /\ l.step = "record" => l.draft.request \in Requests
    /\ l.step \in {"earn", "fit", "propose"} => l.example \in 1..Len(xs) /\ xs[l.example].request \in Requests
    /\ l.step \in {"fit", "propose"} =>
          fs[xs[l.example].request] = [outcome |-> "corrected", example |-> l.example]
    /\ l.step = "propose" =>
          l.draft.version \in 1..Len(vs) /\ xs[l.example].refs \subseteq Objects(vs, l.draft.version)
    /\ l.step = "review" => l.decision # "none"

\* A candidate was earned and fits its version.
GoodCandidate(c, xs, fs, vs) ==
    /\ c.example \in 1..Len(xs) /\ c.version \in 1..Len(vs)
    /\ xs[c.example].request = c.request
    /\ fs[c.request] = [outcome |-> "corrected", example |-> c.example]
    /\ xs[c.example].refs \subseteq Objects(vs, c.version)

\* The learning loop's inductive invariant.
Learnt ==
    /\ \A t \in Curators : GoodLesson(lesson[t], examples, feedback, versions)
    /\ \A c \in candidates : GoodCandidate(c, examples, feedback, versions)
    /\ OneActiveExample
    /\ \A x \in DOMAIN examples : \E r \in DOMAIN examples :
          examples[r].question = examples[x].question /\ examples[r].supersedes = 0

\* What a call checked stays true while examples, final feedback and versions are only added.
LEMMA LessonKept ==
    ASSUME NEW xs \in Seq(Example), NEW ys \in Seq(Example), Longer(xs, ys),
           NEW fs \in [Requests -> Feedback], NEW gs \in [Requests -> Feedback], Final(fs, gs),
           NEW vs \in Seq(Version), NEW ws \in Seq(Version), Grown(vs, ws),
           NEW l \in Lesson, GoodLesson(l, xs, fs, vs)
    PROVE  GoodLesson(l, ys, gs, ws)
<1>1. l.draft \in Draft /\ l.example \in Nat
  BY DEF Lesson
<1>2. \A i \in 1..Len(xs) : i \in 1..Len(ys) /\ ys[i] = xs[i]
  BY DEF Longer
<1>3. \A i \in 1..Len(vs) : i \in 1..Len(ws) /\ Objects(vs, i) \subseteq Objects(ws, i)
  BY DEF Grown, Objects
<1> QED BY <1>1, <1>2, <1>3 DEF GoodLesson, Final

\* A candidate stays earned while examples, final feedback and versions are only added.
LEMMA CandidateKept ==
    ASSUME NEW xs \in Seq(Example), NEW ys \in Seq(Example), Longer(xs, ys),
           NEW fs \in [Requests -> Feedback], NEW gs \in [Requests -> Feedback], Final(fs, gs),
           NEW vs \in Seq(Version), NEW ws \in Seq(Version), Grown(vs, ws),
           NEW c \in Candidate, GoodCandidate(c, xs, fs, vs)
    PROVE  GoodCandidate(c, ys, gs, ws)
<1>1. c.request \in Requests
  BY DEF Candidate
<1>2. \A i \in 1..Len(xs) : i \in 1..Len(ys) /\ ys[i] = xs[i]
  BY DEF Longer
<1>3. \A i \in 1..Len(vs) : i \in 1..Len(ws) /\ Objects(vs, i) \subseteq Objects(ws, i)
  BY DEF Grown, Objects
<1> QED BY <1>1, <1>2, <1>3 DEF GoodCandidate, Final

\* Who changes what is learnt.
LEMMA LearningMove ==
    ASSUME Next
    PROVE  UNCHANGED learningVars \/ \E t \in Curators : LessonStep(t)
BY DEF Next, Writer, Steward, Inferer, Ingester, Explorer, Registrar, Curator, Reader, Corrector, Requester

\* No lesson is one.
LEMMA NoLessonTyped == NoLesson \in Lesson
<1>1. NoLesson.draft \in Draft
  BY DEF NoLesson, Draft
<1> QED BY <1>1 DEF NoLesson, Lesson

\* No lesson promises nothing.
LEMMA NoLessonGood ==
    ASSUME NEW xs, NEW fs, NEW vs
    PROVE  NoLesson \in Lesson /\ GoodLesson(NoLesson, xs, fs, vs)
BY NoLessonTyped DEF NoLesson, GoodLesson

\* An example is only added by the call that inserts it.
LEMMA ExamplesStay ==
    ASSUME TypeOK, Learnt, NEW t \in Curators, LessonStep(t)
    PROVE  /\ examples' \in Seq(Example) /\ Longer(examples, examples')
           /\ examples' # examples =>
                 /\ lesson[t].step = "insert" /\ UniqueExample(lesson[t].draft)
                 /\ examples' = Append(examples, lesson[t].draft)
<1>0. examples \in Seq(Example) /\ lesson \in [Curators -> Lesson] /\ versions \in Seq(Version)
  BY DEF TypeOK, LearningTypeOK, StoreTypeOK
<1>1. CASE examples' = examples
  BY <1>0, <1>1 DEF Longer
<1>2. CASE examples' # examples
  <2> DEFINE d == lesson[t].draft
  <2>1. /\ lesson[t].step = "insert" /\ UniqueExample(d) /\ examples' = Append(examples, d)
    BY <1>2 DEF LessonStep, StartCorrection, FindPredecessor, CheckPredecessor, InsertExample, StartFeedback,
                StartPromotion, CheckActive, ContinueIf, Begin, RecordFeedback, CheckFeedback, CheckCatalog,
                InsertCandidate, StartDecision, InsertReview, learningVars
  <2>2. d \in Draft /\ d.question \in Questions /\ d.version # 0 /\ d.revision # 0
    <3>1. lesson[t] \in Lesson /\ GoodLesson(lesson[t], examples, feedback, versions)
      BY <1>0 DEF Learnt
    <3>2. d \in Draft
      BY <3>1 DEF Lesson
    <3>3. /\ d.question \in Questions /\ d.version # 0
          /\ d.supersedes = 0 => d.revision = 1
          /\ d.supersedes # 0 => /\ d.supersedes \in 1..Len(examples)
                                 /\ d.revision = examples[d.supersedes].revision + 1
      BY <2>1, <3>1 DEF GoodLesson
    <3>4. d.supersedes # 0 => examples[d.supersedes] \in Example
      BY <1>0, <3>3
    <3> QED BY <3>2, <3>3, <3>4 DEF Example
  <2>3. d \in Example
    BY <2>2 DEF Draft, Example
  <2> HIDE DEF d
  <2> QED BY <1>0, <2>1, <2>3 DEF Longer, d
<1> QED BY <1>1, <1>2

\* Feedback is final.
LEMMA FeedbackStays ==
    ASSUME TypeOK, Learnt, NEW t \in Curators, LessonStep(t)
    PROVE  feedback' \in [Requests -> Feedback] /\ Final(feedback, feedback')
<1>0. feedback \in [Requests -> Feedback] /\ lesson \in [Curators -> Lesson]
  BY DEF TypeOK, LearningTypeOK
<1>1. CASE UNCHANGED feedback
  BY <1>0, <1>1 DEF Final
<1>2. CASE RecordFeedback(t)
  <2>1. lesson[t].outcome \in {"none", "accepted", "rejected", "corrected"} /\ lesson[t].example \in Nat
    BY <1>0 DEF Lesson
  <2>2. [outcome |-> lesson[t].outcome, example |-> lesson[t].example] \in Feedback
    BY <2>1 DEF Feedback
  <2>3. lesson[t].draft.request \in Requests
    BY <1>2 DEF Learnt, GoodLesson, RecordFeedback
  <2> QED BY <1>0, <1>2, <2>2, <2>3 DEF RecordFeedback, Final
<1> QED BY <1>1, <1>2 DEF LessonStep, StartCorrection, FindPredecessor, CheckPredecessor, InsertExample, StartFeedback,
                StartPromotion, CheckActive, ContinueIf, Begin, CheckFeedback, CheckCatalog,
                InsertCandidate, StartDecision, InsertReview, learningVars

-----------------------------------------------------------------------------
(* Lessons.                                                                *)

\* Lessons carry on with what they have found out.
LEMMA LessonsStay ==
    ASSUME TypeOK, Sound, Learnt, Next, NEW t \in Curators, LessonStep(t)
    PROVE  /\ lesson' \in [Curators -> Lesson]
           /\ \A u \in Curators : GoodLesson(lesson'[u], examples', feedback', versions')
<1>0. /\ examples \in Seq(Example) /\ lesson \in [Curators -> Lesson] /\ feedback \in [Requests -> Feedback]
      /\ versions \in Seq(Version) /\ view \in [Threads -> View] /\ t \in Threads
      /\ GoodView(view[t], versions) /\ candidates \subseteq Candidate
      /\ examples' \in Seq(Example) /\ Longer(examples, examples')
      /\ feedback' \in [Requests -> Feedback] /\ Final(feedback, feedback')
      /\ versions' \in Seq(Version) /\ Grown(versions, versions')
  BY CuratorAssumption, ExamplesStay, FeedbackStays, VersionsGrow DEF TypeOK, LearningTypeOK, StoreTypeOK, Sound
<1>1. \A u \in Curators : /\ GoodLesson(lesson[u], examples, feedback, versions)
                          /\ GoodLesson(lesson[u], examples', feedback', versions')
  BY <1>0, LessonKept DEF Learnt
<1>2. SUFFICES \/ UNCHANGED lesson
               \/ \E l \in Lesson : /\ lesson' = [lesson EXCEPT ![t] = l]
                                    /\ GoodLesson(l, examples', feedback', versions')
  BY <1>0, <1>1
<1> DEFINE old == lesson[t]
           Goal == \E l \in Lesson : /\ lesson' = [lesson EXCEPT ![t] = l]
                                     /\ GoodLesson(l, examples', feedback', versions')
<1>3. /\ old \in Lesson /\ old.draft \in Draft /\ old.example \in Nat
      /\ GoodLesson(old, examples, feedback, versions) /\ GoodLesson(old, examples', feedback', versions')
  BY <1>0, <1>1 DEF Lesson
<1>k. \A l \in Lesson : GoodLesson(l, examples, feedback, versions) => GoodLesson(l, examples', feedback', versions')
  BY <1>0, LessonKept
<1>4. CASE GiveUp(t)
  BY <1>4, NoLessonGood DEF GiveUp
<1>5. CASE StartCorrection(t)
  <2>1. PICK q \in Questions, refs \in Corrections, r \in Requests \cup {NoRequest}, x \in 0..Len(examples) :
          lesson' = [lesson EXCEPT ![t] =
             [NoLesson EXCEPT !.step = "looking",
                      !.draft = [@ EXCEPT !.question = q, !.refs = refs, !.request = r,
                                          !.supersedes = x]]]
    <3>1. PICK l \in Submissions : lesson' = [lesson EXCEPT ![t] = l]
      BY <1>5 DEF StartCorrection, Begin
    <3>2. PICK q \in Questions, refs \in Corrections, r \in Requests \cup {NoRequest}, x \in 0..Len(examples) :
            l = [NoLesson EXCEPT !.step = "looking",
                      !.draft = [@ EXCEPT !.question = q, !.refs = refs, !.request = r, !.supersedes = x]]
      <4>1. \E q \in Questions, refs \in Corrections, r \in Requests \cup {NoRequest}, x \in 0..Len(examples) :
               l = Submission(q, refs, r, x)
        BY <3>1 DEF Submissions
      <4> QED BY <4>1 DEF Submission
    <3> QED BY <3>1, <3>2
  <2> DEFINE d == [NoLesson.draft EXCEPT !.question = q, !.refs = refs, !.request = r, !.supersedes = x]
             l == [NoLesson EXCEPT !.step = "looking", !.draft = d]
  <2>2. d \in Draft /\ d.question = q
    <3>1. refs \in SUBSET References /\ x \in Nat
      BY <1>0, CuratorAssumption
    <3>2. NoLesson.draft \in Draft
      BY DEF NoLesson, Draft
    <3> QED BY <3>1, <3>2 DEF Draft
  <2> HIDE DEF d
  <2>3. l \in Lesson /\ GoodLesson(l, examples', feedback', versions')
    BY <2>2 DEF NoLesson, Lesson, GoodLesson
  <2>4. lesson' = [lesson EXCEPT ![t] = l]
    BY <2>1 DEF d, NoLesson
  <2> QED BY <2>3, <2>4
<1>6. CASE FindPredecessor(t)
  <2> DEFINE d == old.draft
             e == [d EXCEPT !.version = view[t].version, !.revision = NextRevision(d)]
             l == [old EXCEPT !.step = "store", !.draft = e]
  <2>1. /\ old.step = "looking" /\ UNCHANGED examples /\ UNCHANGED versions
        /\ \/ GiveUp(t)
           \/ /\ lesson' = [lesson EXCEPT ![t] = l] /\ ValidSql(t)
              /\ \/ d.supersedes = 0
                 \/ d.supersedes \in Active /\ examples[d.supersedes].question = d.question
    BY <1>0, <1>6 DEF FindPredecessor
  <2>2. ASSUME ValidSql(t), \/ d.supersedes = 0
                            \/ d.supersedes \in Active /\ examples[d.supersedes].question = d.question
        PROVE  l \in Lesson /\ GoodLesson(l, examples', feedback', versions')
    <3>1. /\ view[t].version \in 1..Len(versions) /\ view[t].version \in Nat
          /\ d.refs \subseteq Objects(versions, view[t].version)
      BY <1>0, <2>2 DEF ValidSql, GoodView, View
    <3>2. d.supersedes # 0 => /\ d.supersedes \in 1..Len(examples)
                              /\ examples[d.supersedes].question = d.question
                              /\ examples[d.supersedes] \in Example
      BY <1>0, <2>2 DEF Active
    <3>3. /\ NextRevision(d) \in Nat
          /\ d.supersedes = 0 => NextRevision(d) = 1
          /\ d.supersedes # 0 => NextRevision(d) = examples[d.supersedes].revision + 1
      BY <3>2 DEF NextRevision, Example
    <3> HIDE DEF d
    <3>5. d.question \in Questions /\ d \in Draft
      BY <1>3, <2>1 DEF GoodLesson, d
    <3>4. /\ e \in Draft /\ e.question = d.question /\ e.refs = d.refs /\ e.supersedes = d.supersedes
          /\ e.version = view[t].version /\ e.revision = NextRevision(d)
      BY <3>1, <3>3, <3>5 DEF Draft
    <3> HIDE DEF e
    <3>6. l \in Lesson /\ l.step = "store" /\ l.draft = e
      BY <1>3, <3>4 DEF Lesson
    <3> QED BY <2>1, <3>1, <3>2, <3>3, <3>4, <3>5, <3>6 DEF GoodLesson
  <2> HIDE DEF l
  <2> QED BY <1>4, <2>1, <2>2
<1>7. ASSUME NEW step \in {"insert", "record", "earn", "fit"}, lesson' = [lesson EXCEPT ![t].step = step],
             step = "insert" => old.step = "store",
             step = "record" => old.draft.request \in Requests,
             step = "earn" => old.example \in 1..Len(examples) /\ examples[old.example].request \in Requests,
             step = "fit" => old.step = "earn" /\ Earned(old.example)
      PROVE  Goal
  <2> DEFINE l == [old EXCEPT !.step = step]
  <2>0. step \in {"insert", "record", "earn", "fit"}
    OBVIOUS
  <2>1. l \in Lesson /\ lesson' = [lesson EXCEPT ![t] = l]
    BY <1>0, <1>3, <1>7 DEF Lesson
  <2>2. GoodLesson(l, examples, feedback, versions)
    BY <1>3, <1>7 DEF GoodLesson, Lesson, Earned
  <2>3. GoodLesson(l, examples', feedback', versions')
    BY <1>k, <2>1, <2>2
  <2> QED BY <2>1, <2>3
<1>8. CASE CheckPredecessor(t)
  BY <1>4, <1>7, <1>8 DEF CheckPredecessor
<1>9. CASE InsertExample(t)
  BY <1>4, <1>9 DEF InsertExample
<1>10. ASSUME NEW r \in Requests, NEW x \in Nat, NEW o \in {"accepted", "rejected", "corrected"},
              NEW step \in {"record", "active"}, x \in 1..Len(examples) \/ step = "record",
              lesson' = [lesson EXCEPT ![t] = About(r, x, o, step)]
       PROVE  Goal
  <2> DEFINE d == [NoLesson.draft EXCEPT !.request = r]
             l == [NoLesson EXCEPT !.step = step, !.draft = d, !.example = x, !.outcome = o]
  <2>1. d \in Draft /\ d.request = r
    BY DEF NoLesson, Draft
  <2> HIDE DEF d
  <2>2. l \in Lesson /\ l.step = step /\ l.draft = d /\ l.example = x /\ l.outcome = o
    BY <2>1 DEF NoLesson, Lesson
  <2>3. l = About(r, x, o, step)
    BY DEF d, About, NoLesson
  <2> HIDE DEF l
  <2>4. GoodLesson(l, examples, feedback, versions)
    BY <1>10, <2>1, <2>2 DEF GoodLesson
  <2>5. GoodLesson(l, examples', feedback', versions')
    BY <1>k, <2>2, <2>4
  <2> QED BY <1>10, <2>2, <2>3, <2>5
<1>11. CASE StartFeedback(t)
  <2>1. \/ \E r \in Requests, o \in {"accepted", "rejected"} : lesson' = [lesson EXCEPT ![t] = About(r, 0, o, "record")]
        \/ \E r \in Requests, x \in DOMAIN examples : lesson' = [lesson EXCEPT ![t] = About(r, x, "corrected", "active")]
    <3>1. PICK l \in Verdicts : lesson' = [lesson EXCEPT ![t] = l]
      BY <1>11 DEF StartFeedback, Begin
    <3>2. \/ \E r \in Requests, o \in {"accepted", "rejected"} : l = About(r, 0, o, "record")
          \/ \E r \in Requests, x \in DOMAIN examples : l = About(r, x, "corrected", "active")
      BY <3>1 DEF Verdicts
    <3> QED BY <3>1, <3>2
  <2> QED BY <1>0, <1>10, <2>1
<1>12. CASE StartPromotion(t)
  <2>1. PICK x \in DOMAIN examples : lesson' = [lesson EXCEPT ![t] = [NoLesson EXCEPT !.step = "active", !.example = x]]
    BY <1>12 DEF StartPromotion, Begin, Promotions
  <2> DEFINE l == [NoLesson EXCEPT !.step = "active", !.example = x]
  <2>2. /\ l \in Lesson /\ x \in 1..Len(examples)
        /\ l.step = "active" /\ l.example = x /\ l.outcome = "none"
    <3>1. NoLesson \in Lesson /\ x \in 1..Len(examples) /\ x \in Nat
      BY <1>0, NoLessonTyped
    <3> QED BY <3>1 DEF Lesson, NoLesson
  <2> HIDE DEF l
  <2>3. GoodLesson(l, examples, feedback, versions)
    BY <2>2 DEF GoodLesson
  <2> QED BY <1>k, <2>1, <2>2, <2>3 DEF l
<1>13. CASE CheckActive(t)
  <2>1. CASE old.outcome = "corrected" /\ lesson' = [lesson EXCEPT ![t].step = "record"]
    BY <1>3, <1>7, <1>13, <2>1 DEF CheckActive, GoodLesson
  <2>2. CASE /\ old.example \in Active /\ examples[old.example].request # NoRequest
             /\ lesson' = [lesson EXCEPT ![t].step = "earn"]
    <3>1. old.example \in 1..Len(examples) /\ examples[old.example] \in Example
      BY <1>0, <2>2 DEF Active
    <3> QED BY <1>7, <2>2, <3>1 DEF Example
  <2> QED BY <1>4, <1>13, <2>1, <2>2 DEF CheckActive, ContinueIf
<1>14. CASE RecordFeedback(t)
  BY <1>4, <1>14 DEF RecordFeedback
<1>15. CASE CheckFeedback(t)
  BY <1>4, <1>7, <1>15 DEF CheckFeedback
<1>16. CASE CheckCatalog(t)
  <2> DEFINE e == [old.draft EXCEPT !.version = view[t].version]
             l == [old EXCEPT !.step = "propose", !.draft = e]
  <2>1. /\ old.step = "fit" /\ UNCHANGED <<examples, feedback, versions>>
        /\ \/ GiveUp(t)
           \/ /\ lesson' = [lesson EXCEPT ![t] = l] /\ view[t].step = "ready"
              /\ examples[old.example].refs \subseteq view[t].refs
    BY <1>0, <1>16 DEF CheckCatalog
  <2>2. ASSUME view[t].step = "ready", examples[old.example].refs \subseteq view[t].refs
        PROVE  l \in Lesson /\ GoodLesson(l, examples', feedback', versions')
    <3>1. /\ view[t].version \in 1..Len(versions) /\ view[t].version \in Nat
          /\ examples[old.example].refs \subseteq Objects(versions, view[t].version)
      BY <1>0, <2>2 DEF GoodView, View
    <3>2. e \in Draft /\ e.version = view[t].version
      BY <1>3, <3>1 DEF Draft
    <3> HIDE DEF e
    <3>3. l \in Lesson /\ l.step = "propose" /\ l.draft = e /\ l.example = old.example
      BY <1>3, <3>2 DEF Lesson, l
    <3> HIDE DEF l
    <3> QED BY <1>3, <2>1, <3>1, <3>2, <3>3 DEF GoodLesson
  <2> HIDE DEF l
  <2> QED BY <1>4, <2>1, <2>2
<1>17. CASE InsertCandidate(t)
  BY <1>4, <1>17 DEF InsertCandidate
<1>18. CASE StartDecision(t)
  <2>1. PICK c \in candidates, o \in {"approved", "rejected"} :
           lesson' = [lesson EXCEPT ![t] = [NoLesson EXCEPT !.step = "review", !.example = c.example, !.decision = o]]
    <3>1. PICK l \in Decisions : lesson' = [lesson EXCEPT ![t] = l]
      BY <1>18 DEF StartDecision, Begin
    <3>2. \E c \in candidates, o \in {"approved", "rejected"} :
             l = [NoLesson EXCEPT !.step = "review", !.example = c.example, !.decision = o]
      <4>1. \E c \in candidates, o \in {"approved", "rejected"} : l = Decision(c.example, o)
        BY <3>1 DEF Decisions
      <4> QED BY <4>1 DEF Decision
    <3> QED BY <3>1, <3>2
  <2> DEFINE l == [NoLesson EXCEPT !.step = "review", !.example = c.example, !.decision = o]
  <2>2. c.example \in Nat
    BY <1>0 DEF Candidate
  <2>3. l \in Lesson /\ l.step = "review" /\ l.decision = o
    BY <2>2, NoLessonGood DEF Lesson, NoLesson
  <2> HIDE DEF l
  <2>4. GoodLesson(l, examples', feedback', versions')
    BY <2>3 DEF GoodLesson
  <2> QED BY <2>1, <2>3, <2>4 DEF l
<1>19. CASE InsertReview(t)
  BY <1>4, <1>19 DEF InsertReview
<1>20. CASE UNCHANGED learningVars
  BY <1>20 DEF learningVars
<1> QED BY <1>5, <1>6, <1>8, <1>9, <1>11, <1>12, <1>13, <1>14, <1>15, <1>16, <1>17, <1>18, <1>19, <1>20 DEF LessonStep

-----------------------------------------------------------------------------
(* Chains, candidates and reviews.                                         *)

\* An example that its indexes let in keeps one chain per question.
LEMMA ChainsStay ==
    ASSUME TypeOK, Learnt, NEW t \in Curators, LessonStep(t)
    PROVE  /\ OneActiveExample'
           /\ \A x \in DOMAIN examples' : \E r \in DOMAIN examples' :
                 examples'[r].question = examples'[x].question /\ examples'[r].supersedes = 0
<1>0. examples \in Seq(Example) /\ lesson \in [Curators -> Lesson] /\ examples' \in Seq(Example)
  BY ExamplesStay DEF TypeOK, LearningTypeOK
<1>1. CASE examples' = examples
  <2>1. OneActiveExample /\ Active' = Active
    BY <1>1 DEF Learnt, Active, Superseded
  <2> QED BY <1>1, <2>1 DEF Learnt, OneActiveExample
<1>2. CASE examples' # examples
  <2> DEFINE d == lesson[t].draft
             n == Len(examples) + 1
  <2>1. /\ lesson[t].step = "insert" /\ UniqueExample(d) /\ examples' = Append(examples, d)
    BY <1>2, ExamplesStay
  <2>2. /\ d.supersedes = 0 => d.revision = 1
        /\ d.supersedes # 0 => /\ d.supersedes \in 1..Len(examples)
                               /\ examples[d.supersedes].question = d.question
                               /\ d.revision = examples[d.supersedes].revision + 1
    BY <2>1 DEF Learnt, GoodLesson
  <2> HIDE DEF d
  <2>3. /\ DOMAIN examples = 1..(n - 1) /\ DOMAIN examples' = 1..n /\ n \in Nat \ {0}
        /\ \A x \in 1..(n - 1) : examples'[x] = examples[x]
        /\ examples'[n] = d
    BY <1>0, <2>1
  <2>4. /\ \A x, y \in Active : examples[x].question = examples[y].question => x = y
        /\ \A x \in 1..(n - 1) :
              IF examples[x].supersedes = 0 THEN examples[x].revision = 1
              ELSE /\ examples[x].supersedes \in 1..(x - 1)
                   /\ examples[examples[x].supersedes].question = examples[x].question
                   /\ examples[x].revision = examples[examples[x].supersedes].revision + 1
        /\ \A x \in 1..(n - 1) : \E r \in 1..(n - 1) :
              examples[r].question = examples[x].question /\ examples[r].supersedes = 0
    BY <2>3 DEF Learnt, OneActiveExample
  <2> HIDE DEF n
  <2>5. \A x \in 1..n :
              IF examples'[x].supersedes = 0 THEN examples'[x].revision = 1
              ELSE /\ examples'[x].supersedes \in 1..(x - 1)
                   /\ examples'[examples'[x].supersedes].question = examples'[x].question
                   /\ examples'[x].revision = examples'[examples'[x].supersedes].revision + 1
    <3>1. ASSUME NEW x \in 1..(n - 1)
          PROVE  IF examples'[x].supersedes = 0 THEN examples'[x].revision = 1
                 ELSE /\ examples'[x].supersedes \in 1..(x - 1)
                      /\ examples'[examples'[x].supersedes].question = examples'[x].question
                      /\ examples'[x].revision = examples'[examples'[x].supersedes].revision + 1
      <4>1. CASE examples[x].supersedes = 0
        BY <2>3, <2>4, <4>1
      <4>2. CASE examples[x].supersedes # 0
        <5> DEFINE p == examples[x].supersedes
        <5>1. /\ p \in 1..(x - 1) /\ examples[p].question = examples[x].question
              /\ examples[x].revision = examples[p].revision + 1
          BY <2>4, <4>2
        <5>2. p \in 1..(n - 1) /\ x \in Nat
          BY <2>3, <5>1
        <5>3. examples'[x] = examples[x] /\ examples'[p] = examples[p]
          BY <2>3, <5>2
        <5> QED BY <4>2, <5>1, <5>3
      <4> QED BY <4>1, <4>2
    <3>2. IF d.supersedes = 0 THEN d.revision = 1
          ELSE /\ d.supersedes \in 1..(n - 1)
               /\ examples'[d.supersedes].question = d.question
               /\ d.revision = examples'[d.supersedes].revision + 1
      BY <2>2, <2>3 DEF n
    <3> QED BY <2>3, <3>1, <3>2
  <2>6. \A x \in 1..n : \E r \in 1..n :
              examples'[r].question = examples'[x].question /\ examples'[r].supersedes = 0
    <3>1. ASSUME NEW x \in 1..(n - 1)
          PROVE  \E r \in 1..n : examples'[r].question = examples'[x].question /\ examples'[r].supersedes = 0
      <4>1. PICK r \in 1..(n - 1) : examples[r].question = examples[x].question /\ examples[r].supersedes = 0
        BY <2>4
      <4>2. r \in 1..n /\ examples'[r] = examples[r] /\ examples'[x] = examples[x]
        BY <2>3
      <4> QED BY <4>1, <4>2
    <3>2. CASE d.supersedes = 0
      BY <2>3, <3>1, <3>2
    <3>3. CASE d.supersedes # 0
      <4>1. d.supersedes \in 1..(n - 1) /\ examples'[d.supersedes].question = d.question
        BY <2>2, <2>3, <3>3 DEF n
      <4> QED BY <2>3, <3>1, <4>1
    <3> QED BY <3>2, <3>3
  <2>7. \A x, y \in Active' : examples'[x].question = examples'[y].question => x = y
    <3>1. Active' = {x \in 1..n : \A y \in 1..n : examples'[y].supersedes # x}
      BY <2>3 DEF Active, Superseded
    <3>2. Active = {x \in 1..(n - 1) : \A y \in 1..(n - 1) : examples[y].supersedes # x}
      BY <2>3 DEF Active, Superseded
    <3>3. \A x \in Active' : x = n \/ (x \in Active /\ x \in 1..(n - 1) /\ x # d.supersedes)
      BY <2>3, <3>1, <3>2
    <3>4. ASSUME NEW x \in Active, x \in 1..(n - 1), x # d.supersedes, examples[x].question = d.question
          PROVE  FALSE
      <4>1. CASE d.supersedes = 0
        <5>1. PICK r \in 1..(n - 1) : examples[r].question = examples[x].question /\ examples[r].supersedes = 0
          BY <2>4, <3>4
        <5> QED BY <2>1, <2>3, <3>4, <4>1, <5>1 DEF UniqueExample
      <4>2. CASE d.supersedes # 0
        <5>1. d.supersedes \in Active
          BY <2>1, <2>2, <2>3, <3>2, <4>2 DEF UniqueExample, n
        <5> QED BY <2>2, <2>4, <3>4, <4>2, <5>1
      <4> QED BY <4>1, <4>2
    <3>5. \A x \in 1..(n - 1) : x \in Active /\ x # d.supersedes => examples'[x].question # examples'[n].question
      BY <2>3, <3>4
    <3>6. ASSUME NEW x \in Active', NEW y \in Active', examples'[x].question = examples'[y].question, x # y
          PROVE  FALSE
      <4>1. CASE x = n
        BY <3>3, <3>5, <3>6, <4>1
      <4>2. CASE y = n
        BY <3>3, <3>5, <3>6, <4>2
      <4>3. CASE x # n /\ y # n
        <5>1. /\ x \in Active /\ x \in 1..(n - 1) /\ y \in Active /\ y \in 1..(n - 1)
          BY <3>3, <3>6, <4>3
        <5>2. examples'[x] = examples[x] /\ examples'[y] = examples[y]
          BY <2>3, <5>1
        <5> QED BY <2>4, <3>6, <5>1, <5>2
      <4> QED BY <4>1, <4>2, <4>3
    <3> QED BY <3>6
  <2> QED BY <2>3, <2>5, <2>6, <2>7 DEF OneActiveExample
<1> QED BY <1>1, <1>2

\* A candidate is only written by a lesson that has earned it.
LEMMA CandidatesStay ==
    ASSUME TypeOK, Sound, Learnt, Next, NEW t \in Curators, LessonStep(t)
    PROVE  /\ candidates' \subseteq Candidate
           /\ \A c \in candidates' : GoodCandidate(c, examples', feedback', versions')
<1>0. /\ examples \in Seq(Example) /\ lesson \in [Curators -> Lesson] /\ feedback \in [Requests -> Feedback]
      /\ versions \in Seq(Version) /\ candidates \subseteq Candidate
      /\ examples' \in Seq(Example) /\ Longer(examples, examples')
      /\ feedback' \in [Requests -> Feedback] /\ Final(feedback, feedback')
      /\ versions' \in Seq(Version) /\ Grown(versions, versions')
  BY ExamplesStay, FeedbackStays, VersionsGrow DEF TypeOK, LearningTypeOK, StoreTypeOK
<1>1. \A c \in candidates : GoodCandidate(c, examples', feedback', versions')
  BY <1>0, CandidateKept DEF Learnt
<1>2. CASE UNCHANGED candidates
  BY <1>0, <1>1, <1>2
<1>3. CASE InsertCandidate(t)
  <2> DEFINE x == lesson[t].example
             c == [example |-> x, request |-> examples[x].request, version |-> lesson[t].draft.version]
  <2>1. /\ candidates' \subseteq candidates \cup {c}
        /\ examples' = examples /\ feedback' = feedback /\ versions' = versions
    BY <1>3 DEF InsertCandidate, storeVars
  <2>2. lesson[t] \in Lesson /\ GoodLesson(lesson[t], examples, feedback, versions) /\ lesson[t].step = "propose"
    BY <1>0, <1>3 DEF Learnt, InsertCandidate
  <2>3. /\ x \in 1..Len(examples) /\ examples[x].request \in Requests
        /\ feedback[examples[x].request] = [outcome |-> "corrected", example |-> x]
        /\ lesson[t].draft.version \in 1..Len(versions)
        /\ examples[x].refs \subseteq Objects(versions, lesson[t].draft.version)
    BY <2>2 DEF GoodLesson
  <2>4. c \in Candidate
    BY <1>0, <2>3 DEF Candidate
  <2>5. GoodCandidate(c, examples, feedback, versions)
    BY <2>3 DEF GoodCandidate
  <2> HIDE DEF c
  <2> QED BY <1>0, <1>1, <2>1, <2>4, <2>5
<1> QED BY <1>2, <1>3 DEF LessonStep, StartCorrection, FindPredecessor, CheckPredecessor, InsertExample,
              StartFeedback, StartPromotion, CheckActive, ContinueIf, Begin, RecordFeedback, CheckFeedback,
              CheckCatalog, StartDecision, InsertReview, learningVars

\* Reviews keep their types.
LEMMA ReviewsStay ==
    ASSUME TypeOK, Learnt, NEW t \in Curators, LessonStep(t)
    PROVE  reviews' \in [DOMAIN reviews' -> {"approved", "rejected"}]
<1>0. reviews \in [DOMAIN reviews -> {"approved", "rejected"}] /\ lesson \in [Curators -> Lesson]
  BY DEF TypeOK, LearningTypeOK
<1>1. CASE InsertReview(t)
  <2>1. lesson[t].decision \in {"approved", "rejected"}
    BY <1>0, <1>1 DEF Lesson, Learnt, GoodLesson, InsertReview
  <2> DEFINE x == lesson[t].example
             D == DOMAIN reviews \cup {x}
             f == [y \in D |-> IF y = x THEN lesson[t].decision ELSE reviews[y]]
  <2>2. f \in [D -> {"approved", "rejected"}] /\ DOMAIN f = D
    BY <1>0, <2>1
  <2>3. reviews' = reviews \/ reviews' = f
    BY <1>1 DEF InsertReview
  <2> HIDE DEF f, D
  <2> QED BY <1>0, <2>2, <2>3
<1>2. CASE UNCHANGED reviews
  BY <1>0, <1>2
<1> QED BY <1>1, <1>2 DEF LessonStep, StartCorrection, FindPredecessor, CheckPredecessor, InsertExample,
              StartFeedback, StartPromotion, CheckActive, ContinueIf, Begin, RecordFeedback, CheckFeedback,
              CheckCatalog, InsertCandidate, StartDecision, learningVars

\* The learning loop stays as it has to be.
LEMMA LearntStays ==
    ASSUME TypeOK, Sound, Learnt, Next
    PROVE  LearningTypeOK' /\ Learnt'
<1>1. CASE UNCHANGED learningVars
  <2>1. /\ examples' = examples /\ feedback' = feedback /\ candidates' = candidates
        /\ reviews' = reviews /\ lesson' = lesson
    BY <1>1 DEF learningVars
  <2>2. /\ examples \in Seq(Example) /\ lesson \in [Curators -> Lesson] /\ feedback \in [Requests -> Feedback]
        /\ versions \in Seq(Version) /\ candidates \subseteq Candidate
        /\ versions' \in Seq(Version) /\ Grown(versions, versions')
        /\ Longer(examples, examples) /\ Final(feedback, feedback)
    BY VersionsGrow DEF TypeOK, LearningTypeOK, StoreTypeOK, Longer, Final
  <2>3. \A t \in Curators : GoodLesson(lesson[t], examples, feedback, versions')
    BY <2>2, LessonKept DEF Learnt
  <2>4. \A c \in candidates : GoodCandidate(c, examples, feedback, versions')
    BY <2>2, CandidateKept DEF Learnt
  <2>5. LearningTypeOK'
    BY <2>1 DEF TypeOK, LearningTypeOK
  <2>6. OneActiveExample'
    BY <2>1 DEF Learnt, OneActiveExample, Active, Superseded
  <2> QED BY <2>1, <2>3, <2>4, <2>5, <2>6 DEF Learnt
<1>2. ASSUME NEW t \in Curators, LessonStep(t)
      PROVE  LearningTypeOK' /\ Learnt'
  BY <1>2, ExamplesStay, FeedbackStays, LessonsStay, ChainsStay, CandidatesStay, ReviewsStay
     DEF LearningTypeOK, Learnt
<1> QED BY <1>1, <1>2, LearningMove

-----------------------------------------------------------------------------
(* Orders and sequences.                                                   *)

\* A set of naturals has a least element.
LEMMA LeastOf ==
    ASSUME NEW T \in SUBSET Nat, T # {}
    PROVE  \E x \in T : \A y \in T : ~ (y < x)
<1>1. \E x \in T : \A y \in T : ~ (<<y, x>> \in OpToRel(<, Nat))
  BY WFMin, NatLessThanWellFounded
<1> QED BY <1>1 DEF OpToRel

\* How the elements of S follow one another.
Steps(S) == [Nat -> [S -> S]]

\* A sequence can be defined by its first element and its steps.
LEMMA Iterates ==
    ASSUME NEW S, NEW c \in S, NEW F \in Steps(S)
    PROVE  \E f \in [Nat -> S] : f[0] = c /\ \A n \in Nat \ {0} : f[n] = F[n][f[n - 1]]
<1> USE DEF Steps
<1> DEFINE App(n) == {g \in [0..n -> S] : g[0] = c /\ \A i \in 1..n : g[i] = F[i][g[i - 1]]}
<1>1. \A n \in Nat : App(n) # {}
  <2> SUFFICES ASSUME {n \in Nat : App(n) = {}} # {} PROVE FALSE
    OBVIOUS
  <2>1. PICK m \in Nat : App(m) = {} /\ \A k \in Nat : k < m => App(k) # {}
    <3> DEFINE T == {n \in Nat : App(n) = {}}
    <3>1. \E x \in T : \A y \in T : ~ (y < x)
      <4>1. T \in SUBSET Nat /\ T # {}
        OBVIOUS
      <4> HIDE DEF T
      <4> QED BY <4>1, LeastOf
    <3> QED BY <3>1
  <2>2. CASE m = 0
    <3>1. [i \in 0..0 |-> c] \in App(0)
      OBVIOUS
    <3> QED BY <2>1, <2>2, <3>1
  <2>3. CASE m # 0
    <3>1. m - 1 \in Nat /\ m - 1 < m
      BY <2>3
    <3>2. PICK g : g \in App(m - 1)
      BY <2>1, <3>1
    <3>3. /\ g \in [0..(m - 1) -> S] /\ g[0] = c
          /\ \A i \in 1..(m - 1) : g[i] = F[i][g[i - 1]]
      BY <3>2
    <3> DEFINE h == [i \in 0..m |-> IF i = m THEN F[m][g[m - 1]] ELSE g[i]]
    <3>4. F[m] \in [S -> S] /\ g[m - 1] \in S
      BY <3>1, <3>3
    <3>5. h \in [0..m -> S]
      BY <3>3, <3>4
    <3>6. h[0] = c
      BY <2>3, <3>3
    <3>7. \A i \in 1..m : h[i] = F[i][h[i - 1]]
      BY <3>1, <3>3
    <3> HIDE DEF h
    <3>8. h \in App(m)
      BY <3>5, <3>6, <3>7
    <3> QED BY <2>1, <3>8
  <2> QED BY <2>2, <2>3
<1>2. ASSUME NEW n \in Nat, NEW m \in Nat, NEW g \in App(n), NEW h \in App(m), NEW i \in Nat, i <= n, i <= m
      PROVE  g[i] = h[i]
  <2> SUFFICES ASSUME {j \in 0..i : g[j] # h[j]} # {} PROVE FALSE
    BY <1>2
  <2>1. PICK j \in 0..i : g[j] # h[j] /\ \A k \in 0..i : k < j => g[k] = h[k]
    <3> DEFINE T == {j \in 0..i : g[j] # h[j]}
    <3>1. \E x \in T : \A y \in T : ~ (y < x)
      <4>1. T \in SUBSET Nat /\ T # {}
        OBVIOUS
      <4> HIDE DEF T
      <4> QED BY <4>1, LeastOf
    <3> QED BY <3>1
  <2>2. /\ g[0] = c /\ \A k \in 1..n : g[k] = F[k][g[k - 1]]
        /\ h[0] = c /\ \A k \in 1..m : h[k] = F[k][h[k - 1]]
    OBVIOUS
  <2>3. j # 0
    BY <2>1, <2>2
  <2>4. j \in 1..n /\ j \in 1..m /\ j - 1 \in 0..i /\ j - 1 < j
    BY <1>2, <2>1, <2>3
  <2> QED BY <2>1, <2>2, <2>4
<1> DEFINE G(n) == CHOOSE g : g \in App(n)
           f == [n \in Nat |-> G(n)[n]]
<1>3. \A n \in Nat : G(n) \in App(n)
  <2> HIDE DEF App
  <2> QED BY <1>1
<1>4. \A n \in Nat : G(n) \in [0..n -> S] /\ G(n)[0] = c /\ \A i \in 1..n : G(n)[i] = F[i][G(n)[i - 1]]
  BY <1>3
<1>5. \A n \in Nat \ {0} : G(n)[n - 1] = G(n - 1)[n - 1]
  <2> HIDE DEF App, G
  <2> QED BY <1>2, <1>3
<1> HIDE DEF G
<1>6. f \in [Nat -> S] /\ f[0] = c
  BY <1>4
<1>7. ASSUME NEW n \in Nat \ {0}
      PROVE  f[n] = F[n][f[n - 1]]
  <2>1. /\ f[n] = G(n)[n] /\ f[n - 1] = G(n - 1)[n - 1]
        /\ G(n)[n] = F[n][G(n)[n - 1]] /\ G(n)[n - 1] = G(n - 1)[n - 1]
    BY <1>4, <1>5
  <2> QED BY <2>1
<1> HIDE DEF f
<1> QED BY <1>6, <1>7

\* What is chosen of S after each element of an order.
Choices(kept, order, S) ==
    /\ kept \in [Nat -> Seq(S)] /\ kept[0] = <<>>
    /\ \A n \in Nat \ {0} :
          kept[n] = IF order[n] \in S THEN Append(kept[n - 1], order[n]) ELSE kept[n - 1]

\* Among chooses element by element.
LEMMA AmongKept ==
    ASSUME NEW S, NEW order, Len(order) \in Nat
    PROVE  \E kept : Choices(kept, order, S) /\ Among(order, S) = kept[Len(order)]
<1> DEFINE Kept(g) == [n \in Nat |-> IF n = 0 THEN <<>>
                                     ELSE IF order[n] \in S THEN Append(g[n - 1], order[n])
                                     ELSE g[n - 1]]
           kept == CHOOSE g : g = Kept(g)
<1>1. \E g \in [Nat -> Seq(S)] : g = Kept(g)
  <2> DEFINE F == [n \in Nat |-> [s \in Seq(S) |-> IF order[n] \in S THEN Append(s, order[n]) ELSE s]]
  <2>1. F \in [Nat -> [Seq(S) -> Seq(S)]]
    OBVIOUS
  <2>2. <<>> \in Seq(S)
    OBVIOUS
  <2>3. PICK g \in [Nat -> Seq(S)] : g[0] = <<>> /\ \A n \in Nat \ {0} : g[n] = F[n][g[n - 1]]
    <3> DEFINE Q == Seq(S)
               e == <<>>
    <3>1. F \in Steps(Q) /\ e \in Q
      BY <2>1, <2>2 DEF Steps
    <3> HIDE DEF F, Q, e
    <3>2. \E g \in [Nat -> Q] : g[0] = e /\ \A n \in Nat \ {0} : g[n] = F[n][g[n - 1]]
      BY <3>1, Iterates
    <3> QED BY <3>2 DEF Q, e
  <2>4. \A n \in Nat : g[n] = Kept(g)[n]
    <3>1. \A n \in Nat \ {0} : n - 1 \in Nat /\ g[n - 1] \in Seq(S)
      OBVIOUS
    <3> QED BY <2>3, <3>1
  <2>5. g = Kept(g)
    BY <2>4
  <2> QED BY <2>5
<1>2. kept = Kept(kept)
  <2> HIDE DEF Kept
  <2> QED BY <1>1
<1>3. Among(order, S) = kept[Len(order)]
  BY DEF Among
<1> HIDE DEF kept
<1>4. /\ kept[0] = <<>>
      /\ \A n \in Nat \ {0} : kept[n] = IF order[n] \in S THEN Append(kept[n - 1], order[n]) ELSE kept[n - 1]
      /\ kept = [n \in Nat |-> kept[n]]
  BY <1>2
<1>5. \A n \in Nat : kept[n] \in Seq(S)
  <2> SUFFICES ASSUME {n \in Nat : kept[n] \notin Seq(S)} # {} PROVE FALSE
    OBVIOUS
  <2>1. PICK m \in Nat : kept[m] \notin Seq(S) /\ \A k \in Nat : k < m => kept[k] \in Seq(S)
    <3> DEFINE T == {n \in Nat : kept[n] \notin Seq(S)}
    <3>1. \E x \in T : \A y \in T : ~ (y < x)
      <4>1. T \in SUBSET Nat /\ T # {}
        OBVIOUS
      <4> HIDE DEF T
      <4> QED BY <4>1, LeastOf
    <3> QED BY <3>1
  <2>2. m # 0
    <3>1. <<>> \in Seq(S)
      OBVIOUS
    <3> QED BY <2>1, <1>4, <3>1
  <2>3. kept[m - 1] \in Seq(S)
    BY <2>1, <2>2
  <2>4. kept[m] = IF order[m] \in S THEN Append(kept[m - 1], order[m]) ELSE kept[m - 1]
    BY <1>4, <2>2
  <2> QED BY <2>1, <2>3, <2>4
<1>6. kept \in [Nat -> Seq(S)]
  BY <1>4, <1>5
<1>7. Choices(kept, order, S)
  BY <1>4, <1>6 DEF Choices
<1> QED BY <1>3, <1>7

\* What is chosen is among what there is to choose from.
LEMMA AmongTyped ==
    ASSUME NEW S, NEW order, Len(order) \in Nat
    PROVE  Among(order, S) \in Seq(S)
<1>1. PICK kept : Choices(kept, order, S) /\ Among(order, S) = kept[Len(order)]
  BY AmongKept
<1> QED BY <1>1 DEF Choices

-----------------------------------------------------------------------------
(* What a built context is.                                                *)

\* A context lies within its version, and nothing in it speaks of what is not.
HangsTogether(c, xs, vs) ==
    /\ c.version \in 1..Len(vs)
    /\ c.tables \subseteq vs[c.version].tables /\ c.columns \subseteq vs[c.version].columns
    /\ c.links \subseteq vs[c.version].links
    /\ TablesOf(c.columns) \subseteq c.tables
    /\ \A l \in c.links : l[1] \in c.tables /\ l[2] \in c.tables
    /\ \A m \in c.metrics : {k \in Deps(m) : KindOf[k] = "rule"} \subseteq KeysOf(c.rules)
    /\ \A m \in c.concepts \cup c.metrics \cup c.rules : Refs(m) \subseteq c.tables \cup c.columns
    /\ \A x \in c.examples : x \in 1..Len(xs) /\ xs[x].refs \subseteq c.tables \cup c.columns

\* What matched and has its columns among those read is in the context.
Whole(c, refs) == TablesOf(refs) \subseteq c.tables /\ refs \cap Columns \subseteq c.read.columns

\* What the question matched is in the context.
KeepsMatched(c, xs) ==
    /\ \A m \in c.read.concepts : Whole(c, Refs(m)) => m \in c.concepts
    /\ \A m \in c.read.rules : Whole(c, Refs(m)) => m \in c.rules
    /\ \A m \in c.read.metrics : HasRules(c.read, m) /\ Whole(c, Needed(c.read, m)) => m \in c.metrics
    /\ \A x \in c.read.examples : x \in 1..Len(xs) /\ (Whole(c, xs[x].refs) => x \in c.examples)

\* A built context hangs together and keeps what was matched.
GoodContext(c, xs, vs) == c.version # 0 => HangsTogether(c, xs, vs) /\ KeepsMatched(c, xs)

\* What a retrieval has read is of one version, which it is still looking at.
GoodReading(r, v, xs, vs) ==
    /\ r.step \in {"metrics", "rules", "objects", "examples", "links"} => r.version \in 1..Len(vs)
    /\ r.step \in {"metrics", "rules"} => v.step = "tables" /\ v.version = r.version
    /\ r.step = "objects" => v.step \in {"tables", "columns", "ready"} /\ v.version = r.version
    /\ r.step \in {"examples", "links"} =>
          r.tables \subseteq vs[r.version].tables /\ r.columns \subseteq vs[r.version].columns
    /\ r.examples \subseteq 1..Len(xs)

\* A sequence over a set is one over a larger set.
LEMMA SeqWider ==
    ASSUME NEW S, NEW T, S \subseteq T, NEW s \in Seq(S)
    PROVE  s \in Seq(T)
OBVIOUS

\* A prefix is a sequence over the same set.
LEMMA PrefixTyped ==
    ASSUME NEW S, NEW s \in Seq(S), NEW n \in Nat
    PROVE  Prefix(s, n) \in Seq(S)
BY DEF Prefix

\* Every order is a sequence over what it orders.
LEMMA OrdersTyped ==
    ASSUME NEW r \in Reading, NEW order \in Orders(r)
    PROVE  order \in Seq(Tables)
<1>1. Met(r) \subseteq Tables
  BY SchemaAssumption DEF Met, Reading
<1>2. Cardinality(Met(r)) \in Nat
  BY <1>1, FS_Subset, FS_CardinalityType, ReaderAssumption
<1>3. order \in [1..Cardinality(Met(r)) -> Met(r)]
  BY DEF Orders
<1> HIDE DEF Met
<1> QED BY <1>1, <1>2, <1>3

\* Every part of the seeds is made of tables.
LEMMA SeedsTyped ==
    ASSUME NEW r \in Reading, NEW order \in Orders(r), NEW first
    PROVE  Seeds(r, order, first) \in Seq(Tables)
<1> DEFINE Ordered(S) == Among(order, S \cap r.tables)
           Unseeded(s, S) == Ordered(S \ {s[i] : i \in DOMAIN s})
           Room(s) == MaxSeeds - Len(s)
           concept == Ordered(TablesOf(RefsOfAll(r.concepts)))
           analytic == Unseeded(concept, TablesOf(RefsOfAll(r.metrics \cup r.rules)))
           governed == Prefix(concept \o analytic, MaxSeeds)
           asked == IF Room(governed) > 0 THEN r.examples ELSE first
           example == governed \o Prefix(Unseeded(governed, ExampleRefs(asked)),
                                         IF Room(governed) > 0 THEN Room(governed) ELSE 1)
           lexical == r.ask.tables \cup TablesOf((r.ask.columns \cap r.columns) \cup r.described)
           last == IF Room(example) > 0 THEN Prefix(Unseeded(example, lexical), Room(example))
                   ELSE Among(Prefix(Ordered(lexical), 1), lexical \ {example[i] : i \in DOMAIN example})
<1>0. MaxSeeds \in Nat /\ r.tables \subseteq Tables /\ Len(order) \in Nat
  BY ReaderAssumption, OrdersTyped DEF Reading
<1>1. \A S : Ordered(S) \in Seq(Tables)
  <2> TAKE S
  <2>1. Ordered(S) \in Seq(S \cap r.tables)
    BY <1>0, AmongTyped
  <2> HIDE DEF Ordered
  <2> QED BY <1>0, <2>1, SeqWider
<1> HIDE DEF Ordered
<1>2. concept \in Seq(Tables) /\ analytic \in Seq(Tables)
  BY <1>1
<1> HIDE DEF concept, analytic
<1>3. governed \in Seq(Tables)
  <2>1. concept \o analytic \in Seq(Tables)
    BY <1>2
  <2> QED BY <1>0, <2>1, PrefixTyped
<1> HIDE DEF governed
<1>4. example \in Seq(Tables)
  <2>1. Len(governed) \in Nat
    BY <1>3
  <2>2. (IF Room(governed) > 0 THEN Room(governed) ELSE 1) \in Nat
    BY <1>0, <2>1
  <2>3. Unseeded(governed, ExampleRefs(asked)) \in Seq(Tables)
    BY <1>1
  <2>4. Prefix(Unseeded(governed, ExampleRefs(asked)), IF Room(governed) > 0 THEN Room(governed) ELSE 1) \in Seq(Tables)
    <3> HIDE DEF Unseeded, Room
    <3> QED BY <2>2, <2>3, PrefixTyped
  <2> QED BY <1>3, <2>4
<1> HIDE DEF example
<1>5. last \in Seq(Tables)
  <2>1. Len(example) \in Nat
    BY <1>4
  <2>2. CASE Room(example) > 0
    <3>1. Room(example) \in Nat
      BY <1>0, <2>1, <2>2
    <3>2. Unseeded(example, lexical) \in Seq(Tables)
      BY <1>1
    <3> HIDE DEF Unseeded, Room
    <3> QED BY <2>2, <3>1, <3>2, PrefixTyped
  <2>3. CASE ~ (Room(example) > 0)
    <3> DEFINE some == Prefix(Ordered(lexical), 1)
               rest == lexical \ {example[i] : i \in DOMAIN example}
    <3>1. Ordered(lexical) \in Seq(Tables) /\ 1 \in Nat
      BY <1>1
    <3>2. some \in Seq(Tables)
      BY <3>1, PrefixTyped
    <3>3. rest \subseteq Tables
      BY SchemaAssumption DEF Reading, TablesOf, Query
    <3> HIDE DEF some, rest
    <3>4. Among(some, rest) \in Seq(rest)
      <4>1. Len(some) \in Nat
        BY <3>2
      <4> QED BY <4>1, AmongTyped
    <3>5. Among(some, rest) \in Seq(Tables)
      BY <3>3, <3>4, SeqWider
    <3> QED BY <2>3, <3>5 DEF some, rest
  <2> QED BY <2>2, <2>3
<1>6. Seeds(r, order, first) = example \o last
  BY DEF Seeds, example, governed, concept, analytic, Ordered
<1> HIDE DEF last
<1> QED BY <1>4, <1>5, <1>6

-----------------------------------------------------------------------------
(* The context selected.                                                   *)

\* Columns are kept of the tables selected alone, and essential ones whatever the target.
LEMMA ColumnsKept ==
    ASSUME NEW r \in Reading, NEW x, NEW links
    PROVE  /\ KeptColumns(r, x, links) \subseteq {c \in r.columns : TableOf[c] = x}
           /\ {c \in r.columns : TableOf[c] = x} \cap Essential(r, links) \subseteq KeptColumns(r, x, links)
BY DEF KeptColumns

\* What is essential, part by part.
LEMMA EssentialParts ==
    ASSUME NEW r, NEW links
    PROVE  /\ ExampleRefs(r.examples) \subseteq Essential(r, links)
           /\ RefsOfAll(r.concepts \cup r.metrics \cup r.rules) \subseteq Essential(r, links)
BY DEF Essential

\* What is whole is inside.
LEMMA WholeInside ==
    ASSUME NEW refs \in SUBSET References, NEW ts \in SUBSET Tables, NEW cs, NEW rs \in SUBSET Columns,
           \A c \in refs \cap rs : TableOf[c] \in ts => c \in cs,
           TablesOf(refs) \subseteq ts, refs \cap Columns \subseteq rs
    PROVE  Inside(refs, ts, cs)
BY DEF Inside, TablesOf, References

\* The context selected of what was read hangs together and keeps what was matched.
LEMMA SelectedGood ==
    ASSUME NEW r \in Reading, NEW order \in Orders(r), NEW first, versions \in Seq(Version), examples \in Seq(Example),
           r.version \in 1..Len(versions), r.tables \subseteq versions[r.version].tables,
           r.columns \subseteq versions[r.version].columns, r.links \subseteq versions[r.version].links,
           r.examples \subseteq 1..Len(examples), Selected(r, order, first).tables \subseteq r.tables
    PROVE  Selected(r, order, first) \in Context /\ GoodContext(Selected(r, order, first), examples, versions)
<1> DEFINE seeds == Prefix(Seeds(r, order, first), MaxObjects)
           tables == Expansion(seeds, r.links, order)
           inside == {l \in r.links : l[1] \in tables /\ l[2] \in tables}
           columns == UNION {KeptColumns(r, x, inside) : x \in tables}
           c == Selected(r, order, first)
<1>1. /\ c.version = r.version /\ c.seeds = {seeds[i] : i \in DOMAIN seeds} /\ c.tables = tables
      /\ c.columns = columns /\ c.links = inside /\ c.read = r
      /\ c.concepts = {m \in r.concepts : Inside(Refs(m), tables, columns)}
      /\ c.metrics = {m \in r.metrics : HasRules(r, m) /\ Inside(Needed(r, m), tables, columns)}
      /\ c.rules = {m \in r.rules : Inside(Refs(m), tables, columns)}
      /\ c.examples = {x \in r.examples : Inside(examples[x].refs, tables, columns)}
      /\ c = [version |-> c.version, seeds |-> c.seeds, tables |-> c.tables, columns |-> c.columns,
              links |-> c.links, concepts |-> c.concepts, metrics |-> c.metrics, rules |-> c.rules,
              examples |-> c.examples, read |-> c.read]
  BY DEF Selected, WholeMeaning, WholeMetrics, WholeExamples
<1>2. seeds \in Seq(Tables)
  <2>1. MaxObjects \in Nat
    BY ReaderAssumption
  <2> QED BY <2>1, SeedsTyped, PrefixTyped
<1>3. c.seeds \subseteq Tables
  BY <1>1, <1>2
<1> HIDE DEF seeds, tables, c
<1>4. tables \subseteq r.tables /\ tables \subseteq Tables
  BY <1>1 DEF Reading, c
<1>5. /\ \A x \in columns : x \in r.columns /\ TableOf[x] \in tables
      /\ columns \subseteq Columns
  <2>1. \A x \in tables : KeptColumns(r, x, inside) \subseteq {k \in r.columns : TableOf[k] = x}
    BY ColumnsKept
  <2>2. r.columns \subseteq Columns
    BY DEF Reading
  <2>3. ASSUME NEW x \in columns
        PROVE  x \in r.columns /\ TableOf[x] \in tables
    <3>1. PICK y \in tables : x \in KeptColumns(r, y, inside)
      OBVIOUS
    <3> QED BY <2>1, <3>1
  <2> QED BY <2>2, <2>3
<1>6. \A k \in r.columns \cap Essential(r, inside) : TableOf[k] \in tables => k \in columns
  <2>1. \A x \in tables : {k \in r.columns : TableOf[k] = x} \cap Essential(r, inside) \subseteq KeptColumns(r, x, inside)
    BY ColumnsKept
  <2> QED BY <2>1
<1> HIDE DEF columns
<1>7. inside \subseteq r.links /\ \A l \in inside : l[1] \in tables /\ l[2] \in tables
  OBVIOUS
<1> HIDE DEF inside
<1>8. c \in Context
  <2>1. r.version \in Nat /\ r.links \subseteq Links /\ r.examples \subseteq Nat
        /\ r.concepts \subseteq Definition /\ r.metrics \subseteq Definition /\ r.rules \subseteq Definition
    BY DEF Reading
  <2>2. /\ c.version \in Nat /\ c.tables \subseteq Tables /\ c.columns \subseteq Columns /\ c.links \subseteq Links
        /\ c.concepts \subseteq Definition /\ c.metrics \subseteq Definition /\ c.rules \subseteq Definition
        /\ c.examples \subseteq Nat /\ c.read \in Reading
    BY <1>1, <1>4, <1>5, <1>7, <2>1
  <2> QED BY <1>1, <1>3, <2>2 DEF Context
<1>9. HangsTogether(c, examples, versions)
  <2>1. c.links \subseteq versions[r.version].links /\ \A l \in c.links : l[1] \in c.tables /\ l[2] \in c.tables
    BY <1>1, <1>7
  <2>2. c.tables \subseteq versions[r.version].tables /\ c.columns \subseteq versions[r.version].columns
    BY <1>1, <1>4, <1>5
  <2>3. TablesOf(c.columns) \subseteq c.tables
    BY <1>1, <1>5, SchemaAssumption DEF TablesOf
  <2>4. \A m \in c.metrics : {k \in Deps(m) : KindOf[k] = "rule"} \subseteq KeysOf(c.rules)
    <3> SUFFICES ASSUME NEW m \in c.metrics, NEW k \in Deps(m), KindOf[k] = "rule"
                 PROVE  k \in KeysOf(c.rules)
      OBVIOUS
    <3>1. HasRules(r, m) /\ Inside(Needed(r, m), tables, columns)
      BY <1>1
    <3>2. PICK o \in r.rules : o[1] = k
      BY <3>1 DEF HasRules, KeysOf
    <3>3. Refs(o) \subseteq Needed(r, m)
      BY <3>2 DEF Needed, RefsOfAll
    <3>4. Inside(Refs(o), tables, columns)
      BY <3>1, <3>3 DEF Inside
    <3> QED BY <1>1, <3>2, <3>4 DEF KeysOf
  <2>5. \A m \in c.concepts \cup c.rules : Refs(m) \subseteq c.tables \cup c.columns
    BY <1>1 DEF Inside
  <2>6. \A m \in c.metrics : Refs(m) \subseteq c.tables \cup c.columns
    BY <1>1 DEF Inside, Needed
  <2>7. \A x \in c.examples : x \in 1..Len(examples) /\ examples[x].refs \subseteq c.tables \cup c.columns
    BY <1>1 DEF Inside
  <2> QED BY <1>1, <2>1, <2>2, <2>3, <2>4, <2>5, <2>6, <2>7 DEF HangsTogether
<1>10. KeepsMatched(c, examples)
  <2>0. /\ r.columns \subseteq Columns
        /\ \A m \in r.concepts \cup r.metrics \cup r.rules : Refs(m) \subseteq References
    BY KeyAssumption DEF Reading, Definition, Refs
  <2>1. /\ \A m \in r.concepts \cup r.metrics \cup r.rules : Refs(m) \subseteq Essential(r, inside)
        /\ \A x \in r.examples : examples[x].refs \subseteq Essential(r, inside)
    <3>1. \A m \in r.concepts \cup r.metrics \cup r.rules :
              Refs(m) \subseteq RefsOfAll(r.concepts \cup r.metrics \cup r.rules)
      BY DEF RefsOfAll
    <3>2. \A x \in r.examples : examples[x].refs \subseteq ExampleRefs(r.examples)
      BY DEF ExampleRefs
    <3>3. /\ RefsOfAll(r.concepts \cup r.metrics \cup r.rules) \subseteq Essential(r, inside)
          /\ ExampleRefs(r.examples) \subseteq Essential(r, inside)
      BY EssentialParts
    <3> QED BY <3>1, <3>2, <3>3
  <2>2. ASSUME NEW refs \in SUBSET References, refs \subseteq Essential(r, inside), Whole(c, refs)
        PROVE  Inside(refs, tables, columns)
    <3>1. TablesOf(refs) \subseteq tables /\ refs \cap Columns \subseteq r.columns
      BY <1>1, <2>2 DEF Whole
    <3>2. \A k \in refs \cap r.columns : TableOf[k] \in tables => k \in columns
      BY <1>6, <2>2
    <3> QED BY <1>4, <2>0, <3>1, <3>2, WholeInside
  <2>3. \A m \in r.concepts \cup r.rules : Whole(c, Refs(m)) => Inside(Refs(m), tables, columns)
    BY <2>0, <2>1, <2>2
  <2>4. \A m \in r.metrics : Whole(c, Needed(r, m)) => Inside(Needed(r, m), tables, columns)
    <3> TAKE m \in r.metrics
    <3>1. /\ Refs(m) \subseteq References /\ Refs(m) \subseteq Essential(r, inside)
          /\ \A o \in r.rules : Refs(o) \subseteq References /\ Refs(o) \subseteq Essential(r, inside)
      BY <2>0, <2>1
    <3>2. Needed(r, m) \subseteq References /\ Needed(r, m) \subseteq Essential(r, inside)
      BY <3>1 DEF Needed, RefsOfAll
    <3> QED BY <2>2, <3>2
  <2>5. \A x \in r.examples : x \in 1..Len(examples)
                                  /\ (Whole(c, examples[x].refs) => Inside(examples[x].refs, tables, columns))
    <3> TAKE x \in r.examples
    <3>1. x \in 1..Len(examples) /\ examples[x].refs \subseteq References
      <4>1. x \in 1..Len(examples) /\ examples[x] \in Example
        OBVIOUS
      <4> QED BY <4>1 DEF Example
    <3> QED BY <2>1, <2>2, <3>1
  <2> QED BY <1>1, <2>3, <2>4, <2>5 DEF KeepsMatched
<1> QED BY <1>8, <1>9, <1>10 DEF c, GoodContext

-----------------------------------------------------------------------------
(* Readings and contexts.                                                  *)

\* What the contexts and the retrievals rest on.
Built ==
    /\ \A t \in Readers : GoodReading(retrieval[t], view[t], examples, versions)
    /\ \A t \in Readers : GoodContext(context[t], examples, versions)

\* A reading stays good while versions and examples are only added.
LEMMA ReadingKept ==
    ASSUME NEW xs \in Seq(Example), NEW ys \in Seq(Example), Longer(xs, ys),
           NEW vs \in Seq(Version), NEW ws \in Seq(Version), Grown(vs, ws),
           NEW r \in Reading, NEW v, GoodReading(r, v, xs, vs)
    PROVE  GoodReading(r, v, ys, ws)
<1>1. r.examples \subseteq 1..Len(ys)
  BY DEF GoodReading, Longer
<1>2. r.version \in 1..Len(vs) => /\ r.version \in 1..Len(ws)
                                   /\ vs[r.version].tables \subseteq ws[r.version].tables
                                   /\ vs[r.version].columns \subseteq ws[r.version].columns
  BY DEF Grown
<1>3. r.step \in {"examples", "links"} =>
          r.tables \subseteq ws[r.version].tables /\ r.columns \subseteq ws[r.version].columns
  BY <1>2 DEF GoodReading
<1>4. r.step \in {"metrics", "rules", "objects", "examples", "links"} => r.version \in 1..Len(ws)
  BY <1>2 DEF GoodReading
<1> QED BY <1>1, <1>3, <1>4 DEF GoodReading

\* A context stays good while versions and examples are only added.
LEMMA ContextKept ==
    ASSUME NEW xs \in Seq(Example), NEW ys \in Seq(Example), Longer(xs, ys),
           NEW vs \in Seq(Version), NEW ws \in Seq(Version), Grown(vs, ws),
           NEW c \in Context, GoodContext(c, xs, vs)
    PROVE  GoodContext(c, ys, ws)
<1> SUFFICES ASSUME c.version # 0 PROVE HangsTogether(c, ys, ws) /\ KeepsMatched(c, ys)
  BY DEF GoodContext
<1>1. HangsTogether(c, xs, vs) /\ KeepsMatched(c, xs)
  BY DEF GoodContext
<1>2. \A x \in 1..Len(xs) : x \in 1..Len(ys) /\ ys[x] = xs[x]
  BY DEF Longer
<1>3. KeepsMatched(c, ys)
  BY <1>1, <1>2 DEF KeepsMatched
<1>4. \A i \in 1..Len(vs) : i \in 1..Len(ws) /\ vs[i].tables \subseteq ws[i].tables
                            /\ vs[i].columns \subseteq ws[i].columns /\ vs[i].links \subseteq ws[i].links
  BY DEF Grown
<1>5. HangsTogether(c, ys, ws)
  BY <1>1, <1>2, <1>4 DEF HangsTogether
<1> QED BY <1>3, <1>5

\* Who changes readings and contexts.
LEMMA ContextMove ==
    ASSUME Next
    PROVE  UNCHANGED contextVars \/ \E t \in Readers : ContextStep(t) /\ UNCHANGED <<versions, learningVars>>
<1>1. ASSUME NEW t \in Readers, Reader(t)
      PROVE  ContextStep(t) /\ UNCHANGED <<versions, learningVars>>
  BY <1>1 DEF Reader, ContextStep, StartContext, NoCatalog, ResolveTerms, ResolveMetrics, ResolveRules,
              ReadDescriptions, RetrieveExamples, BuildContext, LookingStep, ReadVersion, ReadTables, ReadColumns,
              ReadKnownColumns, storeVars
<1> QED BY <1>1 DEF Next, Writer, Steward, Inferer, Ingester, Explorer, Registrar, Curator, Corrector, Requester

\* Nothing read promises nothing.
LEMMA UnreadTyped ==
    ASSUME NEW xs, NEW vs, NEW v
    PROVE  Unread \in Reading /\ GoodReading(Unread, v, xs, vs)
<1>1. Nothing \in Query
  BY DEF Nothing, Query
<1> QED BY <1>1 DEF Unread, Reading, GoodReading

\* No context is one, and promises nothing.
LEMMA NoContextTyped ==
    ASSUME NEW xs, NEW vs
    PROVE  NoContext \in Context /\ GoodContext(NoContext, xs, vs)
BY UnreadTyped DEF NoContext, Context, GoodContext

\* What is found is a key with a payload.
LEMMA ConfirmedTyped ==
    ASSUME TypeOK, Sound, NEW kind
    PROVE  Confirmed(kind) \subseteq Definition
<1>1. \A k \in Keys : resolution[k].status = "confirmed" => resolution[k].payload \in Payloads
  BY DEF TypeOK, GovernanceTypeOK, Resolution, Sound, GoodResolution
<1> QED BY <1>1 DEF Confirmed, Definition

-----------------------------------------------------------------------------
(* Readings stay good.                                                     *)

\* A step of a reader leaves a retrieval that is of one version.
LEMMA ReadingStays ==
    ASSUME TypeOK, Sound, Learnt, Built, NEW t \in Readers, ContextStep(t)
    PROVE  \E r \in Reading : /\ retrieval' = [retrieval EXCEPT ![t] = r]
                              /\ GoodReading(r, view'[t], examples, versions)
<1> DEFINE r == retrieval[t]
           Good(q) == /\ q \in Reading /\ retrieval' = [retrieval EXCEPT ![t] = q]
                      /\ GoodReading(q, view'[t], examples, versions)
<1>0. /\ r \in Reading /\ GoodReading(r, view[t], examples, versions)
      /\ retrieval \in [Readers -> Reading] /\ retrieval = [retrieval EXCEPT ![t] = r]
      /\ view \in [Threads -> View] /\ t \in Threads /\ view[t] \in View /\ GoodView(view[t], versions)
      /\ versions \in Seq(Version) /\ examples \in Seq(Example)
  BY ReaderAssumption DEF TypeOK, ContextTypeOK, StoreTypeOK, LearningTypeOK, Built, Sound
<1> SUFFICES \E q : Good(q)
  OBVIOUS
<1>1. CASE retrieval' = [retrieval EXCEPT ![t] = Unread]
  <2>1. Good(Unread)
    BY <1>1, UnreadTyped
  <2> QED BY <2>1
<1>2. CASE StartContext(t)
  <2>1. PICK q \in Asked : retrieval' = [retrieval EXCEPT ![t] = [Unread EXCEPT !.step = "version", !.ask = q]]
    BY <1>2 DEF StartContext
  <2>2. q \in Query
    BY ReaderAssumption
  <2>3. Good([Unread EXCEPT !.step = "version", !.ask = q])
    BY <2>1, <2>2, UnreadTyped DEF Unread, Reading, GoodReading
  <2> QED BY <2>3
<1>3. CASE ResolveTerms(t)
  <2> DEFINE m == MatchingConcepts(r.ask)
             q == [r EXCEPT !.step = "metrics", !.version = view[t].version, !.concepts = m]
  <2>1. retrieval' = [retrieval EXCEPT ![t] = q]
    BY <1>0, <1>3 DEF ResolveTerms
  <2>2. m \subseteq Definition
    BY ConfirmedTyped DEF MatchingConcepts
  <2>3. /\ view'[t] = view[t] /\ view[t].step = "tables" /\ view[t].version \in 1..Len(versions)
        /\ view[t].version \in Nat
    BY <1>0, <1>3 DEF ResolveTerms, storeVars, GoodView, View
  <2> HIDE DEF m
  <2>4. q \in Reading /\ q.step = "metrics" /\ q.version = view[t].version /\ q.examples = r.examples
    BY <1>0, <2>2, <2>3 DEF Reading
  <2>5. GoodReading(q, view'[t], examples, versions)
    BY <1>0, <2>3, <2>4 DEF GoodReading
  <2> QED BY <2>1, <2>4, <2>5
<1>4. CASE ResolveMetrics(t)
  <2> DEFINE m == MatchingMetrics(r)
             q == [r EXCEPT !.step = "rules", !.metrics = m]
  <2>1. retrieval' = [retrieval EXCEPT ![t] = q]
    BY <1>0, <1>4 DEF ResolveMetrics
  <2>2. m \subseteq Definition
    BY ConfirmedTyped DEF MatchingMetrics
  <2>3. view'[t] = view[t] /\ r.step = "metrics"
    BY <1>4 DEF ResolveMetrics, storeVars
  <2> HIDE DEF m
  <2>4. q \in Reading /\ q.step = "rules" /\ q.version = r.version /\ q.examples = r.examples
    BY <1>0, <2>2 DEF Reading
  <2>5. GoodReading(q, view'[t], examples, versions)
    BY <1>0, <2>3, <2>4 DEF GoodReading
  <2> QED BY <2>1, <2>4, <2>5
<1>5. CASE ResolveRules(t)
  <2> DEFINE m == MatchingRules(r)
             q == [r EXCEPT !.step = "objects", !.rules = m]
  <2>1. retrieval' = [retrieval EXCEPT ![t] = q]
    BY <1>0, <1>5 DEF ResolveRules
  <2>2. m \subseteq Definition
    BY ConfirmedTyped DEF MatchingRules
  <2>3. view'[t] = view[t] /\ r.step = "rules"
    BY <1>5 DEF ResolveRules, storeVars
  <2> HIDE DEF m
  <2>4. q \in Reading /\ q.step = "objects" /\ q.version = r.version /\ q.examples = r.examples
    BY <1>0, <2>2 DEF Reading
  <2>5. GoodReading(q, view'[t], examples, versions)
    BY <1>0, <2>3, <2>4 DEF GoodReading
  <2> QED BY <2>1, <2>4, <2>5
<1>6. CASE ReadDescriptions(t)
  <2> DEFINE s == [r EXCEPT !.tables = view[t].refs \cap Tables, !.columns = view[t].refs \cap Columns]
             m == Described(s)
             q == [s EXCEPT !.step = "examples", !.described = m]
  <2>1. retrieval' = [retrieval EXCEPT ![t] = q]
    BY <1>6 DEF ReadDescriptions
  <2>2. /\ r.step = "objects" /\ view[t].step = "ready"
        /\ r.version \in 1..Len(versions) /\ view[t].version = r.version
        /\ view[t].refs \subseteq Objects(versions, r.version)
    BY <1>0, <1>6 DEF ReadDescriptions, GoodReading, GoodView
  <2>3. s \in Reading /\ s.version = r.version /\ s.examples = r.examples
        /\ s.tables = view[t].refs \cap Tables /\ s.columns = view[t].refs \cap Columns
    BY <1>0 DEF Reading
  <2> HIDE DEF s
  <2>4. m \subseteq References
    BY <2>3 DEF Described, References
  <2>5. versions[r.version] \in Version
    BY <1>0, <2>2
  <2>6. s.tables \subseteq versions[r.version].tables /\ s.columns \subseteq versions[r.version].columns
    BY <2>2, <2>3, <2>5, SchemaAssumption DEF Objects, Version
  <2> HIDE DEF m
  <2>7. /\ q \in Reading /\ q.step = "examples" /\ q.version = r.version /\ q.examples = r.examples
        /\ q.tables = s.tables /\ q.columns = s.columns
    BY <2>3, <2>4 DEF Reading
  <2> HIDE DEF q
  <2>8. GoodReading(q, view'[t], examples, versions)
    BY <1>0, <2>2, <2>6, <2>7 DEF GoodReading
  <2> QED BY <2>1, <2>7, <2>8
<1>7. CASE RetrieveExamples(t)
  <2>1. PICK S \in SUBSET MatchingExamples(r.ask, view[t].refs) :
            retrieval' = [retrieval EXCEPT ![t] = [@ EXCEPT !.step = "links", !.examples = S]]
    BY <1>7 DEF RetrieveExamples
  <2> DEFINE q == [r EXCEPT !.step = "links", !.examples = S]
  <2>2. retrieval' = [retrieval EXCEPT ![t] = q]
    BY <1>0, <2>1
  <2>3. S \subseteq 1..Len(examples) /\ S \subseteq Nat
    BY <1>0 DEF MatchingExamples, Active
  <2>4. /\ q \in Reading /\ q.step = "links" /\ q.version = r.version /\ q.examples = S
        /\ q.tables = r.tables /\ q.columns = r.columns
    BY <1>0, <2>3 DEF Reading
  <2>5. r.step = "examples"
    BY <1>7 DEF RetrieveExamples
  <2> HIDE DEF q
  <2>6. GoodReading(q, view'[t], examples, versions)
    BY <1>0, <2>3, <2>4, <2>5 DEF GoodReading
  <2> QED BY <2>2, <2>4, <2>6
<1>8. CASE UNCHANGED contextVars /\ r.step \in {"version", "examples"}
  <2>1. GoodReading(r, view'[t], examples, versions)
    BY <1>0, <1>8 DEF GoodReading
  <2> QED BY <1>0, <1>8, <2>1 DEF contextVars
<1>9. CASE UNCHANGED contextVars /\ r.step = "objects" /\ (ReadTables(t) \/ ReadKnownColumns(t))
  <2>1. view'[t].step \in {"columns", "ready"} /\ view'[t].version = view[t].version
    <3>1. CASE ReadTables(t)
      <4> DEFINE v == [view[t] EXCEPT !.step = "columns", !.tables = versions[view[t].version].tables]
      <4>1. view' = [view EXCEPT ![t] = v]
        BY <1>0, <3>1 DEF ReadTables
      <4>2. v.step = "columns" /\ v.version = view[t].version
        BY <1>0 DEF View
      <4> HIDE DEF v
      <4> QED BY <1>0, <4>1, <4>2
    <3>2. CASE ReadKnownColumns(t)
      <4> DEFINE cs == {c \in versions[VersionRead(t)].columns : TableOf[c] \in view[t].tables}
                 v == [view[t] EXCEPT !.step = "ready", !.refs = view[t].tables \cup cs]
      <4>1. view' = [view EXCEPT ![t] = v]
        BY <1>0, <3>2 DEF ReadKnownColumns
      <4> HIDE DEF cs
      <4>2. v.step = "ready" /\ v.version = view[t].version
        BY <1>0 DEF View
      <4> HIDE DEF v
      <4> QED BY <1>0, <4>1, <4>2
    <3> QED BY <1>9, <3>1, <3>2
  <2>2. GoodReading(r, view'[t], examples, versions)
    BY <1>0, <1>9, <2>1 DEF GoodReading
  <2> QED BY <1>0, <1>9, <2>2 DEF contextVars
<1> HIDE DEF Good
<1>10. NoCatalog(t) \/ BuildContext(t) => retrieval' = [retrieval EXCEPT ![t] = Unread]
  BY DEF NoCatalog, BuildContext, Stop
<1> QED
  BY <1>1, <1>2, <1>3, <1>4, <1>5, <1>6, <1>7, <1>8, <1>9, <1>10 DEF ContextStep

\* What a reader builds is a good context.
LEMMA ContextsAreGood ==
    ASSUME TypeOK, Built, NEW t \in Readers, BuildContext(t), context' # context
    PROVE  \E c \in Context : context' = [context EXCEPT ![t] = c] /\ GoodContext(c, examples, versions)
<1> DEFINE r == [retrieval[t] EXCEPT !.links = versions[retrieval[t].version].links]
<1>0. /\ retrieval[t] \in Reading /\ GoodReading(retrieval[t], view[t], examples, versions)
      /\ versions \in Seq(Version) /\ examples \in Seq(Example) /\ retrieval[t].step = "links"
  BY DEF TypeOK, ContextTypeOK, StoreTypeOK, LearningTypeOK, Built, BuildContext
<1>1. PICK order \in Orders(r), first \in Firsts(r) :
          /\ context' = [context EXCEPT ![t] = Selected(r, order, first)]
          /\ Selected(r, order, first).tables \subseteq r.tables
  BY Zenon DEF BuildContext
<1>2. retrieval[t].version \in 1..Len(versions)
  BY <1>0 DEF GoodReading
<1>3. versions[retrieval[t].version].links \subseteq Links
  <2>1. versions[retrieval[t].version] \in Version
    BY <1>0, <1>2
  <2> QED BY <2>1 DEF Version
<1>4. /\ r \in Reading /\ r.version = retrieval[t].version /\ r.tables = retrieval[t].tables
      /\ r.columns = retrieval[t].columns /\ r.examples = retrieval[t].examples
      /\ r.links = versions[r.version].links
  BY <1>0, <1>3 DEF Reading
<1>5. /\ r.tables \subseteq versions[r.version].tables /\ r.columns \subseteq versions[r.version].columns
      /\ r.examples \subseteq 1..Len(examples)
  BY <1>0, <1>4 DEF GoodReading
<1> HIDE DEF r
<1> QED BY <1>0, <1>1, <1>2, <1>4, <1>5, SelectedGood

-----------------------------------------------------------------------------
(* Types and contexts: the theorems.                                       *)

\* Examples are only added.
LEMMA ExamplesGrow ==
    ASSUME TypeOK, Learnt, Next
    PROVE  examples' \in Seq(Example) /\ Longer(examples, examples')
<1>1. CASE UNCHANGED learningVars
  BY <1>1 DEF learningVars, Longer, TypeOK, LearningTypeOK
<1> QED BY <1>1, LearningMove, ExamplesStay

\* The contexts stay as they were built, and are built well.
LEMMA BuiltStays ==
    ASSUME TypeOK, Sound, Learnt, Built, Next
    PROVE  ContextTypeOK' /\ Built'
<1>0. /\ examples \in Seq(Example) /\ examples' \in Seq(Example) /\ Longer(examples, examples')
      /\ versions \in Seq(Version) /\ versions' \in Seq(Version) /\ Grown(versions, versions')
      /\ retrieval \in [Readers -> Reading] /\ context \in [Readers -> Context]
      /\ view \in [Threads -> View] /\ Readers \subseteq Threads
      /\ \A t \in Readers : GoodReading(retrieval[t], view[t], examples, versions)
      /\ \A t \in Readers : GoodContext(context[t], examples, versions)
  BY ExamplesGrow, VersionsGrow, ReaderAssumption
     DEF TypeOK, LearningTypeOK, StoreTypeOK, ContextTypeOK, Built
<1>1. \A v : \A t \in Readers : GoodReading(retrieval[t], v, examples, versions)
                                 => GoodReading(retrieval[t], v, examples', versions')
  BY <1>0, ReadingKept
<1>2. \A c \in Context : GoodContext(c, examples, versions) => GoodContext(c, examples', versions')
  BY <1>0, ContextKept
<1>3. ASSUME NEW u \in Threads, Looks(u), NEW t \in Readers, t # u
      PROVE  view'[t] = view[t]
  BY <1>0, <1>3 DEF Looks, StartLooking, StopLooking, ReadVersion, ReadTables, ReadColumns, ReadKnownColumns, ReadLinks
<1>4. ASSUME NEW t \in Readers
      PROVE  view'[t] = view[t] \/ ContextStep(t)
  BY <1>3, ViewMove
<1>5. \A t \in Readers : ContextStep(t) =>
          /\ \E r \in Reading : /\ retrieval' = [retrieval EXCEPT ![t] = r]
                                /\ GoodReading(r, view'[t], examples, versions)
          /\ UNCHANGED context
                \/ \E c \in Context : context' = [context EXCEPT ![t] = c] /\ GoodContext(c, examples, versions)
  <2> SUFFICES ASSUME NEW t \in Readers, ContextStep(t)
               PROVE  UNCHANGED context
                        \/ \E c \in Context : context' = [context EXCEPT ![t] = c] /\ GoodContext(c, examples, versions)
    BY ReadingStays
  <2>1. UNCHANGED context \/ BuildContext(t)
    BY DEF ContextStep, StartContext, NoCatalog, ResolveTerms, ResolveMetrics, ResolveRules,
           ReadDescriptions, RetrieveExamples, contextVars
  <2> QED BY <2>1, ContextsAreGood
<1>6. /\ retrieval' \in [Readers -> Reading]
      /\ context' \in [Readers -> Context]
  BY <1>0, <1>5, ContextMove DEF contextVars
<1>7. \A t \in Readers : GoodContext(context'[t], examples', versions')
  <2>1. CASE UNCHANGED context
    BY <1>0, <1>2, <2>1
  <2>2. ASSUME NEW t \in Readers, NEW c \in Context,
               context' = [context EXCEPT ![t] = c], GoodContext(c, examples, versions)
        PROVE  \A u \in Readers : GoodContext(context'[u], examples', versions')
    BY <1>0, <1>2, <2>2
  <2> QED BY <1>5, <2>1, <2>2, ContextMove DEF contextVars
<1>8. ASSUME NEW t \in Readers
      PROVE  GoodReading(retrieval'[t], view'[t], examples', versions')
  <2>1. CASE ContextStep(t)
    <3>1. PICK r \in Reading : retrieval' = [retrieval EXCEPT ![t] = r] /\ GoodReading(r, view'[t], examples, versions)
      BY <1>5, <2>1
    <3>2. GoodReading(r, view'[t], examples', versions')
      BY <1>0, <3>1, ReadingKept
    <3> QED BY <1>0, <3>1, <3>2
  <2>2. CASE ~ContextStep(t)
    <3>1. view'[t] = view[t]
      BY <1>4, <2>2
    <3>2. retrieval'[t] = retrieval[t]
      BY <1>0, <1>5, <2>2, ContextMove DEF contextVars
    <3> QED BY <1>0, <1>1, <3>1, <3>2
  <2> QED BY <2>1, <2>2
<1> QED BY <1>6, <1>7, <1>8 DEF ContextTypeOK, Built

\* The inductive invariant of types.
Inv == TypeOK /\ Sound /\ Learnt /\ Built

\* The inductive invariant holds at first.
LEMMA InvInit ==
    ASSUME Init
    PROVE  Inv
<1>1. PICK d \in Deployments : StoreInit(d) /\ GovernanceInit(d) /\ MemoryInit(d)
  BY DEF Init
<1>2. IngestInit /\ QueriesInit /\ LearningInit /\ ContextInit
  BY DEF Init
<1>3. /\ d.replica \in [Threads -> Replicas] /\ d.calls \in [Threads -> Nat] /\ d.versions \in Seq(Version)
      /\ d.meaning \in [Keys -> Resolution] /\ d.ticket \in States
      /\ \A k \in Keys : d.meaning[k] # Undefined => d.meaning[k].payload # NoPayload
  BY ThreadAssumption, MeaningAssumption, CorrectorAssumption
<1>4. /\ StoreTypeOK /\ \A t \in Threads : GoodView(view[t], versions)
  <2>1. Blind \in View /\ GoodView(Blind, versions)
    BY DEF Blind, View, GoodView
  <2> QED BY <1>1, <1>3, <2>1 DEF StoreInit, StoreTypeOK
<1>5. /\ GovernanceTypeOK
      /\ \A t \in Threads : GoodProposal(proposal[t], versions)
      /\ \A t \in Inferers : GoodInference(inference[t], versions)
      /\ \A k \in Keys : GoodResolution(resolution[k])
  BY <1>1, <1>3, NoProposalGood, NoInferenceGood DEF GovernanceInit, GovernanceTypeOK, GoodResolution, Undefined
<1>6. IngestTypeOK /\ \A t \in Ingesters : GoodIngest(ingest[t], versions)
  BY <1>2, NoIngestGood DEF IngestInit, IngestTypeOK
<1>7. QueriesTypeOK
  <2>1. NoRegistration \in Registration
    BY DEF NoRegistration, Registration
  <2> QED BY <1>2, <2>1 DEF QueriesInit, QueriesTypeOK
<1>8. MemoryTypeOK /\ \A t \in Correctors : GoodMemory(memory[t])
  <2>1. NoMemory \in Memory /\ GoodMemory(NoMemory)
    BY NoMemoryTyped DEF GoodMemory, NoMemory
  <2>2. [state |-> d.ticket, version |-> Len(d.versions), explain |-> 0] \in Ticket
    BY <1>3 DEF Ticket
  <2> QED BY <1>1, <2>1, <2>2 DEF MemoryInit, MemoryTypeOK
<1>9. OneCall
  BY <1>1, <1>2, RegistrarAssumption, IngesterAssumption, CorrectorAssumption
     DEF OneCall, GovernanceInit, IngestInit, NoProposal, NoIngest
<1>10. LearningTypeOK /\ Learnt
  <2>1. examples = <<>> /\ candidates = {} /\ reviews = <<>> /\ DOMAIN examples = {} /\ DOMAIN reviews = {}
    BY <1>2 DEF LearningInit
  <2>2. [outcome |-> "none", example |-> 0] \in Feedback
    BY DEF Feedback
  <2>3. LearningTypeOK
    BY <1>2, <2>1, <2>2, NoLessonTyped DEF LearningInit, LearningTypeOK
  <2>4. \A t \in Curators : GoodLesson(lesson[t], examples, feedback, versions)
    BY <1>2, NoLessonGood DEF LearningInit
  <2>5. OneActiveExample
    BY <2>1 DEF OneActiveExample, Active
  <2> QED BY <2>1, <2>3, <2>4, <2>5 DEF Learnt
<1>11. ContextTypeOK /\ Built
  BY <1>2, UnreadTyped, NoContextTyped DEF ContextInit, ContextTypeOK, Built
<1> QED BY <1>4, <1>5, <1>6, <1>7, <1>8, <1>9, <1>10, <1>11 DEF Inv, TypeOK, Sound

\* Every step keeps the inductive invariant.
LEMMA InvNext ==
    ASSUME Inv, [Next]_vars
    PROVE  Inv'
<1>1. CASE Next
  <2>1. TypeOK /\ Sound /\ Learnt /\ Built
    BY DEF Inv
  <2>2. StoreTypeOK' /\ IngestTypeOK' /\ QueriesTypeOK' /\ MemoryTypeOK' /\ LearningTypeOK' /\ ContextTypeOK'
    BY <1>1, <2>1, StoreStays, IngestsStay, QueriesStay, MemoryStays, LearntStays, BuiltStays
  <2>3. GovernanceTypeOK'
    BY <1>1, <2>1, ResolutionsStay, ProposalsStay, InferencesStay DEF GovernanceTypeOK
  <2>4. Sound'
    BY <1>1, <2>1, ViewsStay, ProposalsStay, InferencesStay, IngestsStay, ResolutionsStay, MemoryStays, OneCallStays
       DEF Sound
  <2> QED BY <1>1, <2>1, <2>2, <2>3, <2>4, LearntStays, BuiltStays DEF Inv, TypeOK
<1>2. CASE UNCHANGED vars
  BY <1>2 DEF Inv, TypeOK, Sound, OneCall, Learnt, OneActiveExample, Active, Superseded, Built,
              StoreTypeOK, GovernanceTypeOK, IngestTypeOK, QueriesTypeOK, LearningTypeOK, ContextTypeOK, MemoryTypeOK,
              vars, storeVars, governanceVars, queryVars, learningVars, contextVars, memoryVars
<1> QED BY <1>1, <1>2

\* The inductive invariant always holds.
LEMMA Invariance == Spec => []Inv
<1>1. Init => Inv
  BY InvInit
<1>2. Inv /\ [Next]_vars => Inv'
  BY InvNext
<1> QED BY <1>1, <1>2, PTL DEF Spec

\* Every variable of the catalog services keeps its type, for any threads,
\* processes, schemas and definitions.
THEOREM CatalogTypes == Spec => []TypeOK
<1>1. Inv => TypeOK
  BY DEF Inv
<1> QED BY <1>1, Invariance, PTL

\* In any number of processes, a question has at most one active example: its
\* revisions form one chain (learning/service.py, the unique indexes).
THEOREM Chains == Spec => []OneActiveExample
<1>1. Inv => OneActiveExample
  BY DEF Inv, Learnt
<1> QED BY <1>1, Invariance, PTL

\* Every golden candidate is earned by the final feedback of its request and
\* fits the version it names, however the calls overlap.
THEOREM Earning == Spec => []CandidatesAreEarned
<1>1. Inv => CandidatesAreEarned
  BY DEF Inv, Learnt, GoodCandidate, CandidatesAreEarned, Objects
<1> QED BY <1>1, Invariance, PTL

\* Every context handed to the model is closed: its columns, joins, metrics,
\* definitions and examples speak of tables and columns it has, and those are in
\* the version it names (context_builder.py).
THEOREM Hanging == Spec => []ContextHangsTogether
<1>1. ASSUME Inv, NEW t \in Readers, context[t].version # 0
      PROVE  LET c == context[t]
                 v == versions[c.version]
             IN
             /\ c.tables \subseteq v.tables /\ c.columns \subseteq v.columns /\ c.links \subseteq v.links
             /\ TablesOf(c.columns) \subseteq c.tables
             /\ \A l \in c.links : l[1] \in c.tables /\ l[2] \in c.tables
             /\ \A m \in c.metrics : {k \in Deps(m) : KindOf[k] = "rule"} \subseteq KeysOf(c.rules)
             /\ RefsOfAll(c.concepts \cup c.metrics \cup c.rules)
                   \cup (UNION {examples[x].refs : x \in c.examples}) \subseteq c.tables \cup c.columns
  <2> DEFINE c == context[t]
  <2>1. HangsTogether(c, examples, versions)
    BY <1>1 DEF Inv, Built, GoodContext
  <2>2. RefsOfAll(c.concepts \cup c.metrics \cup c.rules) \subseteq c.tables \cup c.columns
    BY <2>1 DEF HangsTogether, RefsOfAll
  <2>3. UNION {examples[x].refs : x \in c.examples} \subseteq c.tables \cup c.columns
    BY <2>1 DEF HangsTogether
  <2> QED BY <2>1, <2>2, <2>3 DEF HangsTogether
<1>2. Inv => ContextHangsTogether
  BY <1>1 DEF ContextHangsTogether
<1> QED BY <1>2, Invariance, PTL

\* What the question matched by name is never selected away from the context.
THEOREM Keeping == Spec => []MatchedMeaningIsKept
<1>1. Inv => MatchedMeaningIsKept
  BY DEF Inv, Built, GoodContext, KeepsMatched, Whole, MatchedMeaningIsKept
<1> QED BY <1>1, Invariance, PTL

-----------------------------------------------------------------------------
(* Tickets are invalidated.                                                *)

\* A correction that has read its ticket, and an answer, know when it stopped pending.
GoodAnswer(m, state) ==
    /\ m.step \in {"version", "references", "model", "concept", "correcting", "ticket", "update"}
            /\ m.state \notin Pending => state \notin Pending
    /\ m.answer = "regenerate" => state \notin Pending

\* Every answer to a correction fits the ticket.
Answered == \A t \in Correctors : GoodAnswer(memory[t], ticket.state)

\* A ticket that is not pending stays so.
LEMMA TicketLeaves ==
    ASSUME TypeOK, Next, ticket.state \notin Pending
    PROVE  ticket'.state \notin Pending
<1>0. ticket \in Ticket
  BY DEF TypeOK, MemoryTypeOK
<1>1. ASSUME NEW t \in Requesters, RequesterStep(t)
      PROVE  ticket'.state \notin Pending
  <2>1. ASSUME NEW from, NEW to, Moved(t, from, to), from \in Pending \/ to \notin Pending
        PROVE  ticket'.state \notin Pending
    BY <1>0, <2>1 DEF Moved, Ticket
  <2>2. CASE Explain(t)
    BY <1>0, <2>2 DEF Explain, Ticket
  <2> QED BY <1>1, <2>1, <2>2 DEF RequesterStep, Approve, Reopen, Execute, Finish, Cancel, Pending
<1>2. ASSUME NEW t \in Correctors, ticket' # ticket, CancelTicket(t)
      PROVE  ticket'.state \notin Pending
  BY <1>0, <1>2 DEF CancelTicket, Pending, Ticket
<1>3. ASSUME NEW t \in Correctors,
             \/ CorrectMapping(t) \/ InterpretCorrection(t) \/ ReadTicket(t) \/ CheckVersion(t)
             \/ CheckReferences(t) \/ Interpreted(t) \/ FindConcept(t) \/ CorrectionRefused(t)
             \/ Remember(t) \/ ReadRow(t)
      PROVE  ticket' = ticket
  BY <1>3 DEF CorrectMapping, InterpretCorrection, Begins,
              ReadTicket, CheckVersion,
              CheckReferences, Interpreted, FindConcept, CorrectionRefused, Remember, ReadRow
<1> QED BY <1>1, <1>2, <1>3, MemoryMove DEF memoryVars

\* A step of a correction.
LEMMA AnswersStay ==
    ASSUME TypeOK, Sound, Answered, NEW t \in Correctors,
           \/ CorrectMapping(t) \/ InterpretCorrection(t) \/ ReadTicket(t) \/ CheckVersion(t)
           \/ CheckReferences(t) \/ Interpreted(t) \/ FindConcept(t) \/ CorrectionRefused(t)
           \/ Remember(t) \/ ReadRow(t) \/ CancelTicket(t)
    PROVE  UNCHANGED memory
              \/ \E m \in Memory : memory' = [memory EXCEPT ![t] = m] /\ GoodAnswer(m, ticket'.state)
<1> DEFINE Goal == \E m \in Memory : memory' = [memory EXCEPT ![t] = m] /\ GoodAnswer(m, ticket'.state)
<1>0. /\ ticket \in Ticket /\ memory \in [Correctors -> Memory] /\ memory[t] \in Memory
      /\ GoodAnswer(memory[t], ticket.state)
      /\ proposal[t].step # "idle" => memory[t].step = "correcting"
  BY CorrectorAssumption DEF TypeOK, MemoryTypeOK, Answered, Sound, OneCall
<1>1. ASSUME NEW a \in {"none", "error", "clarify", "kept", "regenerate"}, Answer(t, a),
             a = "regenerate" => ticket'.state \notin Pending
      PROVE  Goal
  BY <1>1, NoMemoryGood DEF Answer, NoMemory, GoodAnswer
<1>2. ASSUME NEW text \in BOOLEAN, NEW m \in Mapped,
             memory' = [memory EXCEPT ![t] = [NoMemory EXCEPT !.step = "request", !.text = text, !.mapping = m]]
      PROVE  Goal
  <2>1. [NoMemory EXCEPT !.step = "request", !.text = text, !.mapping = m] \in Memory
    BY NoMemoryTyped DEF Memory, NoMemory
  <2>2. GoodAnswer([NoMemory EXCEPT !.step = "request", !.text = text, !.mapping = m], ticket'.state)
    BY DEF GoodAnswer, NoMemory
  <2> QED BY <1>2, <2>1, <2>2
<1>3. ASSUME NEW m \in Memory, memory' = [memory EXCEPT ![t] = m], UNCHANGED ticket,
             m.state = memory[t].state, m.answer = memory[t].answer,
             memory[t].step \in {"version", "references", "model", "concept", "correcting", "ticket", "update"}
      PROVE  Goal
  BY <1>0, <1>3 DEF GoodAnswer
<1>4. CASE CorrectMapping(t)
  BY <1>2, <1>4, CorrectorAssumption DEF CorrectMapping, Begins
<1>5. CASE InterpretCorrection(t)
  <2>1. PICK m \in Mappings : Begins(t, TRUE, [NoMapping EXCEPT !.previous = m.previous])
    BY <1>5 DEF InterpretCorrection
  <2>2. [NoMapping EXCEPT !.previous = m.previous] \in Mapped
    BY CorrectorAssumption DEF NoMapping, Mapped
  <2> QED BY <1>2, <2>1, <2>2 DEF Begins
<1>6. CASE ReadTicket(t)
  <2> DEFINE m == [memory[t] EXCEPT !.step = "version", !.state = ticket.state]
  <2>1. memory' = [memory EXCEPT ![t] = m] /\ ticket' = ticket
    BY <1>0, <1>6 DEF ReadTicket
  <2>2. m \in Memory /\ m.state = ticket.state /\ m.answer = memory[t].answer
    BY <1>0 DEF Memory, Ticket
  <2> HIDE DEF m
  <2>3. GoodAnswer(m, ticket'.state)
    BY <1>0, <2>1, <2>2 DEF GoodAnswer
  <2> QED BY <2>1, <2>2, <2>3
<1>7. CASE CheckVersion(t)
  <2>1. CASE Answer(t, "error")
    BY <1>1, <2>1
  <2>2. CASE memory' = [memory EXCEPT ![t].step = "references"]
    <3> DEFINE m == [memory[t] EXCEPT !.step = "references"]
    <3>1. m \in Memory /\ m.state = memory[t].state /\ m.answer = memory[t].answer
      BY <1>0 DEF Memory
    <3>2. memory' = [memory EXCEPT ![t] = m]
      BY <1>0, <2>2
    <3> HIDE DEF m
    <3> QED BY <1>3, <1>7, <3>1, <3>2 DEF CheckVersion
  <2> QED BY <1>7, <2>1, <2>2 DEF CheckVersion
<1>8. CASE CheckReferences(t)
  <2> DEFINE m == [memory[t] EXCEPT !.step = "model", !.refs = view[t].refs]
             n == [memory[t] EXCEPT !.step = "concept"]
  <2>1. CASE Answer(t, "error")
    BY <1>1, <2>1
  <2>2. CASE memory' = [memory EXCEPT ![t] = IF memory[t].text THEN m ELSE n]
    <3>1. /\ m \in Memory /\ m.state = memory[t].state /\ m.answer = memory[t].answer
          /\ n \in Memory /\ n.state = memory[t].state /\ n.answer = memory[t].answer
      <4>1. view[t].refs \subseteq References
        BY CorrectorAssumption DEF TypeOK, StoreTypeOK, View
      <4> QED BY <1>0, <4>1 DEF Memory
    <3> HIDE DEF m, n
    <3> QED BY <1>3, <1>8, <2>2, <3>1 DEF CheckReferences
  <2>3. Answer(t, "error") \/ memory' = [memory EXCEPT ![t] = IF memory[t].text THEN m ELSE n]
    BY <1>0, <1>8 DEF CheckReferences
  <2> HIDE DEF m, n
  <2> QED BY <2>1, <2>2, <2>3
<1>9. CASE Interpreted(t)
  <2>1. ASSUME NEW n \in Mappings,
               memory' = [memory EXCEPT ![t] = [NoMemory EXCEPT !.step = "request", !.mapping = n]]
        PROVE  Goal
    <3>1. [NoMemory EXCEPT !.step = "request", !.mapping = n] \in Memory
      BY NoMemoryTyped, CorrectorAssumption DEF Memory, NoMemory
    <3>2. GoodAnswer([NoMemory EXCEPT !.step = "request", !.mapping = n], ticket'.state)
      BY DEF GoodAnswer, NoMemory
    <3> QED BY <2>1, <3>1, <3>2
  <2> QED BY <1>1, <1>9, <2>1 DEF Interpreted, Interpretations
<1>10. CASE FindConcept(t)
  <2>1. CASE Answer(t, "error")
    BY <1>1, <2>1
  <2>2. CASE memory' = [memory EXCEPT ![t].step = "correcting"]
    <3> DEFINE m == [memory[t] EXCEPT !.step = "correcting"]
    <3>1. m \in Memory /\ m.state = memory[t].state /\ m.answer = memory[t].answer
      BY <1>0 DEF Memory
    <3>2. memory' = [memory EXCEPT ![t] = m]
      BY <1>0, <2>2
    <3> HIDE DEF m
    <3> QED BY <1>3, <1>10, <3>1, <3>2 DEF FindConcept
  <2> QED BY <1>10, <2>1, <2>2 DEF FindConcept
<1>11. CASE CorrectionRefused(t)
  BY <1>1, <1>11 DEF CorrectionRefused
<1>12. CASE Remember(t)
  <2>0. memory[t].step = "correcting" /\ ticket' = ticket
    BY <1>0, <1>12 DEF Remember
  <2>1. CASE memory' = [memory EXCEPT ![t].step = "ticket"]
    <3> DEFINE m == [memory[t] EXCEPT !.step = "ticket"]
    <3>1. m \in Memory /\ m.state = memory[t].state /\ m.answer = memory[t].answer
      BY <1>0 DEF Memory
    <3>2. memory' = [memory EXCEPT ![t] = m]
      BY <1>0, <2>1
    <3> HIDE DEF m
    <3> QED BY <1>3, <2>0, <3>1, <3>2
  <2>2. CASE Answer(t, "kept")
    BY <1>1, <2>2
  <2>3. CASE Answer(t, "regenerate") /\ memory[t].state \notin Cancellable
    <3>1. ticket'.state \notin Pending
      BY <1>0, <2>0, <2>3 DEF GoodAnswer, Cancellable, Pending
    <3> QED BY <1>1, <2>3, <3>1
  <2> QED BY <1>12, <2>1, <2>2, <2>3 DEF Remember
<1>13. CASE ReadRow(t)
  <2>1. CASE Answer(t, "error")
    BY <1>1, <2>1
  <2>2. CASE memory' = [memory EXCEPT ![t] = [@ EXCEPT !.step = "update", !.seen = ticket]]
    <3> DEFINE m == [memory[t] EXCEPT !.step = "update", !.seen = ticket]
    <3>1. m \in Memory /\ m.state = memory[t].state /\ m.answer = memory[t].answer
      BY <1>0 DEF Memory
    <3>2. memory' = [memory EXCEPT ![t] = m]
      BY <1>0, <2>2
    <3> HIDE DEF m
    <3> QED BY <1>3, <1>13, <3>1, <3>2 DEF ReadRow
  <2> QED BY <1>13, <2>1, <2>2 DEF ReadRow
<1>14. CASE CancelTicket(t)
  <2>1. CASE Answer(t, "error")
    BY <1>1, <2>1
  <2>2. CASE Answer(t, "regenerate") /\ ticket' = [ticket EXCEPT !.state = "cancelled"]
    <3>1. ticket'.state \notin Pending
      BY <1>0, <2>2 DEF Ticket, Pending
    <3> QED BY <1>1, <2>2, <3>1
  <2> QED BY <1>14, <2>1, <2>2 DEF CancelTicket
<1> QED BY <1>4, <1>5, <1>6, <1>7, <1>8, <1>9, <1>10, <1>11, <1>12, <1>13, <1>14

\* Every step keeps the answers fitting.
LEMMA AnsweredStays ==
    ASSUME TypeOK, Sound, Answered, Next
    PROVE  Answered'
<1>0. memory \in [Correctors -> Memory] /\ \A t \in Correctors : GoodAnswer(memory[t], ticket'.state)
  BY TicketLeaves DEF TypeOK, MemoryTypeOK, Answered, GoodAnswer
<1>1. CASE UNCHANGED memory
  BY <1>0, <1>1 DEF Answered
<1>2. ASSUME NEW t \in Correctors,
             \/ CorrectMapping(t) \/ InterpretCorrection(t) \/ ReadTicket(t) \/ CheckVersion(t)
             \/ CheckReferences(t) \/ Interpreted(t) \/ FindConcept(t) \/ CorrectionRefused(t)
             \/ Remember(t) \/ ReadRow(t) \/ CancelTicket(t)
      PROVE  Answered'
  <2>1. CASE UNCHANGED memory
    BY <1>1, <2>1
  <2>2. CASE \E m \in Memory : memory' = [memory EXCEPT ![t] = m] /\ GoodAnswer(m, ticket'.state)
    BY <1>0, <2>2 DEF Answered
  <2> QED BY <1>2, <2>1, <2>2, AnswersStay
<1>3. ASSUME NEW t \in Requesters, RequesterStep(t)
      PROVE  UNCHANGED memory
  BY <1>3 DEF RequesterStep, Approve, Reopen, Execute, Finish, Cancel, Explain, Moved
<1> QED BY <1>1, <1>2, <1>3, MemoryMove DEF memoryVars

\* At first nothing was answered.
LEMMA AnsweredInit ==
    ASSUME Init
    PROVE  Answered
BY DEF Init, MemoryInit, Answered, GoodAnswer, NoMemory

\* Whoever is told to regenerate the SQL has a ticket that is no longer pending,
\* whatever the ticket's own endpoints did since the correction read it.
THEOREM Invalidation == Spec => []PendingTicketsAreInvalidated
<1>1. Init => Answered
  BY AnsweredInit
<1>2. Inv /\ Answered /\ [Next]_vars => Answered'
  <2>1. CASE UNCHANGED vars
    BY <2>1 DEF Answered, vars, memoryVars
  <2> QED BY <2>1, AnsweredStays DEF Inv
<1>3. Answered => PendingTicketsAreInvalidated
  BY DEF Answered, GoodAnswer, PendingTicketsAreInvalidated
<1> QED BY <1>1, <1>2, <1>3, Invariance, PTL DEF Spec

-----------------------------------------------------------------------------
(* Definitions follow catalogs.                                            *)

\* The definitions in order speak of versions in order.
GoodDefinitions(ds, vs) ==
    \A i \in 1..Len(ds) :
        /\ ds[i].catalog \in 1..Len(vs) /\ ds[i].tables \subseteq vs[ds[i].catalog].tables
        /\ \A j \in 1..(i - 1) : ds[j].catalog < ds[i].catalog

\* The definitions speak of versions before this one.
After(ds, version) == \A j \in 1..Len(ds) : ds[j].catalog < version

\* While its draft is the next number, a registration's version is after them all.
GoodRegistration(r, i, ds, vs) ==
    /\ r.step \in {"ingesting", "read", "insert"} => r.draft <= Len(ds) + 1
    /\ r.step \in {"read", "insert"} => r.catalog \in 1..Len(vs)
    /\ r.step = "insert" => r.snapshot.tables \subseteq vs[r.catalog].tables
    /\ r.step \in {"read", "insert"} /\ r.draft = Len(ds) + 1 => After(ds, r.catalog)
    /\ r.step = "ingesting" /\ i.step \in {"insert", "fill", "done"} /\ r.draft = Len(ds) + 1 => After(ds, i.version)

\* Definitions and registrations are in step with the versions.
Registered ==
    /\ GoodDefinitions(definitions, versions)
    /\ \A t \in Registrars : GoodRegistration(registration[t], ingest[t], definitions, versions)

\* Definitions stay good while versions grow.
LEMMA DefinitionsKept ==
    ASSUME NEW vs \in Seq(Version), NEW ws \in Seq(Version), Grown(vs, ws), NEW ds, GoodDefinitions(ds, vs)
    PROVE  GoodDefinitions(ds, ws)
<1>1. \A i \in 1..Len(vs) : i \in 1..Len(ws) /\ vs[i].tables \subseteq ws[i].tables
  BY DEF Grown
<1> QED BY <1>1 DEF GoodDefinitions

\* A registration stays good while versions grow.
LEMMA RegistrationKept ==
    ASSUME NEW vs \in Seq(Version), NEW ws \in Seq(Version), Grown(vs, ws), NEW ds, NEW r, NEW i,
           GoodRegistration(r, i, ds, vs)
    PROVE  GoodRegistration(r, i, ds, ws)
<1>1. \A j \in 1..Len(vs) : j \in 1..Len(ws) /\ vs[j].tables \subseteq ws[j].tables
  BY DEF Grown
<1> QED BY <1>1 DEF GoodRegistration

\* A definition added is the last one, and speaks of a later version.
LEMMA DefinitionAdded ==
    ASSUME NEW ds \in Seq([catalog : Nat, tables : SUBSET Tables]), NEW vs \in Seq(Version), GoodDefinitions(ds, vs),
           NEW d \in [catalog : Nat, tables : SUBSET Tables], d.catalog \in 1..Len(vs),
           d.tables \subseteq vs[d.catalog].tables, After(ds, d.catalog)
    PROVE  GoodDefinitions(Append(ds, d), vs)
<1> DEFINE n == Len(ds)
           es == Append(ds, d)
<1>1. n \in Nat /\ Len(es) = n + 1 /\ es[n + 1] = d /\ \A i \in 1..n : es[i] = ds[i]
  OBVIOUS
<1>2. ASSUME NEW i \in 1..n
      PROVE  /\ es[i].catalog \in 1..Len(vs) /\ es[i].tables \subseteq vs[es[i].catalog].tables
             /\ \A j \in 1..(i - 1) : es[j].catalog < es[i].catalog
  <2>1. \A j \in 1..(i - 1) : j \in 1..n
    BY <1>1
  <2> QED BY <1>1, <2>1 DEF GoodDefinitions
<1>3. \A j \in 1..n : es[j].catalog < es[n + 1].catalog
  BY <1>1 DEF After
<1> HIDE DEF es, n
<1>4. ASSUME NEW i \in 1..(n + 1)
      PROVE  /\ es[i].catalog \in 1..Len(vs) /\ es[i].tables \subseteq vs[es[i].catalog].tables
             /\ \A j \in 1..(i - 1) : es[j].catalog < es[i].catalog
  <2>1. CASE i = n + 1
    BY <1>1, <1>3, <2>1
  <2>2. CASE i # n + 1
    <3>1. i \in 1..n
      BY <1>1, <2>2
    <3> QED BY <1>2, <3>1
  <2> QED BY <2>1, <2>2
<1>5. GoodDefinitions(es, vs)
  BY <1>1, <1>4 DEF GoodDefinitions
<1> QED BY <1>5 DEF es

\* A registration that was overtaken has a number no longer the next.
LEMMA Overtaken ==
    ASSUME NEW ds \in Seq([catalog : Nat, tables : SUBSET Tables]), NEW d, NEW vs, NEW r \in Registration, NEW i,
           GoodRegistration(r, i, ds, vs)
    PROVE  GoodRegistration(r, i, Append(ds, d), vs)
<1>1. Len(Append(ds, d)) = Len(ds) + 1 /\ Len(ds) \in Nat /\ r.draft \in Nat
  BY DEF Registration
<1> QED BY <1>1 DEF GoodRegistration

\* The first steps of an ingestion number its version after all definitions.
LEMMA NumbersFollow ==
    ASSUME TypeOK, Sound, Registered, NEW u \in Ingesters, NEW t \in Registrars,
           UNCHANGED queryVars, Grown(versions, versions'), versions' \in Seq(Version),
           \/ NextVersion(u) \/ InsertVersion(u) \/ FinishIngest(u) \/ IngestFails(u)
           \/ u \notin Registrars /\ (IngestDataSource(u) \/ ImportManual(u) \/ ImportDDL(u) \/ IngestReturns(u))
    PROVE  GoodRegistration(registration'[t], ingest'[t], definitions', versions')
<1> DEFINE r == registration[t]
           i == ingest[t]
<1>0. /\ ingest \in [Ingesters -> Ingest] /\ versions \in Seq(Version)
      /\ registration'[t] = r /\ definitions' = definitions /\ t \in Ingesters /\ i \in Ingest
      /\ GoodRegistration(r, i, definitions, versions) /\ GoodDefinitions(definitions, versions)
  BY RegistrarAssumption DEF TypeOK, IngestTypeOK, StoreTypeOK, queryVars, Registered
<1>1. SUFFICES GoodRegistration(r, ingest'[t], definitions, versions)
  BY <1>0, RegistrationKept
<1>2. CASE ingest'[t] = i
  BY <1>0, <1>2
<1>3. CASE NextVersion(u) /\ u = t
  <2>1. ingest'[t] = [i EXCEPT !.step = "insert", !.version = Latest + 1]
    BY <1>0, <1>3 DEF NextVersion
  <2>2. ingest'[t].version = Len(versions) + 1 /\ Len(versions) \in Nat
    BY <1>0, <2>1 DEF Ingest, Latest
  <2>3. After(definitions, ingest'[t].version)
    BY <1>0, <2>2 DEF After, GoodDefinitions
  <2> QED BY <1>0, <2>3 DEF GoodRegistration
<1>4. CASE (InsertVersion(u) \/ FinishIngest(u) \/ IngestFails(u)) /\ u = t
  <2>1. /\ \E s \in {"fill", "done", "failed"} : ingest' = [ingest EXCEPT ![t].step = s]
        /\ i.step \in {"insert", "fill"}
    BY <1>4 DEF InsertVersion, FinishIngest, IngestFails
  <2>2. ingest'[t].version = i.version
    BY <1>0, <2>1 DEF Ingest
  <2> QED BY <1>0, <2>1, <2>2 DEF GoodRegistration
<1>5. CASE u # t
  <2>1. UNCHANGED ingest \/ \E j : ingest' = [ingest EXCEPT ![u] = j]
    BY <1>0 DEF NextVersion, InsertVersion, FinishIngest, IngestFails, IngestDataSource, ImportManual,
                ImportDDL, BeginIngest, IngestReturns
  <2> QED BY <1>0, <1>2, <1>5, <2>1
<1> QED BY <1>3, <1>4, <1>5

\* A step of a registration.
LEMMA RegistrationsStay ==
    ASSUME TypeOK, Sound, Registered, NEW u \in Registrars, RegistrationStep(u)
    PROVE  /\ GoodDefinitions(definitions', versions)
           /\ \A t \in Registrars : GoodRegistration(registration'[t], ingest'[t], definitions', versions)
<1> DEFINE r == registration[u]
<1>0. /\ definitions \in Seq([catalog : Nat, tables : SUBSET Tables]) /\ Len(definitions) \in Nat
      /\ registration \in [Registrars -> Registration] /\ ingest \in [Ingesters -> Ingest]
      /\ versions \in Seq(Version) /\ u \in Ingesters /\ Registrars \subseteq Ingesters
      /\ r \in Registration /\ ingest[u] \in Ingest /\ GoodIngest(ingest[u], versions)
      /\ GoodDefinitions(definitions, versions)
      /\ \A t \in Registrars : GoodRegistration(registration[t], ingest[t], definitions, versions)
  BY RegistrarAssumption DEF TypeOK, QueriesTypeOK, IngestTypeOK, StoreTypeOK, Registered, Sound
<1>1. \A i, ds : GoodRegistration(NoRegistration, i, ds, versions)
  BY DEF GoodRegistration, NoRegistration
<1>2. ASSUME NEW q, registration' = [registration EXCEPT ![u] = q], definitions' = definitions,
             UNCHANGED ingest \/ \E i : ingest' = [ingest EXCEPT ![u] = i],
             GoodRegistration(q, ingest'[u], definitions, versions)
      PROVE  /\ GoodDefinitions(definitions', versions)
             /\ \A t \in Registrars : GoodRegistration(registration'[t], ingest'[t], definitions', versions)
  <2>1. \A t \in Registrars : t # u => registration'[t] = registration[t] /\ ingest'[t] = ingest[t]
    BY <1>0, <1>2
  <2>2. registration'[u] = q
    BY <1>0, <1>2
  <2> QED BY <1>0, <1>2, <2>1, <2>2
<1>3. CASE StartRegistration(u)
  <2>1. PICK s \in VirtualTables :
          registration' = [registration EXCEPT ![u] = [NoRegistration EXCEPT !.step = "draft", !.snapshot = s]]
    BY <1>3 DEF StartRegistration
  <2>2. GoodRegistration([NoRegistration EXCEPT !.step = "draft", !.snapshot = s], ingest'[u], definitions, versions)
    BY DEF GoodRegistration, NoRegistration
  <2> QED BY <1>2, <1>3, <2>1, <2>2 DEF StartRegistration
<1>4. CASE ReadDraft(u)
  <2> DEFINE q == [r EXCEPT !.step = "ingesting", !.draft = Len(definitions) + 1]
  <2>1. registration' = [registration EXCEPT ![u] = q] /\ definitions' = definitions
    BY <1>0, <1>4 DEF ReadDraft
  <2>2. PICK i \in Ingest : ingest' = [ingest EXCEPT ![u] = i] /\ i.step \in {"number", "failed"}
    <3>1. r.snapshot \in Snapshot
      BY <1>0, RegistrarAssumption, NoSnapshotTyped DEF Registration
    <3> QED BY <1>4, <3>1, BeginsIngest DEF ReadDraft
  <2>3. q.step = "ingesting" /\ q.draft = Len(definitions) + 1
    BY <1>0 DEF Registration
  <2>4. ingest'[u].step \in {"number", "failed"}
    BY <1>0, <2>2
  <2> HIDE DEF q
  <2>5. GoodRegistration(q, ingest'[u], definitions, versions)
    BY <1>0, <2>3, <2>4 DEF GoodRegistration
  <2> QED BY <1>2, <2>1, <2>2, <2>5
<1>5. CASE Ingested(u)
  <2>0. /\ definitions' = definitions /\ r.step = "ingesting" /\ ingest' = [ingest EXCEPT ![u] = NoIngest]
        /\ ingest[u].step \in {"done", "failed"}
    BY <1>5 DEF Ingested
  <2>1. CASE ingest[u].step = "failed"
    BY <1>1, <1>2, <1>5, <2>0, <2>1 DEF Ingested
  <2>2. CASE ingest[u].step = "done"
    <3> DEFINE q == [r EXCEPT !.step = "read", !.draft = r.draft, !.catalog = ingest[u].version]
    <3>1. registration' = [registration EXCEPT ![u] = q]
      BY <1>0, <1>5, <2>2 DEF Ingested, Drafted
    <3>2. q.step = "read" /\ q.draft = r.draft /\ q.catalog = ingest[u].version
      BY <1>0 DEF Registration
    <3>3. ingest[u].version \in 1..Len(versions)
      BY <1>0, <2>2 DEF GoodIngest
    <3>4. GoodRegistration(r, ingest[u], definitions, versions)
      BY <1>0
    <3> HIDE DEF q
    <3>5. GoodRegistration(q, ingest'[u], definitions, versions)
      BY <2>0, <2>2, <3>2, <3>3, <3>4 DEF GoodRegistration
    <3> QED BY <1>2, <2>0, <3>1, <3>5
  <2> QED BY <2>0, <2>1, <2>2
<1>6. CASE ReadDefinition(u)
  <2>0. definitions' = definitions /\ ingest' = ingest /\ r.step = "read"
    BY <1>6 DEF ReadDefinition
  <2>1. CASE registration' = [registration EXCEPT ![u] = NoRegistration]
    BY <1>1, <1>2, <2>0, <2>1
  <2>2. CASE /\ registration' = [registration EXCEPT ![u].step = "insert"]
             /\ r.snapshot.tables \subseteq versions[r.catalog].tables
    <3> DEFINE q == [r EXCEPT !.step = "insert"]
    <3>1. registration' = [registration EXCEPT ![u] = q]
      BY <1>0, <2>2
    <3>2. q.step = "insert" /\ q.draft = r.draft /\ q.catalog = r.catalog /\ q.snapshot = r.snapshot
      BY <1>0 DEF Registration
    <3>3. GoodRegistration(r, ingest[u], definitions, versions)
      BY <1>0
    <3> HIDE DEF q
    <3>4. GoodRegistration(q, ingest'[u], definitions, versions)
      BY <2>0, <2>2, <3>2, <3>3 DEF GoodRegistration
    <3> QED BY <1>2, <2>0, <3>1, <3>4
  <2> QED BY <1>6, <2>1, <2>2 DEF ReadDefinition
<1>7. CASE InsertDefinition(u)
  <2>0. /\ ingest' = ingest /\ r.step = "insert"
        /\ registration' = [registration EXCEPT ![u] = NoRegistration]
    BY <1>7 DEF InsertDefinition
  <2>1. CASE definitions' = definitions
    BY <1>1, <1>2, <2>0, <2>1
  <2> DEFINE d == [catalog |-> r.catalog, tables |-> r.snapshot.tables]
  <2>2. CASE r.draft = Len(definitions) + 1 /\ definitions' = Append(definitions, d)
    <3>1. /\ r.catalog \in 1..Len(versions) /\ r.snapshot.tables \subseteq versions[r.catalog].tables
          /\ After(definitions, r.catalog)
      BY <1>0, <2>0, <2>2 DEF GoodRegistration
    <3>2. d \in [catalog : Nat, tables : SUBSET Tables] /\ d.catalog = r.catalog /\ d.tables = r.snapshot.tables
      <4>1. r.snapshot \in Snapshot
        BY <1>0, RegistrarAssumption, NoSnapshotTyped DEF Registration
      <4> QED BY <3>1, <4>1 DEF Snapshot
    <3> HIDE DEF d
    <3>3. GoodDefinitions(definitions', versions)
      BY <1>0, <2>2, <3>1, <3>2, DefinitionAdded
    <3>4. \A t \in Registrars : GoodRegistration(registration[t], ingest[t], definitions', versions)
      BY <1>0, <2>2, Overtaken
    <3>5. \A t \in Registrars : registration'[t] = IF t = u THEN NoRegistration ELSE registration[t]
      BY <1>0, <2>0
    <3> QED BY <1>1, <2>0, <3>3, <3>4, <3>5
  <2> QED BY <1>7, <2>1, <2>2 DEF InsertDefinition
<1> QED BY <1>3, <1>4, <1>5, <1>6, <1>7 DEF RegistrationStep

\* Every step keeps definitions and registrations in step with the versions.
LEMMA RegisteredStays ==
    ASSUME TypeOK, Sound, Registered, Next
    PROVE  Registered'
<1>0. /\ versions \in Seq(Version) /\ versions' \in Seq(Version) /\ Grown(versions, versions')
      /\ GoodDefinitions(definitions, versions)
      /\ \A t \in Registrars : GoodRegistration(registration[t], ingest[t], definitions, versions)
  BY VersionsGrow DEF TypeOK, StoreTypeOK, Registered
<1>1. CASE UNCHANGED queryVars /\ UNCHANGED ingest
  BY <1>0, <1>1, DefinitionsKept, RegistrationKept DEF Registered, queryVars
<1>2. ASSUME NEW u \in Registrars, RegistrationStep(u)
      PROVE  Registered'
  BY <1>0, <1>2, RegistrationsStay, DefinitionsKept, RegistrationKept DEF Registered
<1>3. ASSUME UNCHANGED queryVars, NEW u \in Ingesters,
             \/ NextVersion(u) \/ InsertVersion(u) \/ FinishIngest(u) \/ IngestFails(u)
             \/ u \notin Registrars /\ (IngestDataSource(u) \/ ImportManual(u) \/ ImportDDL(u) \/ IngestReturns(u))
      PROVE  Registered'
  <2>1. \A t \in Registrars : GoodRegistration(registration'[t], ingest'[t], definitions', versions')
    BY <1>0, <1>3, NumbersFollow
  <2> QED BY <1>0, <1>3, <2>1, DefinitionsKept DEF Registered, queryVars
<1>4. \A u : ReadDraft(u) \/ Ingested(u) => RegistrationStep(u)
  BY DEF RegistrationStep
<1> QED BY <1>1, <1>2, <1>3, <1>4, IngestMove, QueriesMove

\* At first there are no definitions.
LEMMA RegisteredInit ==
    ASSUME Init
    PROVE  Registered
<1>1. definitions = <<>> /\ registration = [t \in Registrars |-> NoRegistration]
  BY DEF Init, QueriesInit
<1>2. Len(definitions) = 0
  BY <1>1
<1> QED BY <1>1, <1>2 DEF Registered, GoodDefinitions, GoodRegistration, NoRegistration

\* Whichever registrations overlap, in whichever processes, a later definition
\* speaks of a later version, which has its virtual table.
THEOREM Registrations == Spec => []DefinitionsFollowCatalogs
<1>1. Init => Registered
  BY RegisteredInit
<1>2. Inv /\ Registered /\ [Next]_vars => Registered'
  <2>1. CASE UNCHANGED vars
    BY <2>1 DEF Registered, vars, queryVars, storeVars
  <2> QED BY <2>1, RegisteredStays DEF Inv
<1>3. Inv /\ Registered => DefinitionsFollowCatalogs
  BY DEF Inv, TypeOK, StoreTypeOK, Registered, GoodDefinitions, DefinitionsFollowCatalogs, Latest
<1> QED BY <1>1, <1>2, <1>3, Invariance, PTL DEF Spec

-----------------------------------------------------------------------------
(* What can happen to a proposal.                                          *)

\* What can happen to the proposal of a thread, and with it to the meaning.
Dropped(t) == Proposes(t, NoProposal) /\ UNCHANGED resolution

\* A call submits a definition, having loaded the resolution.
Opened(t) ==
    \E p \in Proposal :
        /\ Proposes(t, p) /\ UNCHANGED resolution
        /\ p.step = "looking" /\ p.key \in Keys /\ p.reviewed = resolution[p.key].payload
        /\ p.asIs => /\ p.payload = NoPayload /\ p.status = "confirmed"
                     /\ p.expected = resolution[p.key].updated

\* Inference or ingestion has a description to write.
Worded(t) ==
    \E p \in Proposal :
        /\ Proposes(t, p) /\ UNCHANGED resolution
        /\ p.step = "read" /\ p.key \in Keys /\ KindOf[p.key] = "semantic" /\ ~p.asIs

\* The objects it speaks of are in the latest version.
Found(t) ==
    /\ proposal[t].step = "looking" /\ UNCHANGED resolution
    /\ \E s \in {"current", "names", "read", "concepts"}, v \in Nat :
          /\ Proposes(t, [proposal[t] EXCEPT !.step = s, !.version = v])
          /\ s = "current" => KindOf[proposal[t].key] = "semantic"
          /\ s \in {"names", "read"} => KindOf[proposal[t].key] = "concept"
          /\ s = "concepts" => KindOf[proposal[t].key] \in {"metric", "rule"}

\* A blank correction takes the current description.
Filled(t) ==
    /\ proposal[t].step = "current" /\ UNCHANGED resolution
    /\ \E f \in Payloads :
          /\ Proposes(t, [proposal[t] EXCEPT !.step = "read", !.payload = f])
          /\ proposal[t].payload = NoPayload => f = resolution[proposal[t].key].payload

\* What it depends on is confirmed, or its names are free.
Checked(t) ==
    /\ UNCHANGED resolution
    /\ \E s \in {"rules", "names", "read"} :
          /\ Proposes(t, [proposal[t] EXCEPT !.step = s])
          /\ \/ /\ proposal[t].step = "concepts" /\ DepsAreConfirmed(proposal[t], "concept")
                /\ KindOf[proposal[t].key] = "metric" => s = "rules"
             \/ /\ proposal[t].step = "rules" /\ DepsAreConfirmed(proposal[t], "rule")
                /\ s # "rules"
             \/ proposal[t].step = "names" /\ s = "read"

\* The resolution is read under the lock, and is the expected one.
Taken(t) ==
    /\ proposal[t].step = "read" /\ ExpectationHolds(t) /\ Free(t) /\ Enter(t)
    /\ Proposes(t, [proposal[t] EXCEPT !.step = "commit", !.seen = resolution[proposal[t].key]])
    /\ UNCHANGED resolution

\* Evidence and resolution are written, and the lock given back.
Written(t) ==
    /\ proposal[t].step = "commit" /\ Leave(t) /\ Proposes(t, NoProposal)
    /\ resolution' = [resolution EXCEPT ![proposal[t].key] =
                         Resolved(resolution[proposal[t].key], proposal[t].seen, proposal[t])]

\* A step leaves the meaning and the proposals alone, or is one of these.
LEMMA ProposalMove ==
    ASSUME TypeOK, Sound, Next
    PROVE  \/ UNCHANGED <<resolution, proposal>>
           \/ \E t \in Threads : \/ Dropped(t) \/ Opened(t) \/ Worded(t) \/ Found(t) \/ Filled(t)
                                 \/ Checked(t) \/ Taken(t) \/ Written(t)
<1>0. /\ proposal \in [Threads -> Proposal] /\ resolution \in [Keys -> Resolution]
      /\ \A t \in Threads : GoodProposal(proposal[t], versions)
      /\ view \in [Threads -> View]
      /\ \A k \in Keys : GoodResolution(resolution[k])
  BY DEF TypeOK, StoreTypeOK, GovernanceTypeOK, Sound
<1>1. NoProposal \in Proposal
  BY NoProposalGood
<1>2. ASSUME NEW t \in Stewards, NEW kind, NEW statuses \in {Proposable, {"confirmed"}},
             Submit(t, kind, statuses)
      PROVE  Opened(t)
  <2>1. PICK m \in Remit[t] :
          /\ Proposes(t, [NoProposal EXCEPT !.step = "looking", !.key = m[1], !.status = m[2],
                                            !.payload = m[3], !.asIs = (m[3] = NoPayload),
                                            !.expected = resolution[m[1]].updated,
                                            !.reviewed = resolution[m[1]].payload])
          /\ UNCHANGED resolution
    BY <1>2 DEF Submit, Proposes
  <2>2. /\ m \in Keys \X {"unknown", "inferred", "imported", "confirmed"} \X (Payloads \cup {NoPayload})
        /\ m[3] = NoPayload => m[2] = "confirmed"
    BY <2>1, KeyAssumption
  <2> DEFINE p == [NoProposal EXCEPT !.step = "looking", !.key = m[1], !.status = m[2],
                                     !.payload = m[3], !.asIs = (m[3] = NoPayload),
                                     !.expected = resolution[m[1]].updated,
                                     !.reviewed = resolution[m[1]].payload]
  <2>3. resolution[m[1]].updated \in Nat /\ resolution[m[1]].payload \in Payloads \cup {NoPayload}
    BY <1>0, <2>2 DEF Resolution
  <2>4. p \in Proposal
    BY <2>2, <2>3, <1>1 DEF Proposal, NoProposal, Status
  <2>5. /\ p.step = "looking" /\ p.key \in Keys /\ p.reviewed = resolution[p.key].payload
        /\ p.asIs => /\ p.payload = NoPayload /\ p.status = "confirmed"
                     /\ p.expected = resolution[p.key].updated
    BY <2>2 DEF NoProposal
  <2> QED BY <2>1, <2>4, <2>5 DEF Opened
<1>3. ASSUME NEW t \in Threads, NEW kinds, NEW refs, NEW step \in {"current", "concepts", "names", "read"},
             Locate(t, kinds, refs, step),
             step = "current" => kinds = {"semantic"},
             step \in {"names", "read"} => kinds = {"concept"},
             step = "concepts" => kinds \in {{"metric"}, {"rule"}}
      PROVE  Dropped(t) \/ Found(t)
  <2>1. /\ proposal[t].step = "looking" /\ KindOf[proposal[t].key] \in kinds /\ UNCHANGED resolution
        /\ \/ Proposes(t, NoProposal)
           \/ Proposes(t, [proposal[t] EXCEPT !.step = step, !.version = view[t].version])
    BY <1>0, <1>3 DEF Locate, Proposes, Abandon
  <2>2. view[t].version \in Nat
    BY <1>0 DEF View
  <2> QED BY <1>3, <2>1, <2>2 DEF Dropped, Found
<1>4. ASSUME NEW t \in Threads, \/ LocateDescription(t) \/ LocateConcept(t) \/ LocateMetric(t) \/ LocateRule(t)
      PROVE  Dropped(t) \/ Found(t)
  <2>1. LastCheck(t) \in {"names", "read"}
    BY DEF LastCheck
  <2> HIDE DEF LastCheck
  <2>2. CASE LocateDescription(t)
    BY <2>2, <1>3 DEF LocateDescription
  <2>3. CASE LocateConcept(t)
    BY <2>1, <2>3, <1>3 DEF LocateConcept
  <2>4. CASE LocateMetric(t)
    BY <2>4, <1>3 DEF LocateMetric
  <2>5. CASE LocateRule(t)
    BY <2>5, <1>3 DEF LocateRule
  <2> QED BY <1>4, <2>2, <2>3, <2>4, <2>5
<1>5. ASSUME NEW t \in Threads, ReadCurrent(t)
      PROVE  Dropped(t) \/ Filled(t)
  <2> DEFINE d == proposal[t]
             final == IF d.payload = NoPayload THEN resolution[d.key].payload ELSE d.payload
  <2>1. /\ d.step = "current" /\ UNCHANGED resolution
        /\ \/ Proposes(t, NoProposal)
           \/ final # NoPayload /\ Proposes(t, [d EXCEPT !.step = "read", !.payload = final])
    BY <1>0, <1>5 DEF ReadCurrent, Abandon, Proposes
  <2>2. d.key \in Keys /\ d.payload \in Payloads \cup {NoPayload}
    BY <1>0, <2>1 DEF GoodProposal, Proposal
  <2>3. final # NoPayload => final \in Payloads
    BY <1>0, <2>2 DEF Resolution
  <2>4. d.payload = NoPayload => final = resolution[d.key].payload
    OBVIOUS
  <2> HIDE DEF final
  <2> QED BY <2>1, <2>3, <2>4 DEF Dropped, Filled
<1>6. ASSUME NEW t \in Threads, CheckConcepts(t) \/ CheckRules(t) \/ CheckNames(t)
      PROVE  Dropped(t) \/ Checked(t)
  <2>1. LastCheck(t) \in {"names", "read"}
    BY DEF LastCheck
  <2> HIDE DEF LastCheck
  <2>2. ASSUME NEW ok, NEW s, Proceed(t, ok, s)
        PROVE  /\ UNCHANGED resolution
               /\ \/ Proposes(t, NoProposal)
                  \/ ok /\ Proposes(t, [proposal[t] EXCEPT !.step = s])
    BY <1>0, <2>2 DEF Proceed, Abandon, Proposes
  <2>3. CASE CheckConcepts(t)
    <3> DEFINE s == IF KindOf[proposal[t].key] = "metric" THEN "rules" ELSE LastCheck(t)
    <3>1. proposal[t].step = "concepts" /\ Proceed(t, DepsAreConfirmed(proposal[t], "concept"), s)
      BY <2>3 DEF CheckConcepts
    <3>2. s \in {"rules", "names", "read"} /\ (KindOf[proposal[t].key] = "metric" => s = "rules")
      BY <2>1
    <3> HIDE DEF s
    <3> QED BY <2>2, <3>1, <3>2 DEF Dropped, Checked
  <2>4. CASE CheckRules(t)
    BY <2>1, <2>2, <2>4 DEF CheckRules, Dropped, Checked
  <2>5. CASE CheckNames(t)
    BY <2>2, <2>5 DEF CheckNames, Dropped, Checked
  <2> QED BY <1>6, <2>3, <2>4, <2>5
<1>7. ASSUME NEW t \in Threads, ReadResolution(t)
      PROVE  Dropped(t) \/ Taken(t)
  BY <1>0, <1>7 DEF ReadResolution, Abandon, Dropped, Taken, Proposes
<1>8. ASSUME NEW t \in Threads, NEW kinds, Commit(t, kinds)
      PROVE  Written(t)
  <2>1. /\ proposal[t].step = "commit" /\ Leave(t) /\ Proposes(t, NoProposal)
        /\ resolution' = [resolution EXCEPT ![proposal[t].key] = Resolved(@, proposal[t].seen, proposal[t])]
    BY <1>8 DEF Commit, Abandon, Proposes
  <2>2. proposal[t].key \in Keys
    BY <1>0, <2>1 DEF GoodProposal
  <2> QED BY <1>0, <2>1, <2>2 DEF Written
<1>9. ASSUME NEW t \in Inferers, ProposeInferred(t)
      PROVE  Worded(t)
  <2> DEFINE i == inference[t]
             P(k) == [NoProposal EXCEPT !.step = "read", !.key = k, !.status = "inferred",
                                        !.payload = i.payload, !.version = i.version]
  <2>0. i \in Inference /\ GoodInference(i, versions) /\ i.step = "writing" /\ UNCHANGED resolution
    BY <1>9 DEF TypeOK, GovernanceTypeOK, Sound, ProposeInferred
  <2>1. PICK k \in i.targets : Proposes(t, P(k))
    BY <1>9 DEF ProposeInferred, Proposes
  <2>2. k \in Keys /\ KindOf[k] = "semantic" /\ i.payload \in Payloads \cup {NoPayload} /\ i.version \in Nat
    BY <2>0, <2>1 DEF Inference, GoodInference
  <2> HIDE DEF i
  <2>3. P(k) \in Proposal
    BY <2>2, <1>1 DEF Proposal, NoProposal, Status
  <2>4. P(k).step = "read" /\ P(k).key = k /\ ~P(k).asIs
    BY DEF NoProposal
  <2> HIDE DEF P
  <2> QED BY <2>0, <2>1, <2>2, <2>3, <2>4 DEF Worded
<1>10. ASSUME NEW t \in Ingesters, CreateSchemaObject(t) \/ CreateColumn(t)
       PROVE  UNCHANGED <<resolution, proposal>> \/ Worded(t)
  <2> DEFINE s == ingest[t].snapshot
             v == ingest[t].version
             P(k) == [NoProposal EXCEPT !.step = "read", !.key = k, !.status = "imported",
                                        !.payload = s.comments[k], !.version = v]
  <2>0. s \in Snapshot /\ v \in Nat /\ UNCHANGED resolution
    BY <1>10 DEF TypeOK, IngestTypeOK, Ingest, CreateSchemaObject, CreateColumn
  <2>1. UNCHANGED proposal \/ \E k \in DOMAIN s.comments : Proposes(t, P(k))
    BY <1>10 DEF CreateSchemaObject, CreateColumn, ImportDescription, Proposes
  <2>2. ASSUME NEW k \in DOMAIN s.comments, Proposes(t, P(k))
        PROVE  Worded(t)
    <3>1. PICK some \in SUBSET Descriptions : s.comments \in [some -> Payloads]
      BY <2>0 DEF Snapshot
    <3>2. k \in Keys /\ KindOf[k] = "semantic" /\ s.comments[k] \in Payloads
      BY <2>2, <3>1 DEF Descriptions
    <3> HIDE DEF s, v
    <3>3. P(k) \in Proposal
      BY <2>0, <3>2, <1>1 DEF Proposal, NoProposal, Status
    <3>4. P(k).step = "read" /\ P(k).key = k /\ ~P(k).asIs
      BY DEF NoProposal
    <3> HIDE DEF P
    <3> QED BY <2>0, <2>2, <3>2, <3>3, <3>4 DEF Worded
  <2> QED BY <2>0, <2>1, <2>2
<1>11. ASSUME NEW t \in Correctors, FindConcept(t)
       PROVE  UNCHANGED <<resolution, proposal>> \/ Opened(t)
  <2> DEFINE m == memory[t].mapping
             owners == Having(m.term)
             P(k) == [NoProposal EXCEPT !.step = "looking", !.key = k, !.status = "confirmed",
                                        !.payload = Remembering(k, m),
                                        !.expected = IF owners = {} THEN 0 ELSE resolution[k].updated,
                                        !.reviewed = resolution[k].payload]
  <2>0. m \in Mappings /\ UNCHANGED resolution /\ t \in Threads
    BY <1>11, CorrectorAssumption DEF FindConcept, Sound, GoodMemory
  <2>1. UNCHANGED proposal \/ \E k \in (IF owners = {} THEN {NewKey[m.term]} ELSE owners) : Proposes(t, P(k))
    BY <1>11 DEF FindConcept, Proposes
  <2>2. ASSUME NEW k \in (IF owners = {} THEN {NewKey[m.term]} ELSE owners), Proposes(t, P(k))
        PROVE  Opened(t)
    <3>1. k \in Keys
      BY <2>0, CorrectorAssumption DEF Having
    <3>2. P(k).step = "looking" /\ P(k).key = k /\ ~P(k).asIs /\ P(k).reviewed = resolution[k].payload
      BY DEF NoProposal
    <3>3. proposal'[t] = P(k) /\ proposal' \in [Threads -> Proposal]
      BY <1>0, <2>0, <2>2, ProposalsStay DEF Proposes
    <3>4. P(k) \in Proposal
      BY <2>0, <3>3
    <3> HIDE DEF P, owners, m
    <3> QED BY <2>0, <2>2, <3>1, <3>2, <3>4 DEF Opened
  <2> QED BY <2>0, <2>1, <2>2
<1> QED BY <1>2, <1>4, <1>5, <1>6, <1>7, <1>8, <1>9, <1>10, <1>11, GovernanceMove,
           GovernorAssumption, IngesterAssumption, CorrectorAssumption

-----------------------------------------------------------------------------
(* The lock.                                                               *)

\* A thread inside a method that reads and then writes.
InWrite(t) == proposal[t].step = "commit"

\* It numbers a version.
InNumber(t) == t \in Ingesters /\ ingest[t].step = "insert"

\* It stores a definition.
InDefine(t) == t \in Registrars /\ registration[t].step = "insert"

\* It stores an example.
InLearn(t) == t \in Curators /\ lesson[t].step = "insert"

\* It cancels a ticket.
InCancel(t) == t \in Correctors /\ memory[t].step = "update"

\* It is inside any of these methods.
InMethod(t) == InWrite(t) \/ InNumber(t) \/ InDefine(t) \/ InLearn(t) \/ InCancel(t)

\* Such a thread has the lock of its process.
Locked == \A t \in Threads : InMethod(t) => holder[replica[t]] = t

\* A thread is inside one method.
LEMMA Exclusive ==
    ASSUME OneCall, NEW t \in Threads
    PROVE  /\ InWrite(t) => ~InNumber(t) /\ ~InDefine(t) /\ ~InLearn(t) /\ ~InCancel(t)
           /\ InNumber(t) => ~InDefine(t) /\ ~InLearn(t) /\ ~InCancel(t)
           /\ InDefine(t) => ~InLearn(t) /\ ~InCancel(t)
           /\ InLearn(t) => ~InCancel(t)
BY RoleAssumption, RegistrarAssumption, CorrectorAssumption
   DEF OneCall, InWrite, InNumber, InDefine, InLearn, InCancel

\* Each method begins when the lock is free, and takes it.
LEMMA WriteBegins ==
    ASSUME TypeOK, Sound, Next, NEW t \in Threads, ~InWrite(t), InWrite(t)'
    PROVE  Taken(t)
<1>0. /\ proposal \in [Threads -> Proposal]
      /\ proposal[t].step # "commit" /\ proposal'[t].step = "commit"
  BY DEF TypeOK, GovernanceTypeOK, InWrite
<1>1. ASSUME NEW u \in Threads, NEW p, p.step # "commit", Proposes(u, p)
      PROVE  FALSE
  BY <1>0, <1>1 DEF Proposes
<1>2. ASSUME NEW u \in Threads, Found(u) \/ Filled(u) \/ Checked(u)
      PROVE  FALSE
  <2>1. proposal[u] \in Proposal
    BY <1>0
  <2> DEFINE d == proposal[u]
  <2>2. \/ \E v : \E s \in {"current", "names", "read", "concepts"} : Proposes(u, [d EXCEPT !.step = s, !.version = v])
        \/ \E f : Proposes(u, [d EXCEPT !.step = "read", !.payload = f])
        \/ \E s \in {"rules", "names", "read"} : Proposes(u, [d EXCEPT !.step = s])
    BY <1>2 DEF Found, Filled, Checked
  <2> QED BY <1>1, <2>1, <2>2 DEF Proposal
<1>3. ASSUME NEW u \in Threads, Dropped(u) \/ Opened(u) \/ Worded(u) \/ Written(u)
      PROVE  FALSE
  BY <1>1, <1>3 DEF Dropped, Opened, Worded, Written, NoProposal
<1>4. ASSUME NEW u \in Threads, Taken(u)
      PROVE  Taken(t)
  <2>1. u = t
    BY <1>0, <1>4 DEF Taken, Proposes
  <2> QED BY <1>4, <2>1
<1> QED BY <1>0, <1>2, <1>3, <1>4, ProposalMove

\* An ingestion numbers its version in the lock.
LEMMA NumberBegins ==
    ASSUME TypeOK, Sound, Next, NEW t \in Threads, ~InNumber(t), InNumber(t)'
    PROVE  Free(t) /\ Enter(t)
<1>0. /\ ingest \in [Ingesters -> Ingest] /\ t \in Ingesters /\ Registrars \subseteq Ingesters
      /\ ingest[t].step # "insert" /\ ingest'[t].step = "insert"
  BY RegistrarAssumption DEF TypeOK, IngestTypeOK, InNumber
<1>1. ASSUME NEW u \in Ingesters, NEW i, i.step # "insert", ingest' = [ingest EXCEPT ![u] = i]
      PROVE  FALSE
  BY <1>0, <1>1
<1>2. NoIngest.step # "insert"
  BY DEF NoIngest
<1>3. ASSUME NEW u \in Ingesters, NEW s \in Snapshot, BeginIngest(u, s)
      PROVE  FALSE
  BY <1>1, <1>3, BeginsIngest
<1>4. ASSUME NEW u \in Ingesters, InsertVersion(u) \/ FinishIngest(u) \/ IngestFails(u)
      PROVE  FALSE
  <2>1. \E s \in {"fill", "done", "failed"} : ingest' = [ingest EXCEPT ![u] = [ingest[u] EXCEPT !.step = s]]
    BY <1>0, <1>4 DEF InsertVersion, FinishIngest, IngestFails
  <2>2. ingest[u] \in Ingest
    BY <1>0
  <2> QED BY <1>1, <2>1, <2>2 DEF Ingest
<1>5. ASSUME NEW u \in Ingesters, IngestDataSource(u) \/ ImportManual(u) \/ ImportDDL(u) \/ IngestReturns(u)
      PROVE  FALSE
  <2>1. CASE IngestDataSource(u) \/ ImportManual(u)
    BY <1>3, <2>1, SnapshotAssumption DEF IngestDataSource, ImportManual
  <2>2. CASE ImportDDL(u)
    BY <1>0, <1>3, <2>2, ParsedTyped DEF ImportDDL
  <2>3. CASE IngestReturns(u)
    BY <1>1, <1>2, <2>3 DEF IngestReturns
  <2> QED BY <1>5, <2>1, <2>2, <2>3
<1>6. ASSUME NEW u \in Registrars, ReadDraft(u) \/ Ingested(u)
      PROVE  FALSE
  <2>1. CASE ReadDraft(u)
    <3>1. registration[u].snapshot \in Snapshot
      BY RegistrarAssumption, NoSnapshotTyped DEF TypeOK, QueriesTypeOK, Registration
    <3> QED BY <1>0, <1>3, <2>1, <3>1 DEF ReadDraft
  <2>2. CASE Ingested(u)
    BY <1>0, <1>1, <1>2, <2>2 DEF Ingested
  <2> QED BY <1>6, <2>1, <2>2
<1>7. ASSUME NEW u \in Ingesters, NextVersion(u)
      PROVE  Free(t) /\ Enter(t)
  <2>1. u = t
    BY <1>0, <1>7 DEF NextVersion
  <2> QED BY <1>7, <2>1 DEF NextVersion
<1> QED BY <1>0, <1>4, <1>5, <1>6, <1>7, IngestMove

\* A registration stores its definition in the lock.
LEMMA DefineBegins ==
    ASSUME TypeOK, Next, NEW t \in Threads, ~InDefine(t), InDefine(t)'
    PROVE  Free(t) /\ Enter(t)
<1>0. /\ registration \in [Registrars -> Registration] /\ t \in Registrars
      /\ registration[t].step # "insert" /\ registration'[t].step = "insert"
  BY DEF TypeOK, QueriesTypeOK, InDefine
<1>1. ASSUME NEW u \in Registrars, NEW r, r.step # "insert", registration' = [registration EXCEPT ![u] = r]
      PROVE  FALSE
  BY <1>0, <1>1
<1>2. NoRegistration.step # "insert"
  BY DEF NoRegistration
<1>3. PICK u \in Registrars : RegistrationStep(u)
  BY <1>0, QueriesMove DEF queryVars
<1>4. registration[u] \in Registration
  BY <1>0
<1>5. CASE StartRegistration(u)
  <2>1. \E s : registration' = [registration EXCEPT ![u] = [NoRegistration EXCEPT !.step = "draft", !.snapshot = s]]
    BY <1>5 DEF StartRegistration
  <2> QED BY <1>1, <2>1 DEF NoRegistration
<1>6. CASE ReadDraft(u)
  <2>1. \E n : registration' = [registration EXCEPT ![u] = [registration[u] EXCEPT !.step = "ingesting", !.draft = n]]
    BY <1>0, <1>6 DEF ReadDraft
  <2> QED BY <1>1, <1>4, <2>1 DEF Registration
<1>7. CASE Ingested(u)
  <2>1. \/ registration' = [registration EXCEPT ![u] = NoRegistration]
        \/ \E n, c : registration' = [registration EXCEPT ![u] =
                                         [registration[u] EXCEPT !.step = "read", !.draft = n, !.catalog = c]]
    BY <1>0, <1>7 DEF Ingested
  <2> QED BY <1>1, <1>2, <1>4, <2>1 DEF Registration
<1>8. CASE InsertDefinition(u)
  BY <1>1, <1>2, <1>8 DEF InsertDefinition
<1>9. CASE ReadDefinition(u)
  <2>1. u = t
    BY <1>0, <1>9 DEF ReadDefinition
  <2> QED BY <1>1, <1>2, <1>9, <2>1 DEF ReadDefinition
<1> QED BY <1>3, <1>5, <1>6, <1>7, <1>8, <1>9 DEF RegistrationStep

\* A correction of SQL is stored in the lock.
LEMMA LearnBegins ==
    ASSUME TypeOK, Next, NEW t \in Threads, ~InLearn(t), InLearn(t)'
    PROVE  Free(t) /\ Enter(t)
<1>0. /\ lesson \in [Curators -> Lesson] /\ t \in Curators
      /\ lesson[t].step # "insert" /\ lesson'[t].step = "insert"
  BY DEF TypeOK, LearningTypeOK, InLearn
<1>1. ASSUME NEW u \in Curators, NEW l, l.step # "insert", lesson' = [lesson EXCEPT ![u] = l]
      PROVE  FALSE
  BY <1>0, <1>1
<1>2. NoLesson.step # "insert"
  BY DEF NoLesson
<1>3. PICK u \in Curators : LessonStep(u)
  BY <1>0, LearningMove DEF learningVars
<1>4. lesson[u] \in Lesson
  BY <1>0
<1>5. ASSUME NEW s, s # "insert", lesson' = [lesson EXCEPT ![u] = [lesson[u] EXCEPT !.step = s]]
      PROVE  FALSE
  BY <1>1, <1>4, <1>5 DEF Lesson
<1>6. ASSUME NEW s, NEW d, s # "insert",
             lesson' = [lesson EXCEPT ![u] = [lesson[u] EXCEPT !.step = s, !.draft = d]]
      PROVE  FALSE
  BY <1>1, <1>4, <1>6 DEF Lesson
<1>7. ASSUME NEW lessons, Begin(u, lessons), \A l \in lessons : l.step # "insert"
      PROVE  FALSE
  BY <1>1, <1>7 DEF Begin
<1>8. CASE StartCorrection(u)
  <2>1. \A q, refs, r, x : Submission(q, refs, r, x).step # "insert"
    BY DEF Submission, NoLesson
  <2>2. \A l \in Submissions : l.step # "insert"
    BY <2>1 DEF Submissions
  <2> QED BY <1>7, <1>8, <2>2 DEF StartCorrection
<1>9. CASE StartFeedback(u)
  <2>1. \A r, x, o : About(r, x, o, "record").step # "insert" /\ About(r, x, o, "active").step # "insert"
    BY DEF About, NoLesson
  <2>2. \A l \in Verdicts : l.step # "insert"
    BY <2>1 DEF Verdicts
  <2> QED BY <1>7, <1>9, <2>2 DEF StartFeedback
<1>10. CASE StartPromotion(u)
  <2>1. \A x : [NoLesson EXCEPT !.step = "active", !.example = x].step # "insert"
    BY DEF NoLesson
  <2> DEFINE P(x) == [NoLesson EXCEPT !.step = "active", !.example = x]
  <2>2. \A l \in {P(x) : x \in DOMAIN examples} : l.step # "insert"
    <3> HIDE DEF P
    <3>1. \A x : P(x).step # "insert"
      BY <2>1 DEF P
    <3> QED BY <3>1
  <2>3. \A l \in Promotions : l.step # "insert"
    BY <2>2 DEF Promotions
  <2> QED BY <1>7, <1>10, <2>3 DEF StartPromotion
<1>11. CASE StartDecision(u)
  <2>1. \A x, o : Decision(x, o).step # "insert"
    BY DEF Decision, NoLesson
  <2>2. \A l \in Decisions : l.step # "insert"
    BY <2>1 DEF Decisions
  <2> QED BY <1>7, <1>11, <2>2 DEF StartDecision
<1>12. ~GiveUp(u)
  BY <1>1, <1>2 DEF GiveUp
<1>13. CASE FindPredecessor(u)
  <2>1. \E d : lesson' = [lesson EXCEPT ![u] = [lesson[u] EXCEPT !.step = "store", !.draft = d]]
    BY <1>0, <1>12, <1>13 DEF FindPredecessor
  <2> QED BY <1>6, <2>1
<1>14. CASE CheckActive(u)
  <2>1. \E s \in {"record", "earn"} : lesson' = [lesson EXCEPT ![u] = [lesson[u] EXCEPT !.step = s]]
    BY <1>0, <1>12, <1>14 DEF CheckActive, ContinueIf
  <2> QED BY <1>5, <2>1
<1>15. CASE CheckFeedback(u)
  <2>1. lesson' = [lesson EXCEPT ![u] = [lesson[u] EXCEPT !.step = "fit"]]
    BY <1>0, <1>12, <1>15 DEF CheckFeedback
  <2> QED BY <1>5, <2>1
<1>16. CASE CheckCatalog(u)
  <2>1. \E d : lesson' = [lesson EXCEPT ![u] = [lesson[u] EXCEPT !.step = "propose", !.draft = d]]
    BY <1>0, <1>12, <1>16 DEF CheckCatalog
  <2> QED BY <1>6, <2>1
<1>17. CASE InsertExample(u) \/ RecordFeedback(u) \/ InsertCandidate(u) \/ InsertReview(u)
  BY <1>12, <1>17 DEF InsertExample, RecordFeedback, InsertCandidate, InsertReview
<1>18. CASE UNCHANGED learningVars
  BY <1>0, <1>18 DEF learningVars
<1>19. CASE CheckPredecessor(u)
  <2>1. u = t
    BY <1>0, <1>12, <1>19 DEF CheckPredecessor
  <2> QED BY <1>12, <1>19, <2>1 DEF CheckPredecessor
<1> QED BY <1>3, <1>8, <1>9, <1>10, <1>11, <1>13, <1>14, <1>15, <1>16, <1>17, <1>18, <1>19 DEF LessonStep

\* A ticket is cancelled in the lock.
LEMMA CancelBegins ==
    ASSUME TypeOK, Next, NEW t \in Threads, ~InCancel(t), InCancel(t)'
    PROVE  Free(t) /\ Enter(t)
<1>0. /\ memory \in [Correctors -> Memory] /\ t \in Correctors
      /\ memory[t].step # "update" /\ memory'[t].step = "update"
  BY DEF TypeOK, MemoryTypeOK, InCancel
<1>1. ASSUME NEW u \in Correctors, NEW m, m.step # "update", memory' = [memory EXCEPT ![u] = m]
      PROVE  FALSE
  BY <1>0, <1>1
<1>2. PICK u \in Correctors :
        \/ CorrectMapping(u) \/ InterpretCorrection(u) \/ ReadTicket(u) \/ CheckVersion(u)
        \/ CheckReferences(u) \/ Interpreted(u) \/ FindConcept(u) \/ CorrectionRefused(u)
        \/ Remember(u) \/ ReadRow(u) \/ CancelTicket(u)
  <2>1. \A v \in Requesters : ~RequesterStep(v)
    BY <1>0 DEF RequesterStep, Approve, Reopen, Execute, Finish, Cancel, Explain, Moved
  <2>2. ~UNCHANGED memoryVars
    BY <1>0 DEF memoryVars
  <2> QED BY <2>1, <2>2, MemoryMove
<1>3. memory[u] \in Memory
  BY <1>0
<1>4. \A a : ~Answer(u, a)
  BY <1>1 DEF Answer, NoMemory
<1>5. ASSUME NEW s, s # "update", memory' = [memory EXCEPT ![u] = [memory[u] EXCEPT !.step = s]]
      PROVE  FALSE
  BY <1>1, <1>3, <1>5 DEF Memory
<1>6. CASE CorrectMapping(u) \/ InterpretCorrection(u)
  <2>1. \E x, m : memory' = [memory EXCEPT ![u] = [NoMemory EXCEPT !.step = "request", !.text = x, !.mapping = m]]
    BY <1>6 DEF CorrectMapping, InterpretCorrection, Begins
  <2> QED BY <1>1, <2>1 DEF NoMemory
<1>7. CASE ReadTicket(u)
  <2>1. memory' = [memory EXCEPT ![u] = [memory[u] EXCEPT !.step = "version", !.state = ticket.state]]
    BY <1>0, <1>7 DEF ReadTicket
  <2> QED BY <1>1, <1>3, <2>1 DEF Memory
<1>8. CASE CheckVersion(u)
  BY <1>0, <1>4, <1>5, <1>8 DEF CheckVersion
<1>9. CASE CheckReferences(u)
  <2>1. \/ memory' = [memory EXCEPT ![u] = [memory[u] EXCEPT !.step = "model", !.refs = view[u].refs]]
        \/ memory' = [memory EXCEPT ![u] = [memory[u] EXCEPT !.step = "concept"]]
    BY <1>0, <1>4, <1>9 DEF CheckReferences
  <2> QED BY <1>1, <1>3, <2>1 DEF Memory
<1>10. CASE Interpreted(u)
  <2>1. \E n : memory' = [memory EXCEPT ![u] = [NoMemory EXCEPT !.step = "request", !.mapping = n]]
    BY <1>4, <1>10 DEF Interpreted
  <2> QED BY <1>1, <2>1 DEF NoMemory
<1>11. CASE FindConcept(u)
  BY <1>0, <1>4, <1>5, <1>11 DEF FindConcept
<1>12. CASE CorrectionRefused(u) \/ CancelTicket(u)
  BY <1>4, <1>12 DEF CorrectionRefused, CancelTicket
<1>13. CASE Remember(u)
  BY <1>0, <1>4, <1>5, <1>13 DEF Remember
<1>14. CASE ReadRow(u)
  <2>1. u = t
    BY <1>0, <1>4, <1>14 DEF ReadRow
  <2> QED BY <1>4, <1>14, <2>1 DEF ReadRow
<1> QED BY <1>2, <1>6, <1>7, <1>8, <1>9, <1>10, <1>11, <1>12, <1>13, <1>14

-----------------------------------------------------------------------------
(* The lock covers a write.                                                *)

\* A method that ends gives the lock back.
LEMMA LeavesEnd ==
    ASSUME TypeOK, Sound, NEW u \in Threads, Leaves(u)
    PROVE  /\ Leave(u)
           /\ \/ InWrite(u) /\ ~InWrite(u)'
              \/ InNumber(u) /\ ~InNumber(u)'
              \/ InDefine(u) /\ ~InDefine(u)'
              \/ InLearn(u) /\ ~InLearn(u)'
              \/ InCancel(u) /\ ~InCancel(u)'
<1>0. /\ proposal \in [Threads -> Proposal] /\ ingest \in [Ingesters -> Ingest]
      /\ registration \in [Registrars -> Registration] /\ lesson \in [Curators -> Lesson]
      /\ memory \in [Correctors -> Memory]
  BY DEF TypeOK, GovernanceTypeOK, IngestTypeOK, QueriesTypeOK, LearningTypeOK, MemoryTypeOK
<1>1. CASE \E kinds \in {{"semantic"}, {"concept"}, {"metric", "rule"}} : Commit(u, kinds)
  BY <1>0, <1>1 DEF Commit, Abandon, NoProposal, InWrite
<1>2. CASE u \in Ingesters /\ InsertVersion(u)
  <2>1. \E s \in {"fill", "failed"} : ingest' = [ingest EXCEPT ![u] = [ingest[u] EXCEPT !.step = s]]
    BY <1>0, <1>2 DEF InsertVersion
  <2>2. ingest'[u].step # "insert"
    BY <1>0, <1>2, <2>1 DEF Ingest
  <2> QED BY <1>2, <2>2 DEF InsertVersion, InNumber
<1>3. CASE u \in Registrars /\ InsertDefinition(u)
  BY <1>0, <1>3 DEF InsertDefinition, NoRegistration, InDefine
<1>4. CASE u \in Curators /\ InsertExample(u)
  BY <1>0, <1>4 DEF InsertExample, GiveUp, NoLesson, InLearn
<1>5. CASE u \in Correctors /\ CancelTicket(u)
  BY <1>0, <1>5 DEF CancelTicket, Answer, NoMemory, InCancel
<1> QED BY <1>1, <1>2, <1>3, <1>4, <1>5 DEF Leaves

\* A thread in a method has its lock until the method ends.
LEMMA LockedStays ==
    ASSUME TypeOK, Sound, Locked, Next
    PROVE  Locked'
<1>0. /\ holder \in [Replicas -> Threads \cup {NoThread}] /\ replica \in [Threads -> Replicas]
      /\ OneCall
  BY DEF TypeOK, StoreTypeOK, Sound
<1>1. replica' = replica
  BY DEF Next, Writer, Steward, Inferer, Ingester, Explorer, Registrar, Curator, Reader, Corrector, Requester
<1>2. SUFFICES ASSUME NEW t \in Threads, InMethod(t)'
               PROVE  holder'[replica[t]] = t
  BY <1>1 DEF Locked
<1>3. CASE Free(t) /\ Enter(t)
  BY <1>0, <1>3 DEF Enter
<1>4. CASE ~(Free(t) /\ Enter(t))
  <2>1. /\ InWrite(t)' => InWrite(t)
        /\ InNumber(t)' => InNumber(t)
        /\ InDefine(t)' => InDefine(t)
        /\ InLearn(t)' => InLearn(t)
        /\ InCancel(t)' => InCancel(t)
    BY <1>4, WriteBegins, NumberBegins, DefineBegins, LearnBegins, CancelBegins DEF Taken
  <2>2. InMethod(t) /\ holder[replica[t]] = t
    BY <1>2, <2>1 DEF InMethod, Locked
  <2>3. CASE UNCHANGED holder
    BY <2>2, <2>3
  <2>4. ASSUME NEW u \in Threads, Enters(u)
        PROVE  holder'[replica[t]] = t
    <3>1. UNCHANGED holder \/ (Free(u) /\ Enter(u))
      BY <2>4 DEF Enters, ReadResolution, NextVersion, ReadDefinition, CheckPredecessor, ReadRow
    <3>2. ASSUME Free(u), Enter(u)
          PROVE  replica[u] # replica[t]
      BY <2>2, <3>2, ThreadAssumption DEF Free
    <3> QED BY <1>0, <2>2, <3>1, <3>2 DEF Enter
  <2>5. ASSUME NEW u \in Threads, Leaves(u)
        PROVE  holder'[replica[t]] = t
    <3>1. Leave(u) /\ InMethod(u)
      BY <2>5, LeavesEnd DEF InMethod
    <3>2. u # t
      <4>1. SUFFICES ASSUME u = t PROVE FALSE
        OBVIOUS
      <4>2. \/ InWrite(t) /\ ~InWrite(t)'
            \/ InNumber(t) /\ ~InNumber(t)'
            \/ InDefine(t) /\ ~InDefine(t)'
            \/ InLearn(t) /\ ~InLearn(t)'
            \/ InCancel(t) /\ ~InCancel(t)'
        BY <2>5, <4>1, LeavesEnd
      <4>3. InWrite(t)' \/ InNumber(t)' \/ InDefine(t)' \/ InLearn(t)' \/ InCancel(t)'
        BY <1>2 DEF InMethod
      <4> QED BY <1>0, <2>1, <4>2, <4>3, Exclusive
    <3>3. holder[replica[u]] = u
      BY <3>1 DEF Locked
    <3>4. replica[u] # replica[t]
      BY <2>2, <3>2, <3>3
    <3> QED BY <1>0, <2>2, <3>1, <3>4 DEF Leave
  <2> QED BY <2>3, <2>4, <2>5, HolderMove
<1> QED BY <1>3, <1>4

\* Two threads of one process are not in a method each.
LEMMA Alone ==
    ASSUME Locked, NEW t \in Threads, NEW u \in Threads, OneProcess, InMethod(t), InMethod(u)
    PROVE  t = u
<1>1. replica[t] = replica[u]
  BY DEF OneProcess
<1> QED BY <1>1 DEF Locked

\* In one process a definition is written to the resolution it was read for.
Fresh ==
    OneProcess => \A t \in Threads : InWrite(t) =>
        /\ proposal[t].seen = resolution[proposal[t].key]
        /\ IsCorrection(proposal[t]) => proposal[t].expected = proposal[t].seen.updated

\* Nobody in the process writes between a read and its write.
LEMMA FreshStays ==
    ASSUME TypeOK, Sound, Locked, Fresh, Next
    PROVE  Fresh'
<1>0. /\ proposal \in [Threads -> Proposal] /\ resolution \in [Keys -> Resolution]
      /\ \A t \in Threads : GoodProposal(proposal[t], versions)
  BY DEF TypeOK, GovernanceTypeOK, Sound
<1>1. OneProcess' <=> OneProcess
  <2>1. replica' = replica
    BY DEF Next, Writer, Steward, Inferer, Ingester, Explorer, Registrar, Curator, Reader, Corrector, Requester
  <2> QED BY <2>1 DEF OneProcess
<1>2. SUFFICES ASSUME OneProcess, NEW t \in Threads, InWrite(t)'
               PROVE  /\ proposal'[t].seen = resolution'[proposal'[t].key]
                      /\ IsCorrection(proposal'[t]) => proposal'[t].expected = proposal'[t].seen.updated
  BY <1>1 DEF Fresh
<1>3. CASE ~InWrite(t)
  <2>1. Taken(t)
    BY <1>2, <1>3, WriteBegins
  <2> DEFINE d == proposal[t]
             q == [d EXCEPT !.step = "commit", !.seen = resolution[d.key]]
  <2>2. proposal'[t] = q /\ UNCHANGED resolution /\ ExpectationHolds(t)
    BY <1>0, <2>1 DEF Taken, Proposes
  <2>3. q.seen = resolution[d.key] /\ q.key = d.key /\ q.status = d.status /\ q.expected = d.expected
    BY <1>0 DEF Proposal
  <2> HIDE DEF q
  <2> QED BY <2>2, <2>3 DEF ExpectationHolds, IsCorrection
<1>4. CASE InWrite(t)
  <2>1. proposal'[t] = proposal[t]
    <3>1. ASSUME NEW u \in Threads, proposal[u].step # "commit", \E p : Proposes(u, p)
          PROVE  proposal'[t] = proposal[t]
      BY <1>0, <1>4, <3>1 DEF Proposes, InWrite
    <3>2. ASSUME NEW u \in Threads, Found(u) \/ Filled(u) \/ Checked(u) \/ Taken(u)
          PROVE  proposal'[t] = proposal[t]
      BY <3>1, <3>2 DEF Found, Filled, Checked, Taken
    <3>3. ASSUME NEW u \in Threads, Dropped(u) \/ Written(u)
          PROVE  proposal'[t] = proposal[t]
      <4>1. proposal' = [proposal EXCEPT ![u] = NoProposal]
        BY <3>3 DEF Dropped, Written, Proposes
      <4> QED BY <1>0, <1>2, <4>1 DEF InWrite, NoProposal
    <3>4. ASSUME NEW u \in Threads, Opened(u) \/ Worded(u)
          PROVE  proposal'[t] = proposal[t]
      <4>1. \E p : proposal' = [proposal EXCEPT ![u] = p] /\ p.step # "commit"
        BY <3>4 DEF Opened, Worded, Proposes
      <4> QED BY <1>0, <1>2, <4>1 DEF InWrite
    <3> QED BY <3>2, <3>3, <3>4, ProposalMove
  <2>2. UNCHANGED resolution
    <3>1. ASSUME NEW u \in Threads, Written(u)
          PROVE  FALSE
      <4>1. u = t
        BY <1>2, <1>4, <3>1, Alone DEF Written, InMethod, InWrite
      <4> QED BY <1>0, <1>2, <3>1, <4>1 DEF Written, Proposes, InWrite, NoProposal
    <3> QED BY <3>1, ProposalMove DEF Dropped, Opened, Worded, Found, Filled, Checked, Taken
  <2> QED BY <1>2, <1>4, <2>1, <2>2 DEF Fresh
<1> QED BY <1>3, <1>4

-----------------------------------------------------------------------------
(* Meaning and what it rests on.                                           *)

\* A description confirmed as it stands is the one its client saw, as long as
\* nobody has written to it since.
GoodBlank(p, rs) ==
    p.step # "idle" /\ p.asIs =>
        /\ p.status = "confirmed"
        /\ p.expected <= rs[p.key].updated
        /\ p.step \in {"looking", "current"} => p.payload = NoPayload
        /\ rs[p.key].updated = p.expected =>
              /\ rs[p.key].payload = p.reviewed
              /\ p.step \notin {"looking", "current"} => p.payload = p.reviewed
        /\ p.step = "commit" => p.payload = p.reviewed

\* What a proposal depends on is confirmed once checked.
GoodDeps(p, rs) ==
    /\ p.step = "current" => KindOf[p.key] = "semantic"
    /\ p.step = "rules" => \A d \in DepsOf[p.key][p.payload] : KindOf[d] = "concept" => rs[d].status = "confirmed"
    /\ p.step \in {"names", "read", "commit"} => \A d \in DepsOf[p.key][p.payload] : rs[d].status = "confirmed"

\* A selected definition speaks of what its version has.
GoodMeaning(k, r, vs) ==
    r.status # "none" /\ r.version # 0 =>
        r.version \in 1..Len(vs) /\ RefsOf[k][r.payload] \subseteq Objects(vs, r.version)

\* Proposals and meanings rest on what was checked.
Settled ==
    /\ \A t \in Threads : GoodBlank(proposal[t], resolution)
    /\ \A k \in Keys : GoodMeaning(k, resolution[k], versions)
    /\ OneProcess =>
          /\ \A t \in Threads : GoodDeps(proposal[t], resolution)
          /\ \A k \in Keys : resolution[k].status # "none" =>
                \A d \in DepsOf[k][resolution[k].payload] : resolution[d].status = "confirmed"

\* A meaning that changes is a later one.
LEMMA MeaningMoves ==
    ASSUME TypeOK, Sound, Next, NEW k \in Keys
    PROVE  resolution'[k] = resolution[k] \/ resolution'[k].updated > resolution[k].updated
<1>0. /\ proposal \in [Threads -> Proposal] /\ resolution \in [Keys -> Resolution]
  BY DEF TypeOK, GovernanceTypeOK
<1>1. ASSUME NEW u \in Threads, Written(u)
      PROVE  resolution'[k] = resolution[k] \/ resolution'[k].updated > resolution[k].updated
  <2> DEFINE d == proposal[u]
             r == resolution[k]
  <2>1. CASE k # d.key
    BY <1>0, <1>1, <2>1 DEF Written
  <2>2. CASE k = d.key
    <3>1. resolution'[k] = Resolved(r, d.seen, d) /\ r.updated \in Nat /\ d.seen \in Resolution
      BY <1>0, <1>1, <2>2 DEF Written, Proposal, Resolution
    <3>2. Resolved(r, d.seen, d) = r \/ Resolved(r, d.seen, d).updated = r.updated + 1
      BY <3>1 DEF Resolved, Resolution
    <3> QED BY <3>1, <3>2
  <2> QED BY <2>1, <2>2
<1> QED BY <1>1, ProposalMove DEF Dropped, Opened, Worded, Found, Filled, Checked, Taken

\* In one process, what precedence lets a write do.
LEMMA PrecedenceHolds ==
    ASSUME TypeOK, Sound, Locked, Fresh, Next, OneProcess, NEW k \in Keys, resolution'[k] # resolution[k]
    PROVE  /\ \/ "conflicting" \in {resolution[k].status, resolution'[k].status}
              \/ Rank[resolution'[k].status] >= Rank[resolution[k].status]
           /\ resolution[k].status = "confirmed" => resolution'[k].status = "confirmed"
           /\ resolution[k].status \in {"confirmed", "conflicting"} => CorrectionOf(k)
<1>0. /\ proposal \in [Threads -> Proposal] /\ resolution \in [Keys -> Resolution]
      /\ \A t \in Threads : GoodProposal(proposal[t], versions)
  BY DEF TypeOK, GovernanceTypeOK, Sound
<1>1. PICK u \in Threads : Written(u)
  BY ProposalMove DEF Dropped, Opened, Worded, Found, Filled, Checked, Taken
<1> DEFINE d == proposal[u]
           r == resolution[k]
<1>2. k = d.key
  BY <1>0, <1>1 DEF Written
<1>3. InWrite(u)
  BY <1>1 DEF Written, InWrite
<1>4. d.seen = r /\ (IsCorrection(d) => d.expected = r.updated)
  BY <1>2, <1>3 DEF Fresh
<1>5. resolution'[k] = Resolved(r, r, d)
  BY <1>0, <1>1, <1>2, <1>4 DEF Written
<1>6. /\ d.status \in {"unknown", "inferred", "imported", "confirmed"}
      /\ r \in Resolution /\ r.status \in Status
  BY <1>0, <1>1 DEF GoodProposal, Written, Resolution
<1>7. Accepts(r, d) \/ Disputes(r, d)
  BY <1>5 DEF Resolved
<1>8. CASE Accepts(r, d)
  <2>1. resolution'[k].status = d.status
    BY <1>5, <1>8 DEF Resolved
  <2>2. \/ "conflicting" \in {r.status, d.status}
        \/ Rank[d.status] >= Rank[r.status]
    BY <1>6, <1>8 DEF Accepts, Rank, IsCorrection, Status
  <2>3. r.status = "confirmed" => d.status = "confirmed"
    BY <1>6, <1>8 DEF Accepts, Rank, IsCorrection, Status
  <2>4. r.status \in {"confirmed", "conflicting"} => IsCorrection(d)
    BY <1>6, <1>8 DEF Accepts, Rank, IsCorrection, Status
  <2>5. IsCorrection(d) => CorrectionOf(k)
    BY <1>2, <1>3, <1>4 DEF CorrectionOf, InWrite
  <2> QED BY <2>1, <2>2, <2>3, <2>4, <2>5
<1>9. CASE ~Accepts(r, d) /\ Disputes(r, d)
  <2>1. resolution'[k].status = "conflicting"
    BY <1>5, <1>6, <1>9 DEF Resolved, Resolution
  <2>2. r.status \notin {"confirmed", "conflicting"}
    BY <1>6, <1>9 DEF Disputes, Rank, IsCorrection
  <2> QED BY <2>1, <2>2
<1> QED BY <1>7, <1>8, <1>9

\* A blank correction stays good while meanings only change to later ones.
LEMMA BlankKept ==
    ASSUME NEW rs \in [Keys -> Resolution], NEW ss \in [Keys -> Resolution],
           \A k \in Keys : ss[k] = rs[k] \/ ss[k].updated > rs[k].updated,
           NEW p \in Proposal, p.step # "idle" => p.key \in Keys, GoodBlank(p, rs)
    PROVE  GoodBlank(p, ss)
<1>1. SUFFICES ASSUME p.step # "idle", p.asIs PROVE GoodBlank(p, ss)
  BY DEF GoodBlank
<1>2. /\ p.key \in Keys /\ p.expected \in Nat
      /\ rs[p.key].updated \in Nat /\ ss[p.key].updated \in Nat
  BY <1>1 DEF Proposal, Resolution
<1>3. ss[p.key] = rs[p.key] \/ ss[p.key].updated > rs[p.key].updated
  BY <1>2
<1> QED BY <1>1, <1>2, <1>3 DEF GoodBlank

\* Every step keeps blank corrections good.
LEMMA BlanksStay ==
    ASSUME TypeOK, Sound, Settled, Next
    PROVE  \A t \in Threads : GoodBlank(proposal'[t], resolution')
<1>0. /\ proposal \in [Threads -> Proposal] /\ resolution \in [Keys -> Resolution]
      /\ resolution' \in [Keys -> Resolution]
      /\ \A t \in Threads : GoodProposal(proposal[t], versions)
      /\ \A t \in Threads : GoodBlank(proposal[t], resolution)
  BY ResolutionsStay DEF TypeOK, GovernanceTypeOK, Sound, Settled
<1>1. \A t \in Threads : GoodBlank(proposal[t], resolution')
  BY <1>0, MeaningMoves, BlankKept DEF GoodProposal
<1>2. SUFFICES \/ UNCHANGED proposal
               \/ \E p : \E u \in Threads : Proposes(u, p) /\ GoodBlank(p, resolution')
  BY <1>0, <1>1 DEF Proposes
<1>3. GoodBlank(NoProposal, resolution')
  BY DEF GoodBlank, NoProposal
<1>4. ASSUME NEW u \in Threads, Opened(u)
      PROVE  \E p : Proposes(u, p) /\ GoodBlank(p, resolution')
  BY <1>0, <1>4 DEF Opened, GoodBlank, Resolution
<1>5. ASSUME NEW u \in Threads, Worded(u)
      PROVE  \E p : Proposes(u, p) /\ GoodBlank(p, resolution')
  BY <1>5 DEF Worded, GoodBlank
<1>6. ASSUME NEW u \in Threads, Found(u)
      PROVE  \E p : Proposes(u, p) /\ GoodBlank(p, resolution')
  <2> DEFINE d == proposal[u]
  <2>1. PICK s \in {"current", "names", "read", "concepts"}, v \in Nat :
          /\ Proposes(u, [d EXCEPT !.step = s, !.version = v]) /\ d.step = "looking"
          /\ UNCHANGED resolution
          /\ s # "current" => KindOf[d.key] # "semantic"
    BY <1>6 DEF Found
  <2> DEFINE q == [d EXCEPT !.step = s, !.version = v]
  <2>2. d \in Proposal /\ GoodBlank(d, resolution)
    BY <1>0
  <2>3. /\ q.step = s /\ q.asIs = d.asIs /\ q.status = d.status /\ q.expected = d.expected
        /\ q.key = d.key /\ q.payload = d.payload /\ q.reviewed = d.reviewed
    BY <2>2 DEF Proposal
  <2>4. d.payload = NoPayload => KindOf[d.key] = "semantic"
    BY <1>0, <2>1 DEF GoodProposal
  <2> HIDE DEF q
  <2>5. GoodBlank(q, resolution)
    BY <2>1, <2>2, <2>3, <2>4 DEF GoodBlank
  <2> QED BY <2>1, <2>5 DEF q
<1>7. ASSUME NEW u \in Threads, Filled(u)
      PROVE  \E p : Proposes(u, p) /\ GoodBlank(p, resolution')
  <2> DEFINE d == proposal[u]
  <2>1. PICK f \in Payloads :
          /\ Proposes(u, [d EXCEPT !.step = "read", !.payload = f]) /\ d.step = "current"
          /\ UNCHANGED resolution
          /\ d.payload = NoPayload => f = resolution[d.key].payload
    BY <1>7 DEF Filled
  <2> DEFINE q == [d EXCEPT !.step = "read", !.payload = f]
  <2>2. d \in Proposal /\ GoodBlank(d, resolution)
    BY <1>0
  <2>3. /\ q.step = "read" /\ q.asIs = d.asIs /\ q.status = d.status /\ q.expected = d.expected
        /\ q.key = d.key /\ q.payload = f /\ q.reviewed = d.reviewed
    BY <2>2 DEF Proposal
  <2> HIDE DEF q
  <2>4. GoodBlank(q, resolution)
    BY <2>1, <2>2, <2>3 DEF GoodBlank
  <2> QED BY <2>1, <2>4 DEF q
<1>8. ASSUME NEW u \in Threads, Checked(u)
      PROVE  \E p : Proposes(u, p) /\ GoodBlank(p, resolution')
  <2> DEFINE d == proposal[u]
  <2>1. PICK s \in {"rules", "names", "read"} :
          /\ Proposes(u, [d EXCEPT !.step = s]) /\ d.step \in {"concepts", "rules", "names"}
          /\ UNCHANGED resolution
    BY <1>8 DEF Checked
  <2> DEFINE q == [d EXCEPT !.step = s]
  <2>2. d \in Proposal /\ GoodBlank(d, resolution)
    BY <1>0
  <2>3. /\ q.step = s /\ q.asIs = d.asIs /\ q.status = d.status /\ q.expected = d.expected
        /\ q.key = d.key /\ q.payload = d.payload /\ q.reviewed = d.reviewed
    BY <2>2 DEF Proposal
  <2> HIDE DEF q
  <2>4. GoodBlank(q, resolution)
    BY <2>1, <2>2, <2>3 DEF GoodBlank
  <2> QED BY <2>1, <2>4 DEF q
<1>9. ASSUME NEW u \in Threads, Taken(u)
      PROVE  \E p : Proposes(u, p) /\ GoodBlank(p, resolution')
  <2> DEFINE d == proposal[u]
             q == [d EXCEPT !.step = "commit", !.seen = resolution[d.key]]
  <2>1. Proposes(u, q) /\ d.step = "read" /\ UNCHANGED resolution /\ ExpectationHolds(u)
    BY <1>9 DEF Taken
  <2>2. d \in Proposal /\ GoodBlank(d, resolution)
    BY <1>0
  <2>3. /\ q.step = "commit" /\ q.asIs = d.asIs /\ q.status = d.status /\ q.expected = d.expected
        /\ q.key = d.key /\ q.payload = d.payload /\ q.reviewed = d.reviewed
    BY <2>2 DEF Proposal
  <2> HIDE DEF q
  <2>4. GoodBlank(q, resolution)
    BY <2>1, <2>2, <2>3 DEF GoodBlank, ExpectationHolds, IsCorrection
  <2> QED BY <2>1, <2>4
<1> QED BY <1>3, <1>4, <1>5, <1>6, <1>7, <1>8, <1>9, ProposalMove DEF Dropped, Written

-----------------------------------------------------------------------------
(* The governed meaning: the theorems.                                     *)

\* What was found confirmed stays so while confirmed meanings do.
LEMMA DepsKept ==
    ASSUME NEW rs, NEW ss, \A k \in Keys : rs[k].status = "confirmed" => ss[k].status = "confirmed",
           NEW p, p.step # "idle" => p.key \in Keys /\ p.payload \in Payloads \cup {NoPayload},
           GoodDeps(p, rs)
    PROVE  GoodDeps(p, ss)
<1>1. p.step # "idle" => DepsOf[p.key][p.payload] \subseteq Keys
  BY KeyAssumption
<1> QED BY <1>1 DEF GoodDeps

\* In one process, what was checked to be confirmed stays so.
LEMMA DepsStay ==
    ASSUME TypeOK, Sound, Locked, Fresh, Settled, Next, OneProcess
    PROVE  \A t \in Threads : GoodDeps(proposal'[t], resolution')
<1>0. /\ proposal \in [Threads -> Proposal] /\ resolution \in [Keys -> Resolution]
      /\ \A t \in Threads : GoodProposal(proposal[t], versions)
      /\ \A t \in Threads : GoodDeps(proposal[t], resolution)
  BY DEF TypeOK, GovernanceTypeOK, Sound, Settled
<1>1. \A t \in Threads : GoodDeps(proposal[t], resolution')
  <2>1. \A k \in Keys : resolution[k].status = "confirmed" => resolution'[k].status = "confirmed"
    BY PrecedenceHolds
  <2>2. \A t \in Threads : proposal[t].step # "idle" =>
           proposal[t].key \in Keys /\ proposal[t].payload \in Payloads \cup {NoPayload}
    BY <1>0 DEF GoodProposal, Proposal
  <2> QED BY <1>0, <2>1, <2>2, DepsKept
<1>2. SUFFICES \/ UNCHANGED proposal
               \/ \E p : \E u \in Threads : Proposes(u, p) /\ GoodDeps(p, resolution')
  BY <1>0, <1>1 DEF Proposes
<1>3. GoodDeps(NoProposal, resolution')
  BY DEF GoodDeps, NoProposal
<1>4. \A k \in Keys, f \in Payloads \cup {NoPayload} :
          KindOf[k] \in {"semantic", "concept"} => DepsOf[k][f] = {}
  <2>1. \A k \in Keys, f \in Payloads \cup {NoPayload} : \A d \in DepsOf[k][f] :
            KindOf[k] \in {"metric", "rule"}
    BY KeyAssumption
  <2> QED BY <2>1
<1>5. ASSUME NEW u \in Threads, Opened(u)
      PROVE  \E p : Proposes(u, p) /\ GoodDeps(p, resolution')
  BY <1>5 DEF Opened, GoodDeps
<1>6. ASSUME NEW u \in Threads, Worded(u)
      PROVE  \E p : Proposes(u, p) /\ GoodDeps(p, resolution')
  BY <1>4, <1>6 DEF Worded, GoodDeps, Proposal
<1>7. ASSUME NEW u \in Threads, Found(u)
      PROVE  \E p : Proposes(u, p) /\ GoodDeps(p, resolution')
  <2> DEFINE d == proposal[u]
  <2>1. PICK s \in {"current", "names", "read", "concepts"}, v \in Nat :
          /\ Proposes(u, [d EXCEPT !.step = s, !.version = v]) /\ d.step = "looking"
          /\ s = "current" => KindOf[d.key] = "semantic"
          /\ s \in {"names", "read"} => KindOf[d.key] = "concept"
    BY <1>7 DEF Found
  <2> DEFINE q == [d EXCEPT !.step = s, !.version = v]
  <2>2. /\ q.step = s /\ q.key = d.key /\ d.key \in Keys
        /\ q.payload \in Payloads \cup {NoPayload}
    BY <1>0, <2>1 DEF Proposal, GoodProposal
  <2> HIDE DEF q
  <2>3. GoodDeps(q, resolution')
    BY <1>4, <2>1, <2>2 DEF GoodDeps
  <2> QED BY <2>1, <2>3 DEF q
<1>8. ASSUME NEW u \in Threads, Filled(u)
      PROVE  \E p : Proposes(u, p) /\ GoodDeps(p, resolution')
  <2> DEFINE d == proposal[u]
  <2>1. PICK f \in Payloads : Proposes(u, [d EXCEPT !.step = "read", !.payload = f]) /\ d.step = "current"
    BY <1>8 DEF Filled
  <2> DEFINE q == [d EXCEPT !.step = "read", !.payload = f]
  <2>2. /\ q.step = "read" /\ q.key = d.key /\ d.key \in Keys /\ KindOf[d.key] = "semantic"
        /\ q.payload \in Payloads
    BY <1>0, <2>1 DEF Proposal, GoodProposal, GoodDeps
  <2> HIDE DEF q
  <2>3. GoodDeps(q, resolution')
    BY <1>4, <2>2 DEF GoodDeps
  <2> QED BY <2>1, <2>3 DEF q
<1>9. ASSUME NEW u \in Threads, Checked(u)
      PROVE  \E p : Proposes(u, p) /\ GoodDeps(p, resolution')
  <2> DEFINE d == proposal[u]
  <2>1. PICK s \in {"rules", "names", "read"} :
          /\ Proposes(u, [d EXCEPT !.step = s]) /\ UNCHANGED resolution
          /\ \/ /\ d.step = "concepts" /\ DepsAreConfirmed(d, "concept")
                /\ KindOf[d.key] = "metric" => s = "rules"
             \/ d.step = "rules" /\ DepsAreConfirmed(d, "rule") /\ s # "rules"
             \/ d.step = "names" /\ s = "read"
    BY <1>9 DEF Checked
  <2> DEFINE q == [d EXCEPT !.step = s]
  <2>2. /\ q.step = s /\ q.key = d.key /\ d.key \in Keys
        /\ q.payload = d.payload /\ d.payload \in Payloads \cup {NoPayload}
    BY <1>0, <2>1 DEF Proposal, GoodProposal
  <2>3. \A e \in DepsOf[d.key][d.payload] : KindOf[e] = "concept" \/ (KindOf[e] = "rule" /\ KindOf[d.key] = "metric")
    BY <2>2, KeyAssumption
  <2>4. GoodDeps(d, resolution)
    BY <1>0
  <2> HIDE DEF q
  <2>5. GoodDeps(q, resolution)
    BY <2>1, <2>2, <2>3, <2>4 DEF GoodDeps, DepsAreConfirmed
  <2> QED BY <2>1, <2>5 DEF q
<1>10. ASSUME NEW u \in Threads, Taken(u)
      PROVE  \E p : Proposes(u, p) /\ GoodDeps(p, resolution')
  <2> DEFINE d == proposal[u]
             q == [d EXCEPT !.step = "commit", !.seen = resolution[d.key]]
  <2>1. Proposes(u, q) /\ d.step = "read" /\ UNCHANGED resolution
    BY <1>10 DEF Taken
  <2>2. q.step = "commit" /\ q.key = d.key /\ q.payload = d.payload /\ GoodDeps(d, resolution)
    BY <1>0 DEF Proposal
  <2> HIDE DEF q
  <2> QED BY <2>1, <2>2 DEF GoodDeps
<1> QED BY <1>3, <1>5, <1>6, <1>7, <1>8, <1>9, <1>10, ProposalMove DEF Dropped, Written

\* A meaning stays in its version while versions grow.
LEMMA MeaningKept ==
    ASSUME NEW vs \in Seq(Version), NEW ws \in Seq(Version), Grown(vs, ws), NEW k \in Keys, NEW r \in Resolution,
           GoodMeaning(k, r, vs)
    PROVE  GoodMeaning(k, r, ws)
BY DEF GoodMeaning, Objects, Grown, Resolution

\* What is written speaks of the version it was located in.
LEMMA MeaningsStay ==
    ASSUME TypeOK, Sound, Settled, Next
    PROVE  \A k \in Keys : GoodMeaning(k, resolution'[k], versions')
<1>0. /\ proposal \in [Threads -> Proposal] /\ resolution \in [Keys -> Resolution]
      /\ \A t \in Threads : GoodProposal(proposal[t], versions)
      /\ \A k \in Keys : GoodMeaning(k, resolution[k], versions)
      /\ versions \in Seq(Version) /\ versions' \in Seq(Version) /\ Grown(versions, versions')
      /\ resolution' \in [Keys -> Resolution]
  BY VersionsGrow, ResolutionsStay DEF TypeOK, StoreTypeOK, GovernanceTypeOK, Sound, Settled
<1>1. SUFFICES ASSUME NEW k \in Keys PROVE GoodMeaning(k, resolution'[k], versions)
  BY <1>0, MeaningKept
<1>2. CASE resolution'[k] = resolution[k]
  BY <1>0, <1>2
<1>3. CASE resolution'[k] # resolution[k]
  <2>1. PICK u \in Threads : Written(u)
    BY <1>3, ProposalMove DEF Dropped, Opened, Worded, Found, Filled, Checked, Taken
  <2> DEFINE d == proposal[u]
  <2>2. k = d.key /\ resolution'[k] = Resolved(resolution[k], d.seen, d)
    BY <1>0, <1>3, <2>1 DEF Written
  <2>3. /\ d.version \in 1..Len(versions) /\ RefsOf[k][d.payload] \subseteq Objects(versions, d.version)
    BY <1>0, <2>1, <2>2 DEF Written, GoodProposal, Located
  <2>4. d.seen \in Resolution
    BY <1>0 DEF Proposal
  <2>5. \/ resolution'[k].version = d.version /\ resolution'[k].payload = d.payload
        \/ resolution'[k].version = 0
    BY <1>3, <2>2, <2>4 DEF Resolved, Resolution
  <2> QED BY <2>3, <2>5 DEF GoodMeaning
<1> QED BY <1>2, <1>3

\* Every step keeps proposals and meanings resting on what was checked.
LEMMA SettledStays ==
    ASSUME TypeOK, Sound, Locked, Fresh, Settled, Next
    PROVE  Settled'
<1>0. /\ proposal \in [Threads -> Proposal] /\ resolution \in [Keys -> Resolution]
      /\ \A t \in Threads : GoodProposal(proposal[t], versions)
  BY DEF TypeOK, GovernanceTypeOK, Sound
<1>1. OneProcess' <=> OneProcess
  <2>1. replica' = replica
    BY DEF Next, Writer, Steward, Inferer, Ingester, Explorer, Registrar, Curator, Reader, Corrector, Requester
  <2> QED BY <2>1 DEF OneProcess
<1>2. ASSUME OneProcess, NEW k \in Keys, resolution'[k].status # "none",
             NEW e \in DepsOf[k][resolution'[k].payload]
      PROVE  resolution'[e].status = "confirmed"
  <2>0. resolution'[k].payload \in Payloads \cup {NoPayload}
    BY ResolutionsStay DEF Resolution
  <2>1. e \in Keys
    BY <1>2, <2>0, KeyAssumption
  <2>2. resolution[e].status = "confirmed" => resolution'[e].status = "confirmed"
    BY <1>2, <2>1, PrecedenceHolds
  <2>3. CASE resolution[k].status # "none" /\ resolution'[k].payload = resolution[k].payload
    BY <1>2, <2>2, <2>3 DEF Settled
  <2>4. CASE ~(resolution[k].status # "none" /\ resolution'[k].payload = resolution[k].payload)
    <3>1. PICK u \in Threads : Written(u)
      BY <1>2, <2>4, ProposalMove DEF Dropped, Opened, Worded, Found, Filled, Checked, Taken
    <3> DEFINE d == proposal[u]
    <3>2. k = d.key /\ d.step = "commit" /\ resolution'[k] = Resolved(resolution[k], d.seen, d)
      BY <1>0, <1>2, <2>4, <3>1 DEF Written
    <3>3. d.seen = resolution[k] /\ d.seen \in Resolution
      BY <1>0, <1>2, <3>2 DEF Fresh, InWrite
    <3>4. Accepts(d.seen, d)
      BY <1>2, <2>4, <3>2, <3>3 DEF Resolved, Disputes, Resolution
    <3>5. resolution'[k].payload = d.payload
      BY <3>2, <3>4 DEF Resolved
    <3>6. resolution[e].status = "confirmed"
      BY <1>2, <3>2, <3>5 DEF Settled, GoodDeps
    <3> QED BY <2>2, <3>6
  <2> QED BY <2>3, <2>4
<1> QED BY <1>1, <1>2, BlanksStay, DepsStay, MeaningsStay DEF Settled

\* At first nobody is in a method, and the meaning was confirmed call by call.
LEMMA GovernedInit ==
    ASSUME Init
    PROVE  Locked /\ Fresh /\ Settled
<1>1. PICK d \in Deployments : StoreInit(d) /\ GovernanceInit(d)
  BY DEF Init
<1>2. \A t \in Threads : proposal[t] = NoProposal
  BY <1>1 DEF GovernanceInit
<1>3. \A t \in Threads : ~InMethod(t)
  BY <1>2, RegistrarAssumption
     DEF Init, IngestInit, QueriesInit, LearningInit, MemoryInit, InMethod, InWrite, InNumber, InDefine, InLearn,
         InCancel, NoProposal, NoIngest, NoRegistration, NoLesson, NoMemory
<1>4. Locked /\ Fresh
  BY <1>3 DEF Locked, Fresh, InMethod
<1>5. \A t \in Threads : GoodBlank(proposal[t], resolution) /\ GoodDeps(proposal[t], resolution)
  BY <1>2 DEF GoodBlank, GoodDeps, NoProposal
<1>6. ASSUME NEW k \in Keys, resolution[k].status # "none"
      PROVE  /\ GoodMeaning(k, resolution[k], versions)
             /\ \A e \in DepsOf[k][resolution[k].payload] : resolution[e].status = "confirmed"
  <2>0. resolution = d.meaning /\ versions = d.versions /\ versions \in Seq(Version)
    BY <1>1, ThreadAssumption DEF GovernanceInit, StoreInit
  <2>1. resolution[k] # Undefined
    BY <1>6 DEF Undefined
  <2>2. /\ resolution[k].version \in DOMAIN versions
        /\ RefsOf[k][resolution[k].payload] \subseteq Objects(versions, resolution[k].version)
        /\ \A e \in DepsOf[k][resolution[k].payload] : resolution[e].status = "confirmed"
    BY <2>0, <2>1, MeaningAssumption DEF Objects
  <2> QED BY <2>0, <2>2 DEF GoodMeaning
<1>7. \A k \in Keys : GoodMeaning(k, resolution[k], versions)
  BY <1>6 DEF GoodMeaning
<1> QED BY <1>4, <1>5, <1>6, <1>7 DEF Settled

\* The inductive invariant of the governed meaning.
Governed == Inv /\ Locked /\ Fresh /\ Settled

\* The lock is held through every method that reads and then writes; in one
\* process a definition is written to the very resolution it was checked against.
THEOREM Governance == Spec => []Governed
<1>1. Init => Governed
  BY InvInit, GovernedInit DEF Governed
<1>2. Governed /\ [Next]_vars => Governed'
  <2>1. ASSUME Governed, Next PROVE Governed'
    BY <2>1, InvNext, LockedStays, FreshStays, SettledStays DEF Governed, Inv
  <2>2. ASSUME Governed, UNCHANGED vars PROVE Governed'
    <3>1. Locked'
      BY <2>2 DEF Governed, Locked, InMethod, InWrite, InNumber, InDefine, InLearn, InCancel,
                  vars, storeVars, governanceVars, queryVars, learningVars, memoryVars
    <3>2. Fresh' /\ Settled'
      BY <2>2 DEF Governed, Fresh, Settled, OneProcess, InWrite, vars, storeVars, governanceVars
    <3> QED BY <2>2, <3>1, <3>2, InvNext DEF Governed
  <2> QED BY <2>1, <2>2
<1> QED BY <1>1, <1>2, PTL DEF Spec

\* A selected definition speaks of objects its version has, in any number of
\* processes; in one process what it depends on is confirmed for ever.
THEOREM Standing == Spec => []DefinitionsStand
<1>1. Governed => DefinitionsStand
  BY DEF Governed, Settled, GoodMeaning, DefinitionsStand, Objects
<1> QED BY <1>1, Governance, PTL

\* No interleaving in one process lets authority fall, and in any number a
\* description confirmed as it stood is the one its client had loaded.
THEOREM Authority == Spec => AuthorityHolds
<1> DEFINE Keeps == OneProcess =>
            \A k \in Keys :
               resolution'[k] # resolution[k] =>
                   /\ resolution'[k].updated > resolution[k].updated
                   /\ \/ "conflicting" \in {resolution[k].status, resolution'[k].status}
                      \/ Rank[resolution'[k].status] >= Rank[resolution[k].status]
                   /\ resolution[k].status \in {"confirmed", "conflicting"} => CorrectionOf(k)
           Blank == \A t \in Stewards : proposal[t].step = "commit" /\ proposal[t].asIs
                      => proposal[t].payload = proposal[t].reviewed
<1>1. Governed => Blank
  BY GovernorAssumption DEF Governed, Settled, GoodBlank
<1>2. Governed /\ Next => Keeps
  BY MeaningMoves, PrecedenceHolds DEF Governed, Inv
<1>3. UNCHANGED vars => UNCHANGED resolution
  BY DEF vars, governanceVars
<1>4. Governed /\ [Next]_vars => [Keeps /\ Blank]_resolution
  <2> HIDE DEF Keeps, Blank
  <2> QED BY <1>1, <1>2, <1>3
<1> QED BY <1>4, Governance, PTL DEF Spec, AuthorityHolds

-----------------------------------------------------------------------------
(* Sequences without duplicates, and the seeds.                            *)

\* What a sequence is made of.
Elements(s) == {s[i] : i \in DOMAIN s}

\* A sequence without duplicates.
Unrepeated(s) == \A i, j \in DOMAIN s : s[i] = s[j] => i = j

\* A new element repeats nothing.
LEMMA AppendUnrepeated ==
    ASSUME NEW S, NEW s \in Seq(S), Unrepeated(s), NEW x \in S, x \notin Elements(s)
    PROVE  /\ Unrepeated(Append(s, x))
           /\ \A y : y \in Elements(Append(s, x)) <=> y \in Elements(s) \/ y = x
<1>1. /\ Len(s) \in Nat /\ DOMAIN s = 1..Len(s) /\ DOMAIN Append(s, x) = 1..(Len(s) + 1)
      /\ \A i \in 1..Len(s) : Append(s, x)[i] = s[i] /\ s[i] # x
      /\ Append(s, x)[Len(s) + 1] = x
  BY DEF Elements
<1>2. Unrepeated(Append(s, x))
  BY <1>1 DEF Unrepeated
<1>3. ASSUME NEW y, y \in Elements(s) \/ y = x
      PROVE  y \in Elements(Append(s, x))
  BY <1>1, <1>3 DEF Elements
<1>4. ASSUME NEW y, y \in Elements(Append(s, x))
      PROVE  y \in Elements(s) \/ y = x
  <2>1. PICK i \in 1..(Len(s) + 1) : y = Append(s, x)[i]
    BY <1>1, <1>4 DEF Elements
  <2> QED BY <1>1, <2>1 DEF Elements
<1> QED BY <1>2, <1>3, <1>4

\* Two sequences, one after the other.
LEMMA ConcatOf ==
    ASSUME NEW S, NEW s \in Seq(S), NEW u \in Seq(S)
    PROVE  /\ s \o u \in Seq(S) /\ Len(s \o u) = Len(s) + Len(u)
           /\ \A i \in 1..Len(s) : (s \o u)[i] = s[i]
           /\ \A i \in 1..(Len(s) + Len(u)) :
                 i > Len(s) => i - Len(s) \in 1..Len(u) /\ (s \o u)[i] = u[i - Len(s)]
OBVIOUS

\* Two sequences with nothing in common, one after the other.
LEMMA ConcatUnrepeated ==
    ASSUME NEW S, NEW s \in Seq(S), NEW u \in Seq(S), Unrepeated(s), Unrepeated(u),
           \A x \in Elements(u) : x \notin Elements(s)
    PROVE  /\ s \o u \in Seq(S) /\ Unrepeated(s \o u)
           /\ \A y : y \in Elements(s \o u) <=> y \in Elements(s) \/ y \in Elements(u)
<1>1. /\ Len(s) \in Nat /\ Len(u) \in Nat /\ DOMAIN s = 1..Len(s) /\ DOMAIN u = 1..Len(u)
      /\ s \o u \in Seq(S) /\ DOMAIN (s \o u) = 1..(Len(s) + Len(u))
      /\ \A i \in 1..Len(s) : (s \o u)[i] = s[i]
      /\ \A i \in 1..(Len(s) + Len(u)) : i > Len(s) => i - Len(s) \in 1..Len(u) /\ (s \o u)[i] = u[i - Len(s)]
  BY ConcatOf
<1>2. \A i \in 1..Len(s), j \in 1..Len(u) : s[i] # u[j]
  BY <1>1 DEF Elements
<1>3. Unrepeated(s \o u)
  <2> SUFFICES ASSUME NEW i \in DOMAIN (s \o u), NEW j \in DOMAIN (s \o u), (s \o u)[i] = (s \o u)[j]
               PROVE  i = j
    BY DEF Unrepeated
  <2>1. CASE i <= Len(s) /\ j <= Len(s)
    BY <1>1, <2>1 DEF Unrepeated
  <2>2. CASE i > Len(s) /\ j > Len(s)
    <3>1. i - Len(s) \in DOMAIN u /\ j - Len(s) \in DOMAIN u /\ u[i - Len(s)] = u[j - Len(s)]
      BY <1>1, <2>2
    <3>2. i - Len(s) = j - Len(s)
      BY <3>1 DEF Unrepeated
    <3> QED BY <1>1, <3>2
  <2>3. CASE i <= Len(s) /\ j > Len(s)
    BY <1>1, <1>2, <2>3
  <2>4. CASE i > Len(s) /\ j <= Len(s)
    BY <1>1, <1>2, <2>4
  <2> QED BY <1>1, <2>1, <2>2, <2>3, <2>4
<1>4. ASSUME NEW y, y \in Elements(s \o u)
      PROVE  y \in Elements(s) \/ y \in Elements(u)
  <2>1. PICK i \in 1..(Len(s) + Len(u)) : y = (s \o u)[i]
    BY <1>1, <1>4 DEF Elements
  <2>2. CASE i <= Len(s)
    BY <1>1, <2>1, <2>2 DEF Elements
  <2>3. CASE i > Len(s)
    BY <1>1, <2>1, <2>3 DEF Elements
  <2> QED BY <1>1, <2>1, <2>2, <2>3
<1>5. ASSUME NEW y, y \in Elements(s)
      PROVE  y \in Elements(s \o u)
  BY <1>1, <1>5 DEF Elements
<1>6. ASSUME NEW y, y \in Elements(u)
      PROVE  y \in Elements(s \o u)
  <2>1. PICK j \in 1..Len(u) : y = u[j]
    BY <1>1, <1>6 DEF Elements
  <2>2. j + Len(s) \in 1..(Len(s) + Len(u)) /\ j + Len(s) > Len(s) /\ (j + Len(s)) - Len(s) = j
    BY <1>1
  <2>3. (s \o u)[j + Len(s)] = u[j]
    BY <1>1, <2>2
  <2> QED BY <1>1, <2>1, <2>2, <2>3 DEF Elements
<1> QED BY <1>1, <1>3, <1>4, <1>5, <1>6

\* What a prefix is.
LEMMA PrefixOf ==
    ASSUME NEW S, NEW s \in Seq(S), NEW n \in Nat
    PROVE  /\ Prefix(s, n) \in Seq(S)
           /\ Len(Prefix(s, n)) = IF Len(s) < n THEN Len(s) ELSE n
           /\ \A i \in 1..Len(Prefix(s, n)) : i \in 1..Len(s) /\ Prefix(s, n)[i] = s[i]
           /\ Elements(Prefix(s, n)) \subseteq Elements(s)
           /\ Unrepeated(s) => Unrepeated(Prefix(s, n))
           /\ Len(s) <= n => Prefix(s, n) = s
<1> DEFINE p == Prefix(s, n)
           m == IF Len(s) < n THEN Len(s) ELSE n
<1>1. m \in Nat /\ m <= Len(s) /\ m <= n /\ Len(s) \in Nat /\ DOMAIN s = 1..Len(s)
  OBVIOUS
<1>2. p = SubSeq(s, 1, m)
  BY DEF Prefix
<1> HIDE DEF p
<1>3. p \in Seq(S) /\ Len(p) = m /\ DOMAIN p = 1..m /\ \A i \in 1..m : i \in 1..Len(s) /\ p[i] = s[i]
  <2> HIDE DEF m
  <2> QED BY <1>1, <1>2
<1>4. Elements(p) \subseteq Elements(s)
  BY <1>1, <1>3 DEF Elements
<1>5. Unrepeated(s) => Unrepeated(p)
  BY <1>1, <1>3 DEF Unrepeated
<1>6. ASSUME Len(s) <= n PROVE p = s
  <2>1. m = Len(s)
    <3>1. CASE Len(s) < n
      BY <3>1
    <3>2. CASE Len(s) = n
      BY <3>2
    <3>3. Len(s) \in Nat
      OBVIOUS
    <3> QED BY <1>6, <3>1, <3>2, <3>3
  <2> HIDE DEF m
  <2>2. /\ p \in [1..Len(s) -> S] /\ s \in [1..Len(s) -> S]
        /\ \A i \in 1..Len(s) : p[i] = s[i]
    BY <1>1, <1>3, <2>1
  <2> QED BY <2>2
<1> QED BY <1>3, <1>4, <1>5, <1>6 DEF p

\* What is chosen of a sequence without duplicates is what is in both, once.
LEMMA AmongPicks ==
    ASSUME NEW S, NEW T, NEW order \in Seq(T), Unrepeated(order)
    PROVE  /\ Among(order, S) \in Seq(S) /\ Unrepeated(Among(order, S))
           /\ \A x : x \in Elements(Among(order, S)) <=> x \in S /\ x \in Elements(order)
<1>0. Len(order) \in Nat /\ DOMAIN order = 1..Len(order)
  OBVIOUS
<1>1. PICK kept : Choices(kept, order, S) /\ Among(order, S) = kept[Len(order)]
  BY <1>0, AmongKept
<1>2. /\ kept \in [Nat -> Seq(S)] /\ kept[0] = <<>>
      /\ \A n \in Nat \ {0} :
            kept[n] = IF order[n] \in S THEN Append(kept[n - 1], order[n]) ELSE kept[n - 1]
  BY <1>1 DEF Choices
<1> DEFINE Picked(n) == /\ Unrepeated(kept[n])
                        /\ \A x : x \in Elements(kept[n]) <=> x \in S /\ \E i \in 1..n : order[i] = x
<1>3. \A n \in Nat : n <= Len(order) => Picked(n)
  <2> SUFFICES ASSUME {n \in Nat : n <= Len(order) /\ ~Picked(n)} # {} PROVE FALSE
    OBVIOUS
  <2>1. PICK m \in Nat : /\ m <= Len(order) /\ ~Picked(m)
                         /\ \A k \in Nat : k < m /\ k <= Len(order) => Picked(k)
    <3> HIDE DEF Picked
    <3> DEFINE X == {n \in Nat : n <= Len(order) /\ ~Picked(n)}
    <3>1. \E x \in X : \A y \in X : ~ (y < x)
      <4>1. X \in SUBSET Nat /\ X # {}
        OBVIOUS
      <4> HIDE DEF X
      <4> QED BY <4>1, LeastOf
    <3> QED BY <3>1
  <2>2. m # 0
    <3>1. Picked(0)
      BY <1>2 DEF Unrepeated, Elements
    <3> QED BY <2>1, <3>1
  <2>3. m - 1 \in Nat /\ m \in 1..Len(order)
    BY <1>0, <2>1, <2>2
  <2>4. Picked(m - 1)
    <3> HIDE DEF Picked
    <3> QED BY <1>0, <2>1, <2>3
  <2>5. kept[m] = IF order[m] \in S THEN Append(kept[m - 1], order[m]) ELSE kept[m - 1]
    BY <1>2, <2>2
  <2>6. \A x : (\E i \in 1..m : order[i] = x) <=> x = order[m] \/ \E i \in 1..(m - 1) : order[i] = x
    <3>1. 1..m = 1..(m - 1) \cup {m}
      BY <2>3
    <3> QED BY <3>1
  <2>7. \A i \in 1..(m - 1) : order[i] # order[m]
    BY <1>0, <2>3 DEF Unrepeated
  <2>8. CASE order[m] \in S
    <3>1. order[m] \notin Elements(kept[m - 1])
      BY <2>4, <2>7
    <3>2. /\ Unrepeated(kept[m])
          /\ \A y : y \in Elements(kept[m]) <=> y \in Elements(kept[m - 1]) \/ y = order[m]
      <4>1. kept[m - 1] \in Seq(S)
        BY <1>2, <2>3
      <4> QED BY <2>4, <2>5, <2>8, <3>1, <4>1, AppendUnrepeated
    <3> QED BY <2>1, <2>4, <2>6, <2>8, <3>2
  <2>9. CASE order[m] \notin S
    BY <2>1, <2>4, <2>5, <2>6, <2>9
  <2> QED BY <2>8, <2>9
<1>4. Picked(Len(order))
  <2> HIDE DEF Picked
  <2> QED BY <1>0, <1>3
<1>5. \A x : x \in Elements(order) <=> \E i \in 1..Len(order) : order[i] = x
  BY <1>0 DEF Elements
<1>6. Among(order, S) \in Seq(S)
  BY <1>0, <1>1, <1>2
<1>7. /\ Unrepeated(Among(order, S))
      /\ \A x : x \in Elements(Among(order, S)) <=> x \in S /\ \E i \in 1..Len(order) : order[i] = x
  BY <1>1, <1>4
<1> QED BY <1>5, <1>6, <1>7

\* An order of the tables met has each of them once.
LEMMA OrdersComplete ==
    ASSUME NEW r \in Reading, NEW order \in Orders(r)
    PROVE  /\ order \in Seq(Tables) /\ Unrepeated(order) /\ Elements(order) = Met(r)
<1>1. Met(r) \subseteq Tables
  BY SchemaAssumption DEF Met, Reading
<1>2. IsFiniteSet(Met(r)) /\ Cardinality(Met(r)) \in Nat
  BY <1>1, FS_Subset, FS_CardinalityType, ReaderAssumption
<1>3. /\ order \in [1..Cardinality(Met(r)) -> Met(r)]
      /\ \A i, j \in DOMAIN order : order[i] = order[j] => i = j
  BY DEF Orders
<1> DEFINE N == Cardinality(Met(r))
           M == Met(r)
<1> HIDE DEF M
<1>4. order \in Injection(1..N, M)
  BY <1>3 DEF Injection, IsInjective, M
<1>5. Cardinality(1..N) = Cardinality(M)
  BY <1>2, FS_Interval DEF M
<1>6. order \in Surjection(1..N, M)
  BY <1>2, <1>4, <1>5, FS_Injection DEF M
<1>7. Elements(order) = M
  BY <1>6 DEF Surjection, Elements
<1> QED BY <1>3, <1>7, OrdersTyped DEF Unrepeated, M

\* A sequence without duplicates has as many elements as places.
LEMMA ElementsCounted ==
    ASSUME NEW S, NEW s \in Seq(S), Unrepeated(s)
    PROVE  Cardinality(Elements(s)) = Len(s)
<1>1. Len(s) \in Nat /\ DOMAIN s = 1..Len(s)
  OBVIOUS
<1>2. s \in [1..Len(s) -> Elements(s)]
  BY <1>1 DEF Elements
<1>3. s \in Bijection(1..Len(s), Elements(s))
  BY <1>1, <1>2 DEF Bijection, Injection, Surjection, IsInjective, Unrepeated, Elements
<1> QED BY <1>1, <1>3, FS_CountingElements DEF ExistsBijection

\* No table is a seed twice, and every seed was read.
LEMMA SeedsUnrepeated ==
    ASSUME NEW r \in Reading, NEW order \in Orders(r), NEW first
    PROVE  /\ Seeds(r, order, first) \in Seq(Tables) /\ Unrepeated(Seeds(r, order, first))
           /\ Elements(Seeds(r, order, first)) \subseteq r.tables
<1> DEFINE Ordered(S) == Among(order, S \cap r.tables)
           Unseeded(s, S) == Ordered(S \ {s[i] : i \in DOMAIN s})
           Room(s) == MaxSeeds - Len(s)
           Good(s) == s \in Seq(Tables) /\ Unrepeated(s) /\ Elements(s) \subseteq r.tables
           concept == Ordered(TablesOf(RefsOfAll(r.concepts)))
           analytic == Unseeded(concept, TablesOf(RefsOfAll(r.metrics \cup r.rules)))
           governed == Prefix(concept \o analytic, MaxSeeds)
           asked == IF Room(governed) > 0 THEN r.examples ELSE first
           example == governed \o Prefix(Unseeded(governed, ExampleRefs(asked)),
                                         IF Room(governed) > 0 THEN Room(governed) ELSE 1)
           lexical == r.ask.tables \cup TablesOf((r.ask.columns \cap r.columns) \cup r.described)
           last == IF Room(example) > 0 THEN Prefix(Unseeded(example, lexical), Room(example))
                   ELSE Among(Prefix(Ordered(lexical), 1), lexical \ {example[i] : i \in DOMAIN example})
<1>0. MaxSeeds \in Nat /\ r.tables \subseteq Tables /\ order \in Seq(Tables) /\ Unrepeated(order)
  BY ReaderAssumption, OrdersComplete DEF Reading
<1>1. \A S : Good(Ordered(S)) /\ \A x \in Elements(Ordered(S)) : x \in S
  <2> TAKE S
  <2> DEFINE s == Among(order, S \cap r.tables)
  <2>1. /\ s \in Seq(S \cap r.tables) /\ Unrepeated(s)
        /\ \A x \in Elements(s) : x \in S \cap r.tables
    BY <1>0, AmongPicks
  <2> HIDE DEF s
  <2>2. s \in Seq(Tables)
    <3>1. S \cap r.tables \subseteq Tables
      BY <1>0
    <3> QED BY <2>1, <3>1, SeqWider
  <2> QED BY <2>1, <2>2 DEF s
<1>2. \A s, S : Good(Unseeded(s, S)) /\ \A x \in Elements(Unseeded(s, S)) : x \notin Elements(s)
  <2> HIDE DEF Ordered, Good
  <2> QED BY <1>1 DEF Elements
<1>3. \A s, u : Good(s) /\ Good(u) /\ (\A x \in Elements(u) : x \notin Elements(s)) => Good(s \o u)
  <2> TAKE s, u
  <2> HAVE Good(s) /\ Good(u) /\ (\A x \in Elements(u) : x \notin Elements(s))
  <2>1. /\ s \o u \in Seq(Tables) /\ Unrepeated(s \o u)
        /\ \A y : y \in Elements(s \o u) <=> y \in Elements(s) \/ y \in Elements(u)
    BY ConcatUnrepeated
  <2> QED BY <2>1
<1>4. \A s : \A n \in Nat : Good(s) => Good(Prefix(s, n)) /\ Elements(Prefix(s, n)) \subseteq Elements(s)
  <2> TAKE s
  <2> TAKE n \in Nat
  <2> HAVE Good(s)
  <2>1. /\ Prefix(s, n) \in Seq(Tables) /\ Elements(Prefix(s, n)) \subseteq Elements(s)
        /\ Unrepeated(Prefix(s, n))
    BY PrefixOf
  <2> QED BY <2>1
<1>5. \A s : Good(s) => Len(s) \in Nat
  OBVIOUS
<1> HIDE DEF Ordered, Unseeded, Good
<1>6. Good(concept \o analytic)
  BY <1>1, <1>2, <1>3
<1> HIDE DEF concept, analytic
<1>7. Good(governed)
  BY <1>0, <1>4, <1>6
<1> HIDE DEF governed
<1>8. Good(example)
  <2> DEFINE n == IF Room(governed) > 0 THEN Room(governed) ELSE 1
             u == Unseeded(governed, ExampleRefs(asked))
  <2>1. n \in Nat
    BY <1>0, <1>5, <1>7
  <2>2. Good(u) /\ \A x \in Elements(u) : x \notin Elements(governed)
    BY <1>2
  <2> HIDE DEF n, u
  <2>3. Good(Prefix(u, n)) /\ Elements(Prefix(u, n)) \subseteq Elements(u)
    BY <1>4, <2>1, <2>2
  <2>4. Good(governed \o Prefix(u, n))
    BY <1>3, <1>7, <2>2, <2>3
  <2> QED BY <2>4 DEF n, u
<1> HIDE DEF example
<1>9. Good(last) /\ \A x \in Elements(last) : x \notin Elements(example)
  <2>1. CASE Room(example) > 0
    <3> DEFINE n == Room(example)
               u == Unseeded(example, lexical)
    <3>1. n \in Nat
      BY <1>0, <1>5, <1>8, <2>1
    <3>2. Good(u) /\ \A x \in Elements(u) : x \notin Elements(example)
      BY <1>2
    <3>3. last = Prefix(u, n)
      BY <2>1
    <3> HIDE DEF n, u, last
    <3>4. Good(Prefix(u, n)) /\ Elements(Prefix(u, n)) \subseteq Elements(u)
      BY <1>4, <3>1, <3>2
    <3> QED BY <3>2, <3>3, <3>4
  <2>2. CASE ~ (Room(example) > 0)
    <3> DEFINE some == Prefix(Ordered(lexical), 1)
               rest == lexical \ {example[i] : i \in DOMAIN example}
    <3>1. Good(some)
      <4>1. 1 \in Nat /\ Good(Ordered(lexical))
        BY <1>1
      <4> QED BY <1>4, <4>1
    <3>2. last = Among(some, rest)
      BY <2>2
    <3>3. \A x \in rest : x \notin Elements(example)
      BY DEF Elements
    <3>4. rest \subseteq Tables
      BY SchemaAssumption DEF Reading, TablesOf, Query
    <3> HIDE DEF some, rest, last
    <3>5. /\ Among(some, rest) \in Seq(rest) /\ Unrepeated(Among(some, rest))
          /\ \A x : x \in Elements(Among(some, rest)) <=> x \in rest /\ x \in Elements(some)
      BY <3>1, AmongPicks DEF Good
    <3>6. Among(some, rest) \in Seq(Tables)
      BY <3>4, <3>5, SeqWider
    <3> QED BY <3>1, <3>2, <3>3, <3>5, <3>6 DEF Good
  <2> QED BY <2>1, <2>2
<1>10. Seeds(r, order, first) = example \o last
  BY DEF Seeds, example, governed, concept, analytic, Ordered, Unseeded
<1> HIDE DEF last
<1>11. Good(example \o last)
  BY <1>3, <1>8, <1>9
<1> QED BY <1>10, <1>11 DEF Good

-----------------------------------------------------------------------------
(* An expansion, table by table.                                           *)

\* How far an expansion is: the tables found, and how far each is from the seeds.
Round == {s \in [queue : Seq(Tables), depth : Seq(Nat)] :
             Len(s.depth) = Len(s.queue) /\ Len(s.queue) <= MaxObjects}

\* What the expansion of the n-th table adds, while there is room.
More(s, n, links, order) ==
    Prefix(Among(order, Neighbours(s.queue[n], links) \ Elements(s.queue)), MaxObjects - Len(s.queue))

\* The expansion of the n-th table.
Grow(s, n, links, order) ==
    IF n > Len(s.queue) \/ ~Extends(s.depth[n]) THEN s
    ELSE [queue |-> s.queue \o More(s, n, links, order),
          depth |-> s.depth \o [j \in DOMAIN More(s, n, links, order) |-> s.depth[n] + 1]]

\* The expansion before the first table.
Started(seeds) == [queue |-> seeds, depth |-> [i \in DOMAIN seeds |-> 0]]

\* What a table's expansion adds: its new neighbours, once each, all of them if
\* there is room.
LEMMA MoreOf ==
    ASSUME NEW s \in Round, NEW n, NEW links, NEW order \in Seq(Tables), Unrepeated(order)
    PROVE  LET more == More(s, n, links, order) IN
           /\ more \in Seq(Tables) /\ Len(s.queue) + Len(more) <= MaxObjects
           /\ Unrepeated(more)
           /\ \A x \in Elements(more) :
                 x \in Neighbours(s.queue[n], links) /\ x \in Elements(order) /\ x \notin Elements(s.queue)
           /\ \/ Len(s.queue) + Len(more) = MaxObjects
              \/ \A x \in Neighbours(s.queue[n], links) :
                    x \in Elements(order) => x \in Elements(s.queue) \/ x \in Elements(more)
<1> DEFINE S == Neighbours(s.queue[n], links) \ Elements(s.queue)
           new == Among(order, S)
           room == MaxObjects - Len(s.queue)
           more == More(s, n, links, order)
<1>1. s.queue \in Seq(Tables) /\ Len(s.queue) \in Nat /\ Len(s.queue) <= MaxObjects /\ MaxObjects \in Nat
  BY ReaderAssumption DEF Round
<1>2. room \in Nat
  BY <1>1
<1>3. S \subseteq Tables
  BY DEF Neighbours
<1>4. more = Prefix(new, room)
  BY DEF More
<1>5. \A x : x \in S => x \in Neighbours(s.queue[n], links) /\ x \notin Elements(s.queue)
  OBVIOUS
<1>6. \A x : x \in Neighbours(s.queue[n], links) => x \in S \/ x \in Elements(s.queue)
  OBVIOUS
<1> HIDE DEF S, more
<1>7. /\ new \in Seq(S) /\ Unrepeated(new)
      /\ \A x : x \in Elements(new) <=> x \in S /\ x \in Elements(order)
  BY AmongPicks
<1> HIDE DEF new
<1>8. new \in Seq(Tables)
  BY <1>3, <1>7, SeqWider
<1> HIDE DEF room
<1>9. /\ more \in Seq(Tables) /\ Len(more) = (IF Len(new) < room THEN Len(new) ELSE room)
      /\ Elements(more) \subseteq Elements(new) /\ Unrepeated(more)
      /\ Len(new) <= room => more = new
  BY <1>2, <1>4, <1>7, <1>8, PrefixOf
<1>10. Len(new) \in Nat /\ Len(more) \in Nat
  BY <1>8, <1>9
<1>11. Len(more) <= room /\ (Len(more) = room \/ more = new)
  BY <1>2, <1>9, <1>10
<1>12. /\ Len(s.queue) + Len(more) <= MaxObjects
       /\ Len(s.queue) + Len(more) = MaxObjects \/ more = new
  BY <1>1, <1>10, <1>11 DEF room
<1>13. \A x \in Elements(more) : x \in S /\ x \in Elements(order)
  BY <1>7, <1>9
<1>14. more = new => \A x \in Neighbours(s.queue[n], links) :
                        x \in Elements(order) => x \in Elements(s.queue) \/ x \in Elements(more)
  BY <1>6, <1>7
<1> QED BY <1>5, <1>9, <1>12, <1>13, <1>14 DEF more

\* What there is after a table that is expanded.
LEMMA GrownRound ==
    ASSUME NEW s \in Round, NEW n \in Nat \ {0}, NEW links, NEW order \in Seq(Tables), Unrepeated(order),
           n <= Len(s.queue), s.depth[n] < Hops
    PROVE  LET more == More(s, n, links, order)
               u == Grow(s, n, links, order)
           IN
           /\ u \in Round /\ Len(more) \in Nat
           /\ Len(u.queue) = Len(s.queue) + Len(more)
           /\ \A i \in 1..Len(s.queue) : u.queue[i] = s.queue[i] /\ u.depth[i] = s.depth[i]
           /\ \A i \in 1..Len(u.queue) : i > Len(s.queue) =>
                 /\ i - Len(s.queue) \in 1..Len(more)
                 /\ u.queue[i] = more[i - Len(s.queue)] /\ u.depth[i] = s.depth[n] + 1
           /\ u.queue = s.queue \o more
<1> DEFINE more == More(s, n, links, order)
           deeper == [j \in DOMAIN more |-> s.depth[n] + 1]
           u == Grow(s, n, links, order)
<1>1. /\ s.queue \in Seq(Tables) /\ s.depth \in Seq(Nat) /\ Len(s.depth) = Len(s.queue)
      /\ Len(s.queue) \in Nat /\ DOMAIN s.queue = 1..Len(s.queue)
  BY DEF Round
<1>2. s.depth[n] \in Nat
  BY <1>1
<1>3. more \in Seq(Tables) /\ Len(s.queue) + Len(more) <= MaxObjects
  BY MoreOf
<1>4. u.queue = s.queue \o more /\ u.depth = s.depth \o deeper
      /\ u = [queue |-> s.queue \o more, depth |-> s.depth \o deeper]
  <2>1. ~ (n > Len(s.queue) \/ ~Extends(s.depth[n]))
    BY <1>1, <1>2 DEF Extends
  <2>2. u = [queue |-> s.queue \o more, depth |-> s.depth \o deeper]
    BY <2>1 DEF Grow
  <2> QED BY <2>2
<1> HIDE DEF more
<1>5. Len(more) \in Nat /\ DOMAIN more = 1..Len(more)
  BY <1>3
<1>6. deeper \in Seq(Nat) /\ Len(deeper) = Len(more)
  BY <1>2, <1>5
<1>7. \A j \in 1..Len(more) : deeper[j] = s.depth[n] + 1
  BY <1>5
<1> HIDE DEF u, deeper
<1>8. /\ u.queue \in Seq(Tables) /\ Len(u.queue) = Len(s.queue) + Len(more)
      /\ \A i \in 1..Len(s.queue) : u.queue[i] = s.queue[i]
      /\ \A i \in 1..Len(u.queue) : i > Len(s.queue) =>
            i - Len(s.queue) \in 1..Len(more) /\ u.queue[i] = more[i - Len(s.queue)]
  BY <1>1, <1>3, <1>4, ConcatOf
<1>9. /\ u.depth \in Seq(Nat) /\ Len(u.depth) = Len(s.queue) + Len(more)
      /\ \A i \in 1..Len(s.queue) : u.depth[i] = s.depth[i]
      /\ \A i \in 1..(Len(s.queue) + Len(more)) : i > Len(s.queue) =>
            i - Len(s.queue) \in 1..Len(more) /\ u.depth[i] = deeper[i - Len(s.queue)]
  <2> DEFINE d == s.depth
  <2>1. d \in Seq(Nat) /\ Len(d) = Len(s.queue)
    BY <1>1
  <2> HIDE DEF d
  <2>2. /\ d \o deeper \in Seq(Nat) /\ Len(d \o deeper) = Len(d) + Len(deeper)
        /\ \A i \in 1..Len(d) : (d \o deeper)[i] = d[i]
        /\ \A i \in 1..(Len(d) + Len(deeper)) :
              i > Len(d) => i - Len(d) \in 1..Len(deeper) /\ (d \o deeper)[i] = deeper[i - Len(d)]
    <3> DEFINE T == Nat
    <3>1. d \in Seq(T) /\ deeper \in Seq(T)
      BY <1>6, <2>1
    <3> HIDE DEF T
    <3>2. /\ d \o deeper \in Seq(T) /\ Len(d \o deeper) = Len(d) + Len(deeper)
          /\ \A i \in 1..Len(d) : (d \o deeper)[i] = d[i]
          /\ \A i \in 1..(Len(d) + Len(deeper)) :
                i > Len(d) => i - Len(d) \in 1..Len(deeper) /\ (d \o deeper)[i] = deeper[i - Len(d)]
      BY <3>1, ConcatOf
    <3> QED BY <3>2 DEF T
  <2>3. u.depth = d \o deeper
    BY <1>4 DEF d
  <2>4. /\ u.depth \in Seq(Nat) /\ Len(u.depth) = Len(d) + Len(more)
        /\ \A i \in 1..Len(d) : u.depth[i] = d[i]
        /\ \A i \in 1..(Len(d) + Len(more)) :
              i > Len(d) => i - Len(d) \in 1..Len(more) /\ u.depth[i] = deeper[i - Len(d)]
    BY <1>6, <2>2, <2>3
  <2> QED BY <2>1, <2>4 DEF d
<1>10. u \in Round
  <2>1. u \in [queue : Seq(Tables), depth : Seq(Nat)]
    BY <1>4, <1>8, <1>9
  <2> QED BY <1>3, <1>8, <1>9, <2>1 DEF Round
<1> QED BY <1>4, <1>5, <1>7, <1>8, <1>9, <1>10 DEF more, u

\* An expansion goes table by table.
Expanding(f, seeds, links, order) ==
    /\ f \in [Nat -> Round] /\ f[0] = Started(seeds)
    /\ \A n \in Nat \ {0} : f[n] = Grow(f[n - 1], n, links, order)

\* The expansion of seeds is where it has got to after the last table met.
LEMMA ExpansionRounds ==
    ASSUME NEW seeds \in Seq(Tables), Len(seeds) <= MaxObjects, NEW links,
           NEW order \in Seq(Tables), Unrepeated(order)
    PROVE  \E f : Expanding(f, seeds, links, order)
                  /\ Expansion(seeds, links, order) = Elements(f[Len(order)].queue)
<1> DEFINE Body(g) ==
             [n \in Nat |->
                IF n = 0 THEN [queue |-> seeds, depth |-> [i \in DOMAIN seeds |-> 0]]
                ELSE LET q == g[n - 1].queue
                         d == g[n - 1].depth
                         new == Among(order, Neighbours(q[n], links) \ {q[j] : j \in DOMAIN q})
                         more == Prefix(new, MaxObjects - Len(q))
                     IN IF n > Len(q) \/ ~Extends(d[n]) THEN g[n - 1]
                        ELSE [queue |-> q \o more, depth |-> d \o [j \in DOMAIN more |-> d[n] + 1]]]
           round == CHOOSE g : g = Body(g)
<1>1. \A g : Body(g) = [n \in Nat |-> IF n = 0 THEN Started(seeds) ELSE Grow(g[n - 1], n, links, order)]
  BY DEF Started, Grow, More, Elements
<1>2. Expansion(seeds, links, order) = Elements(round[Len(order)].queue)
  BY DEF Expansion, Elements
<1> HIDE DEF Body
<1>3. Started(seeds) \in Round
  <2>1. DOMAIN seeds = 1..Len(seeds) /\ Len(seeds) \in Nat
    OBVIOUS
  <2>2. [i \in DOMAIN seeds |-> 0] \in Seq(Nat) /\ Len([i \in DOMAIN seeds |-> 0]) = Len(seeds)
    BY <2>1
  <2> QED BY <2>2 DEF Started, Round
<1>4. \A n \in Nat \ {0}, s \in Round : Grow(s, n, links, order) \in Round
  <2> TAKE n \in Nat \ {0}, s \in Round
  <2>1. CASE n > Len(s.queue) \/ ~Extends(s.depth[n])
    BY <2>1 DEF Grow
  <2>2. CASE ~ (n > Len(s.queue) \/ ~Extends(s.depth[n]))
    <3>1. n <= Len(s.queue) /\ s.depth[n] < Hops
      <4>1. Len(s.queue) \in Nat
        BY DEF Round
      <4> QED BY <2>2, <4>1 DEF Extends
    <3> QED BY <3>1, GrownRound
  <2> QED BY <2>1, <2>2
<1>5. PICK f \in [Nat -> Round] :
          f[0] = Started(seeds) /\ \A n \in Nat \ {0} : f[n] = Grow(f[n - 1], n, links, order)
  <2> DEFINE F == [n \in Nat |-> [s \in Round |-> IF n = 0 THEN s ELSE Grow(s, n, links, order)]]
             e == Started(seeds)
  <2>1. F \in Steps(Round)
    BY <1>4 DEF Steps
  <2>2. \A n \in Nat \ {0}, s \in Round : F[n][s] = Grow(s, n, links, order)
    OBVIOUS
  <2> HIDE DEF F, e
  <2>3. PICK f \in [Nat -> Round] : f[0] = e /\ \A n \in Nat \ {0} : f[n] = F[n][f[n - 1]]
    <3>1. e \in Round
      BY <1>3 DEF e
    <3> QED BY <2>1, <3>1, Iterates
  <2>4. \A n \in Nat \ {0} : n - 1 \in Nat /\ f[n - 1] \in Round
    OBVIOUS
  <2> QED BY <2>2, <2>3, <2>4 DEF e
<1>6. \A g : g = Body(g) =>
          /\ g[0] = Started(seeds) /\ \A n \in Nat \ {0} : g[n] = Grow(g[n - 1], n, links, order)
          /\ g = [n \in Nat |-> g[n]]
  <2> TAKE g
  <2> HAVE g = Body(g)
  <2>1. g = [n \in Nat |-> IF n = 0 THEN Started(seeds) ELSE Grow(g[n - 1], n, links, order)]
    BY <1>1
  <2> QED BY <2>1
<1>7. f = Body(f)
  <2> DEFINE B == [n \in Nat |-> IF n = 0 THEN Started(seeds) ELSE Grow(f[n - 1], n, links, order)]
  <2>1. \A n \in Nat : f[n] = B[n]
    BY <1>5
  <2>2. f = B
    BY <1>5, <2>1
  <2> QED BY <1>1, <2>2
<1>8. round = Body(round)
  BY <1>7
<1> HIDE DEF round
<1>9. \A n \in Nat : round[n] \in Round
  <2> SUFFICES ASSUME {n \in Nat : round[n] \notin Round} # {} PROVE FALSE
    OBVIOUS
  <2>1. PICK m \in Nat : round[m] \notin Round /\ \A k \in Nat : k < m => round[k] \in Round
    <3> DEFINE X == {n \in Nat : round[n] \notin Round}
    <3>1. \E x \in X : \A y \in X : ~ (y < x)
      <4>1. X \in SUBSET Nat /\ X # {}
        OBVIOUS
      <4> HIDE DEF X
      <4> QED BY <4>1, LeastOf
    <3> QED BY <3>1
  <2>2. m # 0
    BY <1>3, <1>6, <1>8, <2>1
  <2>3. m - 1 \in Nat /\ m - 1 < m
    BY <2>2
  <2> QED BY <1>4, <1>6, <1>8, <2>1, <2>2, <2>3
<1>10. Expanding(round, seeds, links, order)
  BY <1>6, <1>8, <1>9 DEF Expanding
<1> QED BY <1>2, <1>10

-----------------------------------------------------------------------------
(* Distances from the seeds.                                               *)

\* The tables at most n relationships from these.
Within(some, links) ==
    LET within[n \in Nat] ==
            IF n = 0 THEN some
            ELSE within[n - 1] \cup UNION {Neighbours(x, links) : x \in within[n - 1]}
    IN within

\* One relationship further are the neighbours of those within.
LEMMA WithinOf ==
    ASSUME NEW some \in SUBSET Tables, NEW links
    PROVE  LET W == Within(some, links) IN
           /\ W \in [Nat -> SUBSET Tables] /\ W[0] = some
           /\ \A n \in Nat \ {0} : \A y :
                 y \in W[n] <=> y \in W[n - 1] \/ \E x \in W[n - 1] : y \in Neighbours(x, links)
<1> DEFINE Wider(T) == T \cup UNION {Neighbours(x, links) : x \in T}
           Body(g) == [n \in Nat |-> IF n = 0 THEN some
                                     ELSE g[n - 1] \cup UNION {Neighbours(x, links) : x \in g[n - 1]}]
           W == CHOOSE g : g = Body(g)
           P == SUBSET Tables
<1>1. \A g : Body(g) = [n \in Nat |-> IF n = 0 THEN some ELSE Wider(g[n - 1])]
  OBVIOUS
<1>2. \A T : \A y : y \in Wider(T) <=> y \in T \/ \E x \in T : y \in Neighbours(x, links)
  OBVIOUS
<1>3. \A T \in P : Wider(T) \in P
  BY DEF Neighbours
<1>4. Within(some, links) = W
  BY DEF Within
<1>5. some \in P
  OBVIOUS
<1> HIDE DEF Body, Wider, P
<1>6. PICK f \in [Nat -> P] : f[0] = some /\ \A n \in Nat \ {0} : f[n] = Wider(f[n - 1])
  <2> DEFINE F == [n \in Nat |-> [T \in P |-> Wider(T)]]
  <2>1. F \in Steps(P)
    BY <1>3 DEF Steps
  <2>2. \A n \in Nat \ {0}, T \in P : F[n][T] = Wider(T)
    OBVIOUS
  <2> HIDE DEF F
  <2>3. PICK f \in [Nat -> P] : f[0] = some /\ \A n \in Nat \ {0} : f[n] = F[n][f[n - 1]]
    BY <1>5, <2>1, Iterates
  <2>4. \A n \in Nat \ {0} : n - 1 \in Nat /\ f[n - 1] \in P
    OBVIOUS
  <2> QED BY <2>2, <2>3, <2>4
<1>7. f = Body(f)
  <2> DEFINE B == [n \in Nat |-> IF n = 0 THEN some ELSE Wider(f[n - 1])]
  <2>1. \A n \in Nat : f[n] = B[n]
    BY <1>6
  <2>2. f = B
    BY <1>6, <2>1
  <2> QED BY <1>1, <2>2
<1>8. W = Body(W)
  BY <1>7
<1> HIDE DEF W
<1>9. /\ W[0] = some /\ \A n \in Nat \ {0} : W[n] = Wider(W[n - 1])
      /\ W = [n \in Nat |-> W[n]]
  <2>1. W = [n \in Nat |-> IF n = 0 THEN some ELSE Wider(W[n - 1])]
    BY <1>1, <1>8
  <2> QED BY <2>1
<1>10. \A n \in Nat : W[n] \in P
  <2> SUFFICES ASSUME {n \in Nat : W[n] \notin P} # {} PROVE FALSE
    OBVIOUS
  <2>1. PICK m \in Nat : W[m] \notin P /\ \A k \in Nat : k < m => W[k] \in P
    <3> DEFINE X == {n \in Nat : W[n] \notin P}
    <3>1. \E x \in X : \A y \in X : ~ (y < x)
      <4>1. X \in SUBSET Nat /\ X # {}
        OBVIOUS
      <4> HIDE DEF X
      <4> QED BY <4>1, LeastOf
    <3> QED BY <3>1
  <2>2. m # 0
    BY <1>5, <1>9, <2>1
  <2>3. m - 1 \in Nat /\ m - 1 < m
    BY <2>2
  <2> QED BY <1>3, <1>9, <2>1, <2>2, <2>3
<1>11. W \in [Nat -> SUBSET Tables]
  BY <1>9, <1>10 DEF P
<1> QED BY <1>2, <1>4, <1>9, <1>11

\* What is within a distance is within every larger one.
LEMMA WithinGrows ==
    ASSUME NEW some \in SUBSET Tables, NEW links, NEW m \in Nat, NEW n \in Nat, m <= n
    PROVE  Within(some, links)[m] \subseteq Within(some, links)[n]
<1> DEFINE W == Within(some, links)
<1>1. \A k \in Nat \ {0} : W[k - 1] \subseteq W[k]
  BY WithinOf
<1> HIDE DEF W
<1> SUFFICES ASSUME {k \in Nat : m <= k /\ ~ (W[m] \subseteq W[k])} # {} PROVE FALSE
  BY DEF W
<1>2. PICK l \in Nat : /\ m <= l /\ ~ (W[m] \subseteq W[l])
                       /\ \A k \in Nat : k < l /\ m <= k => W[m] \subseteq W[k]
  <2> DEFINE X == {k \in Nat : m <= k /\ ~ (W[m] \subseteq W[k])}
  <2>1. \E x \in X : \A y \in X : ~ (y < x)
    <3>1. X \in SUBSET Nat /\ X # {}
      OBVIOUS
    <3> HIDE DEF X
    <3> QED BY <3>1, LeastOf
  <2> QED BY <2>1
<1>3. l # m
  BY <1>2
<1>4. l - 1 \in Nat /\ l - 1 < l /\ m <= l - 1 /\ l # 0
  BY <1>2, <1>3
<1> QED BY <1>1, <1>2, <1>4

\* All the neighbours of the i-th table have been found, no further than one
\* relationship from it.
Expanded(s, i, links) ==
    \A y \in Neighbours(s.queue[i], links) :
        \E j \in 1..Len(s.queue) : s.queue[j] = y /\ s.depth[j] <= s.depth[i] + 1

\* There was no room for the neighbours of the i-th table, and nothing is
\* further than they are.
Cut(s, i) ==
    Len(s.queue) = MaxObjects /\ \A j \in 1..Len(s.queue) : s.depth[j] <= s.depth[i] + 1

\* Each table is in the queue once, the nearer the earlier, and what is still to
\* be expanded is among the two furthest distances.
Tidy(s, n, order) ==
    /\ Unrepeated(s.queue)
    /\ Elements(s.queue) \subseteq Elements(order)
    /\ \A i \in 1..Len(s.queue) : s.depth[i] <= Hops
    /\ \A i, j \in 1..Len(s.queue) : i <= j => s.depth[i] <= s.depth[j]
    /\ \A i, j \in 1..Len(s.queue) : n < i => s.depth[j] <= s.depth[i] + 1

\* The seeds are there, and everything is as near as its depth says.
Near(s, seeds, links) ==
    /\ \A x \in Elements(seeds) : \E j \in 1..Len(s.queue) : s.queue[j] = x /\ s.depth[j] = 0
    /\ \A i \in 1..Len(s.queue) : s.queue[i] \in Within(Elements(seeds), links)[s.depth[i]]

\* The first n tables were expanded or cut short.
Explored(s, n, links) ==
    \A i \in 1..Len(s.queue) : i <= n /\ s.depth[i] < Hops => Expanded(s, i, links) \/ Cut(s, i)

\* The expansion of a table keeps the queue tidy.
LEMMA TidyStays ==
    ASSUME NEW s \in Round, NEW n \in Nat \ {0}, NEW links, NEW order \in Seq(Tables), Unrepeated(order),
           Tidy(s, n - 1, order)
    PROVE  Tidy(Grow(s, n, links, order), n, order)
<1> DEFINE q == s.queue
           d == s.depth
<1>0. /\ q \in Seq(Tables) /\ d \in Seq(Nat) /\ Len(q) \in Nat /\ Len(d) = Len(q) /\ Hops \in Nat
      /\ \A i \in 1..Len(q) : d[i] \in Nat
  <2>1. s.queue \in Seq(Tables) /\ s.depth \in Seq(Nat) /\ Len(s.depth) = Len(s.queue) /\ Hops \in Nat
    BY ReaderAssumption DEF Round
  <2> QED BY <2>1
<1>1. CASE n > Len(q) \/ ~Extends(d[n])
  <2>1. Grow(s, n, links, order) = s
    BY <1>1 DEF Grow
  <2>2. \A i, j \in 1..Len(q) : n < i => d[j] <= d[i] + 1
    <3>1. \A i \in 1..Len(q) : n < i => n - 1 < i
      OBVIOUS
    <3> QED BY <3>1 DEF Tidy
  <2> QED BY <2>1, <2>2 DEF Tidy
<1>2. CASE ~ (n > Len(q) \/ ~Extends(d[n]))
  <2> DEFINE more == More(s, n, links, order)
             u == Grow(s, n, links, order)
  <2>1. n \in 1..Len(q) /\ d[n] < Hops /\ d[n] \in Nat
    BY <1>0, <1>2 DEF Extends
  <2>2. /\ u \in Round /\ Len(more) \in Nat
        /\ Len(u.queue) = Len(q) + Len(more)
        /\ \A i \in 1..Len(q) : u.queue[i] = q[i] /\ u.depth[i] = d[i]
        /\ \A i \in 1..Len(u.queue) : i > Len(q) =>
              /\ i - Len(q) \in 1..Len(more)
              /\ u.queue[i] = more[i - Len(q)] /\ u.depth[i] = d[n] + 1
        /\ u.queue = q \o more
    <3>1. n <= Len(s.queue) /\ s.depth[n] < Hops
      BY <2>1
    <3> QED BY <3>1, GrownRound
  <2>3. more \in Seq(Tables) /\ Unrepeated(more)
        /\ \A x \in Elements(more) : x \in Elements(order) /\ x \notin Elements(q)
    BY MoreOf
  <2> HIDE DEF more, u
  <2>4. Unrepeated(u.queue) /\ Elements(u.queue) \subseteq Elements(order)
    <3>1. /\ Unrepeated(q \o more)
          /\ \A y : y \in Elements(q \o more) <=> y \in Elements(q) \/ y \in Elements(more)
      BY <1>0, <2>3, ConcatUnrepeated DEF Tidy
    <3> QED BY <2>2, <2>3, <3>1 DEF Tidy
  <2>5. \A i \in 1..Len(u.queue) : i \in 1..Len(q) \/ i > Len(q)
    BY <1>0, <2>2
  <2>6. /\ \A i \in 1..Len(q) : d[i] <= Hops /\ d[i] <= d[n] + 1
        /\ \A i, j \in 1..Len(q) : i <= j => d[i] <= d[j]
    BY <2>1 DEF Tidy
  <2>7. \A i \in 1..Len(u.queue) : u.depth[i] <= Hops /\ u.depth[i] <= d[n] + 1 /\ u.depth[i] \in Nat
    <3> TAKE i \in 1..Len(u.queue)
    <3>1. CASE i \in 1..Len(q)
      BY <1>0, <2>2, <2>6, <3>1
    <3>2. CASE i > Len(q)
      <4>1. u.depth[i] = d[n] + 1
        BY <2>2, <3>2
      <4> QED BY <1>0, <2>1, <4>1, SMTT(30)
    <3> QED BY <2>5, <3>1, <3>2
  <2>8. ASSUME NEW i \in 1..Len(u.queue), NEW j \in 1..Len(u.queue), i <= j
        PROVE  u.depth[i] <= u.depth[j]
    <3>1. CASE j \in 1..Len(q)
      <4>1. i \in 1..Len(q)
        BY <1>0, <2>5, <2>8, <3>1
      <4> QED BY <2>2, <2>6, <2>8, <3>1, <4>1
    <3>2. CASE j > Len(q)
      BY <2>2, <2>7, <3>2
    <3> QED BY <2>5, <3>1, <3>2
  <2>9. ASSUME NEW i \in 1..Len(u.queue), NEW j \in 1..Len(u.queue), n < i
        PROVE  u.depth[j] <= u.depth[i] + 1
    <3>1. u.depth[n] = d[n] /\ n \in 1..Len(u.queue)
      BY <1>0, <2>1, <2>2
    <3>2. u.depth[n] <= u.depth[i]
      BY <2>8, <2>9, <3>1
    <3>3. /\ u.depth[j] <= d[n] + 1 /\ u.depth[j] \in Nat
          /\ u.depth[i] \in Nat /\ d[n] \in Nat /\ d[n] <= u.depth[i]
      BY <2>1, <2>7, <3>1, <3>2
    <3> QED BY <3>3, SMTT(30)
  <2> QED BY <2>4, <2>7, <2>8, <2>9 DEF Tidy, u
<1> QED BY <1>1, <1>2

\* What a table's expansion adds is one relationship further.
LEMMA NearStays ==
    ASSUME NEW s \in Round, NEW n \in Nat \ {0}, NEW seeds \in Seq(Tables), NEW links,
           NEW order \in Seq(Tables), Unrepeated(order), Near(s, seeds, links)
    PROVE  Near(Grow(s, n, links, order), seeds, links)
<1> DEFINE q == s.queue
           d == s.depth
           W == Within(Elements(seeds), links)
<1>0. /\ q \in Seq(Tables) /\ Len(q) \in Nat
      /\ \A i \in 1..Len(q) : d[i] \in Nat
  <2>1. s.queue \in Seq(Tables) /\ s.depth \in Seq(Nat) /\ Len(s.depth) = Len(s.queue)
    BY DEF Round
  <2> QED BY <2>1
<1>1. CASE n > Len(q) \/ ~Extends(d[n])
  BY <1>1 DEF Grow
<1>2. CASE ~ (n > Len(q) \/ ~Extends(d[n]))
  <2> DEFINE more == More(s, n, links, order)
             u == Grow(s, n, links, order)
  <2>1. n \in 1..Len(q) /\ d[n] < Hops /\ d[n] \in Nat
    BY <1>0, <1>2 DEF Extends
  <2>2. /\ u \in Round /\ Len(more) \in Nat
        /\ Len(u.queue) = Len(q) + Len(more)
        /\ \A i \in 1..Len(q) : u.queue[i] = q[i] /\ u.depth[i] = d[i]
        /\ \A i \in 1..Len(u.queue) : i > Len(q) =>
              /\ i - Len(q) \in 1..Len(more)
              /\ u.queue[i] = more[i - Len(q)] /\ u.depth[i] = d[n] + 1
    BY <2>1, GrownRound
  <2>3. more \in Seq(Tables) /\ \A x \in Elements(more) : x \in Neighbours(q[n], links)
    BY MoreOf
  <2> HIDE DEF more, u
  <2>4. \A i \in 1..Len(u.queue) : i \in 1..Len(q) \/ i > Len(q)
    BY <1>0, <2>2
  <2>5. \A j \in 1..Len(more) : more[j] \in Neighbours(q[n], links)
    BY <2>3 DEF Elements
  <2>6. \A y \in Neighbours(q[n], links) : y \in W[d[n] + 1]
    <3>1. Elements(seeds) \in SUBSET Tables
      BY DEF Elements
    <3>2. q[n] \in W[d[n]]
      BY <2>1 DEF Near
    <3>3. d[n] + 1 \in Nat \ {0} /\ (d[n] + 1) - 1 = d[n]
      BY <2>1
    <3> QED BY <3>1, <3>2, <3>3, WithinOf
  <2>7. \A i \in 1..Len(q) : q[i] \in W[d[i]]
    BY DEF Near
  <2> HIDE DEF W
  <2>8. \A i \in 1..Len(u.queue) : u.queue[i] \in W[u.depth[i]]
    BY <2>2, <2>4, <2>5, <2>6, <2>7
  <2>9. \A x \in Elements(seeds) : \E j \in 1..Len(u.queue) : u.queue[j] = x /\ u.depth[j] = 0
    <3>1. \A j \in 1..Len(q) : j \in 1..Len(u.queue)
      BY <1>0, <2>2
    <3>2. \A x \in Elements(seeds) : \E j \in 1..Len(q) : q[j] = x /\ d[j] = 0
      BY DEF Near
    <3> QED BY <2>2, <3>1, <3>2, SMTT(30)
  <2> QED BY <2>8, <2>9 DEF Near, W, u
<1> QED BY <1>1, <1>2

\* A table's expansion finds all its neighbours, or leaves no room.
LEMMA ExploredStays ==
    ASSUME NEW s \in Round, NEW n \in Nat \ {0}, NEW links, NEW order \in Seq(Tables), Unrepeated(order),
           \A x : Neighbours(x, links) \subseteq Elements(order),
           Tidy(s, n - 1, order), Explored(s, n - 1, links)
    PROVE  Explored(Grow(s, n, links, order), n, links)
<1> DEFINE q == s.queue
           d == s.depth
<1>0. /\ q \in Seq(Tables) /\ Len(q) \in Nat /\ DOMAIN q = 1..Len(q) /\ Hops \in Nat /\ MaxObjects \in Nat
      /\ \A i \in 1..Len(q) : d[i] \in Nat
  <2>1. s.queue \in Seq(Tables) /\ s.depth \in Seq(Nat) /\ Len(s.depth) = Len(s.queue)
    BY DEF Round
  <2> QED BY <2>1, ReaderAssumption
<1>1. CASE n > Len(q) \/ ~Extends(d[n])
  <2>1. Grow(s, n, links, order) = s
    BY <1>1 DEF Grow
  <2>2. \A i \in 1..Len(q) : i <= n /\ d[i] < Hops => i <= n - 1
    BY <1>0, <1>1 DEF Extends
  <2> QED BY <2>1, <2>2 DEF Explored
<1>2. CASE ~ (n > Len(q) \/ ~Extends(d[n]))
  <2> DEFINE more == More(s, n, links, order)
             u == Grow(s, n, links, order)
  <2>1. n \in 1..Len(q) /\ d[n] < Hops /\ d[n] \in Nat
    BY <1>0, <1>2 DEF Extends
  <2>2. /\ u \in Round /\ Len(more) \in Nat
        /\ Len(u.queue) = Len(q) + Len(more)
        /\ \A i \in 1..Len(q) : u.queue[i] = q[i] /\ u.depth[i] = d[i]
        /\ \A i \in 1..Len(u.queue) : i > Len(q) =>
              /\ i - Len(q) \in 1..Len(more)
              /\ u.queue[i] = more[i - Len(q)] /\ u.depth[i] = d[n] + 1
    BY <2>1, GrownRound
  <2>3. /\ more \in Seq(Tables) /\ Len(q) + Len(more) <= MaxObjects
        /\ \/ Len(q) + Len(more) = MaxObjects
           \/ \A x \in Neighbours(q[n], links) : x \in Elements(q) \/ x \in Elements(more)
    BY MoreOf
  <2> HIDE DEF more, u
  <2>4. \A i \in 1..Len(u.queue) : i \in 1..Len(q) \/ i > Len(q)
    BY <1>0, <2>2
  <2>5. \A i \in 1..Len(q) : d[i] <= d[n] + 1
    BY <2>1 DEF Tidy
  <2>6. \A j \in 1..Len(q) : j \in 1..Len(u.queue)
    BY <1>0, <2>2
  <2>7. ASSUME NEW i \in 1..Len(q), i <= n - 1, d[i] < Hops
        PROVE  Expanded(u, i, links) \/ Cut(u, i)
    <3>1. u.queue[i] = q[i] /\ u.depth[i] = d[i]
      BY <2>2
    <3>2. CASE Expanded(s, i, links)
      BY <2>2, <2>6, <3>1, <3>2, SMTT(30) DEF Expanded
    <3>3. CASE Cut(s, i)
      <4>1. Len(q) = MaxObjects /\ \A j \in 1..Len(q) : d[j] <= d[i] + 1
        BY <3>3 DEF Cut
      <4>2. Len(u.queue) = Len(q)
        BY <1>0, <2>2, <2>3, <4>1
      <4> QED BY <2>2, <3>1, <4>1, <4>2 DEF Cut
    <3> QED BY <2>7, <3>2, <3>3 DEF Explored
  <2>8. Expanded(u, n, links) \/ Cut(u, n)
    <3>1. u.queue[n] = q[n] /\ u.depth[n] = d[n]
      BY <2>1, <2>2
    <3>2. \A j \in 1..Len(u.queue) : u.depth[j] <= d[n] + 1
      BY <2>1, <2>2, <2>4, <2>5
    <3>3. CASE Len(q) + Len(more) = MaxObjects
      BY <2>2, <3>1, <3>2, <3>3 DEF Cut
    <3>4. ASSUME NEW y \in Neighbours(q[n], links), y \in Elements(q) \/ y \in Elements(more)
          PROVE  \E j \in 1..Len(u.queue) : u.queue[j] = y
      <4>1. CASE y \in Elements(q)
        BY <1>0, <2>2, <2>6, <4>1 DEF Elements
      <4>2. CASE y \in Elements(more)
        <5>1. PICK j \in 1..Len(more) : more[j] = y
          BY <2>3, <4>2 DEF Elements
        <5>2. j + Len(q) \in 1..Len(u.queue) /\ j + Len(q) > Len(q) /\ (j + Len(q)) - Len(q) = j
          BY <1>0, <2>2
        <5>3. u.queue[j + Len(q)] = more[j]
          BY <2>2, <5>2
        <5> QED BY <5>1, <5>2, <5>3
      <4> QED BY <3>4, <4>1, <4>2
    <3>5. CASE \A x \in Neighbours(q[n], links) : x \in Elements(q) \/ x \in Elements(more)
      BY <3>1, <3>2, <3>4, <3>5 DEF Expanded
    <3> QED BY <2>3, <3>3, <3>5
  <2>9. ASSUME NEW i \in 1..Len(u.queue), i <= n, u.depth[i] < Hops
        PROVE  Expanded(u, i, links) \/ Cut(u, i)
    <3>1. i \in 1..Len(q) /\ d[i] < Hops
      BY <1>0, <2>1, <2>2, <2>4, <2>9
    <3>2. i <= n - 1 \/ i = n
      BY <2>9
    <3> QED BY <2>7, <2>8, <3>1, <3>2
  <2> QED BY <2>9 DEF Explored, u
<1> QED BY <1>1, <1>2

-----------------------------------------------------------------------------
(* The nearest tables: the theorem.                                        *)

\* What an expansion keeps, however many tables were expanded.
LEMMA ExpandingKeeps ==
    ASSUME NEW seeds \in Seq(Tables), Unrepeated(seeds), Len(seeds) <= MaxObjects, NEW links,
           NEW order \in Seq(Tables), Unrepeated(order), Elements(seeds) \subseteq Elements(order),
           \A x : Neighbours(x, links) \subseteq Elements(order),
           NEW f, Expanding(f, seeds, links, order), NEW n \in Nat
    PROVE  /\ f[n] \in Round /\ Tidy(f[n], n, order)
           /\ Near(f[n], seeds, links) /\ Explored(f[n], n, links)
<1> DEFINE Kept(m) == Tidy(f[m], m, order) /\ Near(f[m], seeds, links) /\ Explored(f[m], m, links)
<1>1. /\ f \in [Nat -> Round] /\ f[0] = Started(seeds)
      /\ \A m \in Nat \ {0} : f[m] = Grow(f[m - 1], m, links, order)
  BY DEF Expanding
<1>2. Kept(0)
  <2> DEFINE s == Started(seeds)
  <2>1. Len(seeds) \in Nat /\ DOMAIN seeds = 1..Len(seeds) /\ Hops \in Nat
    BY ReaderAssumption
  <2>2. s.queue = seeds /\ \A i \in 1..Len(seeds) : s.depth[i] = 0
    BY <2>1 DEF Started
  <2> HIDE DEF s
  <2>3. Tidy(s, 0, order)
    BY <2>1, <2>2 DEF Tidy
  <2>4. Near(s, seeds, links)
    <3>1. \A x \in Elements(seeds) : \E j \in 1..Len(seeds) : seeds[j] = x
      BY <2>1 DEF Elements
    <3>2. Elements(seeds) \in SUBSET Tables
      BY <2>1 DEF Elements
    <3>3. Within(Elements(seeds), links)[0] = Elements(seeds)
      BY <3>2, WithinOf
    <3>4. \A i \in 1..Len(seeds) : seeds[i] \in Elements(seeds)
      BY <2>1 DEF Elements
    <3> QED BY <2>2, <3>1, <3>3, <3>4 DEF Near
  <2>5. Explored(s, 0, links)
    BY <2>1, <2>2 DEF Explored
  <2> QED BY <1>1, <2>3, <2>4, <2>5 DEF s
<1>3. ASSUME NEW m \in Nat \ {0}, Kept(m - 1)
      PROVE  Kept(m)
  <2>1. f[m - 1] \in Round /\ f[m] = Grow(f[m - 1], m, links, order)
    <3>1. m - 1 \in Nat
      OBVIOUS
    <3> QED BY <1>1, <3>1
  <2>2. Tidy(f[m], m, order)
    BY <1>3, <2>1, TidyStays
  <2>3. Near(f[m], seeds, links)
    BY <1>3, <2>1, NearStays
  <2>4. Explored(f[m], m, links)
    BY <1>3, <2>1, ExploredStays
  <2> QED BY <2>2, <2>3, <2>4
<1>4. Kept(n)
  <2> HIDE DEF Kept
  <2> SUFFICES ASSUME {m \in Nat : ~Kept(m)} # {} PROVE FALSE
    OBVIOUS
  <2>1. PICK m \in Nat : ~Kept(m) /\ \A k \in Nat : k < m => Kept(k)
    <3> DEFINE X == {m \in Nat : ~Kept(m)}
    <3>1. \E x \in X : \A y \in X : ~ (y < x)
      <4>1. X \in SUBSET Nat /\ X # {}
        OBVIOUS
      <4> HIDE DEF X
      <4> QED BY <4>1, LeastOf
    <3> QED BY <3>1
  <2>2. m # 0
    BY <1>2, <2>1
  <2>3. m - 1 \in Nat /\ m - 1 < m
    BY <2>2
  <2> QED BY <1>3, <2>1, <2>2, <2>3
<1> QED BY <1>1, <1>4

\* Once every table of the queue was expanded or cut short, what is within a
\* distance was found, or everything found is within it and there is no room.
LEMMA FoundWithin ==
    ASSUME NEW s \in Round, NEW n \in Nat, NEW seeds \in Seq(Tables), NEW links,
           Near(s, seeds, links), Explored(s, n, links), Len(s.queue) <= n, NEW k \in 0..Hops
    PROVE  LET W == Within(Elements(seeds), links) IN
           \/ \A y \in W[k] : \E j \in 1..Len(s.queue) : s.queue[j] = y /\ s.depth[j] <= k
           \/ Elements(s.queue) \subseteq W[k] /\ Len(s.queue) = MaxObjects
<1> DEFINE q == s.queue
           d == s.depth
           W == Within(Elements(seeds), links)
           Has(m) == \A y \in W[m] : \E j \in 1..Len(q) : q[j] = y /\ d[j] <= m
           All(m) == Elements(q) \subseteq W[m] /\ Len(q) = MaxObjects
           Done(m) == Has(m) \/ All(m)
<1>0. /\ q \in Seq(Tables) /\ Len(q) \in Nat /\ DOMAIN q = 1..Len(q) /\ Hops \in Nat
      /\ \A i \in 1..Len(q) : d[i] \in Nat
  <2>1. s.queue \in Seq(Tables) /\ s.depth \in Seq(Nat) /\ Len(s.depth) = Len(s.queue)
    BY DEF Round
  <2> QED BY <2>1, ReaderAssumption
<1>1. Elements(seeds) \in SUBSET Tables
  BY DEF Elements
<1>2. /\ W[0] = Elements(seeds)
      /\ \A m \in Nat \ {0} : \A y :
            y \in W[m] <=> y \in W[m - 1] \/ \E x \in W[m - 1] : y \in Neighbours(x, links)
      /\ \A l, m \in Nat : l <= m => W[l] \subseteq W[m]
  BY <1>1, WithinOf, WithinGrows
<1>3. /\ \A x \in W[0] : \E j \in 1..Len(q) : q[j] = x /\ d[j] = 0
      /\ \A i \in 1..Len(q) : q[i] \in W[d[i]]
  BY <1>2 DEF Near
<1> HIDE DEF W
<1>4. Done(0)
  <2>1. Has(0)
    BY <1>0, <1>3
  <2> QED BY <2>1
<1>5. ASSUME NEW m \in Nat \ {0}, m <= Hops, Done(m - 1)
      PROVE  Done(m)
  <2>0. m - 1 \in Nat /\ m - 1 < Hops /\ W[m - 1] \subseteq W[m]
    BY <1>0, <1>2, <1>5
  <2>1. CASE All(m - 1)
    BY <2>0, <2>1
  <2>2. ASSUME Has(m - 1), NEW i \in 1..Len(q), d[i] <= m - 1, Cut(s, i)
        PROVE  All(m)
    <3>1. Len(q) = MaxObjects /\ \A j \in 1..Len(q) : d[j] <= d[i] + 1
      BY <2>2 DEF Cut
    <3>2. \A j \in 1..Len(q) : d[j] <= m
      BY <1>0, <2>2, <3>1
    <3>3. \A j \in 1..Len(q) : q[j] \in W[m]
      BY <1>0, <1>2, <1>3, <3>2
    <3> QED BY <1>0, <3>1, <3>3 DEF Elements
  <2>3. ASSUME Has(m - 1), \A i \in 1..Len(q) : d[i] <= m - 1 => Expanded(s, i, links), NEW y \in W[m]
        PROVE  \E j \in 1..Len(q) : q[j] = y /\ d[j] <= m
    <3>1. CASE y \in W[m - 1]
      <4>1. PICK j \in 1..Len(q) : q[j] = y /\ d[j] <= m - 1
        BY <2>3, <3>1
      <4> QED BY <1>0, <4>1
    <3>2. ASSUME NEW x \in W[m - 1], y \in Neighbours(x, links)
          PROVE  \E j \in 1..Len(q) : q[j] = y /\ d[j] <= m
      <4>1. PICK i \in 1..Len(q) : q[i] = x /\ d[i] <= m - 1
        BY <2>3
      <4>2. PICK j \in 1..Len(q) : q[j] = y /\ d[j] <= d[i] + 1
        BY <2>3, <3>2, <4>1 DEF Expanded
      <4> QED BY <1>0, <4>1, <4>2
    <3> QED BY <1>2, <3>1, <3>2
  <2>4. \A i \in 1..Len(q) : d[i] <= m - 1 => Expanded(s, i, links) \/ Cut(s, i)
    BY <1>0, <2>0 DEF Explored
  <2> QED BY <1>5, <2>1, <2>2, <2>3, <2>4
<1>6. \A m \in Nat : m <= Hops => Done(m)
  <2> HIDE DEF Done
  <2> SUFFICES ASSUME {m \in Nat : m <= Hops /\ ~Done(m)} # {} PROVE FALSE
    OBVIOUS
  <2>1. PICK m \in Nat : m <= Hops /\ ~Done(m) /\ \A l \in Nat : l < m /\ l <= Hops => Done(l)
    <3> DEFINE X == {m \in Nat : m <= Hops /\ ~Done(m)}
    <3>1. \E x \in X : \A y \in X : ~ (y < x)
      <4>1. X \in SUBSET Nat /\ X # {}
        OBVIOUS
      <4> HIDE DEF X
      <4> QED BY <4>1, LeastOf
    <3> QED BY <3>1
  <2>2. m # 0
    BY <1>4, <2>1
  <2>3. m - 1 \in Nat /\ m - 1 < m /\ m - 1 <= Hops
    BY <1>0, <2>1, <2>2
  <2> QED BY <1>5, <2>1, <2>2, <2>3
<1>7. Done(k)
  <2>1. k \in Nat /\ k <= Hops
    BY <1>0
  <2> HIDE DEF Done
  <2> QED BY <1>6, <2>1
<1> QED BY <1>7 DEF W

\* The tables of a context are the nearest of its seeds.
NearestTables(c) ==
    LET within == Within(c.seeds, c.read.links) IN
    /\ c.seeds \subseteq c.tables /\ c.tables \subseteq within[Hops]
    /\ Cardinality(c.tables) <= MaxObjects
    /\ c.tables = within[Hops] \/ Cardinality(c.tables) = MaxObjects
    /\ \A n \in 0..Hops : c.tables \subseteq within[n] \/ within[n] \subseteq c.tables

\* What is found from the seeds along all the tables met is nearest.
LEMMA SelectedNearest ==
    ASSUME NEW r \in Reading, NEW order \in Orders(r), NEW first
    PROVE  NearestTables(Selected(r, order, first))
<1> DEFINE c == Selected(r, order, first)
           seeds == Prefix(Seeds(r, order, first), MaxObjects)
           links == r.links
           W == Within(Elements(seeds), links)
<1>1. c.seeds = Elements(seeds) /\ c.tables = Expansion(seeds, links, order) /\ c.read.links = links
  BY DEF Selected, Elements
<1> HIDE DEF c
<1>2. /\ order \in Seq(Tables) /\ Unrepeated(order) /\ Elements(order) = Met(r)
      /\ Hops \in Nat /\ MaxObjects \in Nat
  BY OrdersComplete, ReaderAssumption
<1>3. /\ seeds \in Seq(Tables) /\ Unrepeated(seeds) /\ Len(seeds) <= MaxObjects
      /\ Elements(seeds) \subseteq Elements(order)
  <2> DEFINE all == Seeds(r, order, first)
  <2>1. all \in Seq(Tables) /\ Unrepeated(all) /\ Elements(all) \subseteq r.tables
    BY SeedsUnrepeated
  <2> HIDE DEF all
  <2>2. /\ Prefix(all, MaxObjects) \in Seq(Tables) /\ Unrepeated(Prefix(all, MaxObjects))
        /\ Len(Prefix(all, MaxObjects)) = (IF Len(all) < MaxObjects THEN Len(all) ELSE MaxObjects)
        /\ Elements(Prefix(all, MaxObjects)) \subseteq Elements(all)
    BY <1>2, <2>1, PrefixOf
  <2>3. r.tables \subseteq Met(r)
    BY DEF Met
  <2>4. Len(all) \in Nat
    BY <2>1
  <2> QED BY <1>2, <2>1, <2>2, <2>3, <2>4 DEF all
<1> HIDE DEF seeds
<1>4. \A x : Neighbours(x, links) \subseteq Elements(order)
  <2> SUFFICES ASSUME NEW x, NEW y \in Neighbours(x, links) PROVE y \in Met(r)
    BY <1>2
  <2>1. PICK l \in links : y = l[1] \/ y = l[2]
    BY DEF Neighbours
  <2> QED BY <2>1 DEF Met
<1>5. PICK f : /\ Expanding(f, seeds, links, order)
               /\ Expansion(seeds, links, order) = Elements(f[Len(order)].queue)
  BY <1>2, <1>3, ExpansionRounds
<1> DEFINE n == Len(order)
           s == f[n]
           q == s.queue
<1>6. n \in Nat
  BY <1>2
<1>7. s \in Round /\ Tidy(s, n, order) /\ Near(s, seeds, links) /\ Explored(s, n, links)
  BY <1>2, <1>3, <1>4, <1>5, <1>6, ExpandingKeeps
<1> HIDE DEF s
<1>8. /\ q \in Seq(Tables) /\ Len(q) \in Nat /\ Len(q) <= MaxObjects /\ DOMAIN q = 1..Len(q)
      /\ s.depth \in Seq(Nat) /\ Len(s.depth) = Len(q)
  BY <1>7 DEF Round
<1>9. \A i \in 1..Len(q) : s.depth[i] \in Nat /\ s.depth[i] <= Hops
  BY <1>7, <1>8 DEF Tidy
<1>10. Cardinality(Elements(q)) = Len(q)
  BY <1>7, <1>8, ElementsCounted DEF Tidy
<1>11. Len(q) <= n
  <2>1. IsFiniteSet(Elements(order))
    <3>1. Met(r) \subseteq Tables
      BY SchemaAssumption DEF Met, Reading
    <3> QED BY <1>2, <3>1, FS_Subset, ReaderAssumption
  <2>2. Cardinality(Elements(order)) = n
    BY <1>2, ElementsCounted
  <2>3. Elements(q) \subseteq Elements(order)
    BY <1>7 DEF Tidy
  <2>4. Cardinality(Elements(q)) <= Cardinality(Elements(order))
    BY <2>1, <2>3, FS_Subset
  <2> QED BY <1>10, <2>2, <2>4
<1> HIDE DEF n, q
<1>12. c.tables = Elements(q)
  BY <1>1, <1>5 DEF q, n, s
<1>13. Elements(seeds) \subseteq Elements(q)
  BY <1>7, <1>8 DEF Near, Elements, q
<1>14. Elements(q) \subseteq W[Hops]
  <2>1. Elements(seeds) \in SUBSET Tables
    BY <1>3 DEF Elements
  <2>2. \A i \in 1..Len(q) : q[i] \in W[s.depth[i]] /\ W[s.depth[i]] \subseteq W[Hops]
    BY <1>2, <1>7, <1>9, <2>1, WithinGrows DEF Near, q
  <2> QED BY <1>8, <2>2 DEF Elements
<1>15. \A k \in 0..Hops : W[k] \subseteq Elements(q) \/ (Elements(q) \subseteq W[k] /\ Len(q) = MaxObjects)
  <2> TAKE k \in 0..Hops
  <2>1. \/ \A y \in W[k] : \E j \in 1..Len(q) : q[j] = y /\ s.depth[j] <= k
        \/ Elements(q) \subseteq W[k] /\ Len(q) = MaxObjects
    BY <1>3, <1>6, <1>7, <1>11, FoundWithin DEF q
  <2> QED BY <1>8, <2>1 DEF Elements
<1>16. Hops \in 0..Hops
  BY <1>2
<1>17. W[Hops] \subseteq Elements(q) \/ Len(q) = MaxObjects
  BY <1>15, <1>16
<1> HIDE DEF W
<1>18. /\ c.seeds \subseteq c.tables /\ c.tables \subseteq W[Hops]
       /\ Cardinality(c.tables) <= MaxObjects
       /\ c.tables = W[Hops] \/ Cardinality(c.tables) = MaxObjects
       /\ \A k \in 0..Hops : c.tables \subseteq W[k] \/ W[k] \subseteq c.tables
  BY <1>1, <1>8, <1>10, <1>12, <1>13, <1>14, <1>15, <1>17
<1> QED BY <1>1, <1>18 DEF NearestTables, W, c

\* Every context built was expanded to the nearest tables.
Nearest == \A t \in Readers : context[t].version # 0 => NearestTables(context[t])

\* A context is expanded once, when it is built.
LEMMA NearestStays ==
    ASSUME TypeOK, Built, Nearest, Next
    PROVE  Nearest'
<1>0. context \in [Readers -> Context]
  BY DEF TypeOK, ContextTypeOK
<1>1. SUFFICES ASSUME NEW t \in Readers, BuildContext(t), context' # context
               PROVE  \E c : context' = [context EXCEPT ![t] = c] /\ NearestTables(c)
  <2>1. UNCHANGED context \/ \E t \in Readers : BuildContext(t)
    BY ContextMove DEF ContextStep, StartContext, NoCatalog, ResolveTerms, ResolveMetrics, ResolveRules,
                       ReadDescriptions, RetrieveExamples, contextVars
  <2>2. ASSUME NEW t \in Readers, NEW c, context' = [context EXCEPT ![t] = c], NearestTables(c)
        PROVE  Nearest'
    BY <1>0, <2>2 DEF Nearest
  <2> QED BY <1>1, <2>1, <2>2 DEF Nearest
<1> DEFINE r == [retrieval[t] EXCEPT !.links = versions[retrieval[t].version].links]
<1>2. /\ retrieval[t] \in Reading /\ GoodReading(retrieval[t], view[t], examples, versions)
      /\ versions \in Seq(Version) /\ retrieval[t].step = "links"
  BY <1>1 DEF TypeOK, ContextTypeOK, StoreTypeOK, Built, BuildContext
<1>3. PICK order \in Orders(r), first \in Firsts(r) :
          context' = [context EXCEPT ![t] = Selected(r, order, first)]
  BY <1>1, Zenon DEF BuildContext
<1>4. r \in Reading
  <2>1. retrieval[t].version \in 1..Len(versions)
    BY <1>2 DEF GoodReading
  <2>2. versions[retrieval[t].version] \in Version
    BY <1>2, <2>1
  <2>3. versions[retrieval[t].version].links \subseteq Links
    BY <2>2 DEF Version
  <2> QED BY <1>2, <2>3 DEF Reading
<1> HIDE DEF r
<1> QED BY <1>3, <1>4, SelectedNearest

\* Every context's tables are exactly those at most Hops relationships from its
\* seeds, or as many of the nearest as there is room for (context_builder.py).
THEOREM Proximity == Spec => []ExpansionIsNearest
<1>1. Init => Inv /\ Nearest
  <2>1. Init => Nearest
    BY DEF Init, ContextInit, Nearest, NoContext
  <2> QED BY <2>1, InvInit
<1>2. Inv /\ Nearest /\ [Next]_vars => (Inv /\ Nearest)'
  <2>1. ASSUME Inv, Nearest, Next PROVE Nearest'
    BY <2>1, NearestStays DEF Inv
  <2>2. ASSUME Nearest, UNCHANGED vars PROVE Nearest'
    BY <2>2 DEF Nearest, vars, contextVars
  <2> QED BY <2>1, <2>2, InvNext
<1>3. Nearest => ExpansionIsNearest
  BY DEF Nearest, NearestTables, Within, ExpansionIsNearest
<1> QED BY <1>1, <1>2, <1>3, PTL DEF Spec
=============================================================================
