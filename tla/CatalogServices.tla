--------------------------- MODULE CatalogServices ---------------------------
(***************************************************************************)
(* The services around one DataSource's catalog, together: every thread    *)
(* serves its calls against the same versions, resolutions, examples and   *)
(* definitions, under the lock of its process.                             *)
(***************************************************************************)
EXTENDS AuthorizedQueries, ContextRetrieval, IntentMemory

\* A request or worker thread serves one kind of call.
ASSUME RoleAssumption ==
    /\ Stewards \cap Inferers = {} /\ (Stewards \cup Inferers) \cap Ingesters = {}
    /\ Explorers \cap (Stewards \cup Inferers \cup Ingesters) = {}
    /\ Curators \cap (Stewards \cup Inferers \cup Ingesters \cup Explorers) = {}
    /\ Readers \cap (Stewards \cup Inferers \cup Ingesters \cup Explorers \cup Curators) = {}
    /\ (Correctors \cup Requesters)
          \cap (Stewards \cup Inferers \cup Ingesters \cup Explorers \cup Curators \cup Readers) = {}

vars == <<replica, storeVars, governanceVars, ingest, queryVars, learningVars, contextVars, memoryVars>>

TypeOK ==
    /\ StoreTypeOK /\ GovernanceTypeOK /\ IngestTypeOK /\ QueriesTypeOK /\ LearningTypeOK
    /\ ContextTypeOK /\ MemoryTypeOK

Init ==
    /\ \E d \in Deployments : StoreInit(d) /\ GovernanceInit(d) /\ MemoryInit(d)
    /\ IngestInit /\ QueriesInit /\ LearningInit /\ ContextInit

Steward(t) == StewardStep(t) /\ UNCHANGED <<replica, ingest, queryVars, learningVars, contextVars, memoryVars>>

Inferer(t) == InfererStep(t) /\ UNCHANGED <<replica, ingest, queryVars, learningVars, contextVars, memoryVars>>

Writer(t) == WriterStep(t) /\ UNCHANGED <<replica, ingest, queryVars, learningVars, contextVars, memoryVars>>

Ingester(t) ==
    /\ IngestStep(t) \/ (t \notin Registrars /\ IngestCall(t))
    /\ UNCHANGED <<replica, queryVars, learningVars, contextVars, memoryVars>>

Explorer(t) == Explore(t) /\ UNCHANGED <<replica, queryVars, learningVars, contextVars, memoryVars>>

Registrar(t) == RegistrationStep(t) /\ UNCHANGED <<replica, learningVars, contextVars, memoryVars>>

Curator(t) ==
    /\ LessonStep(t)
    /\ UNCHANGED <<replica, governanceVars, ingest, queryVars, contextVars, memoryVars>>

Reader(t) ==
    /\ ContextStep(t)
    /\ UNCHANGED <<replica, governanceVars, ingest, queryVars, learningVars, memoryVars>>

Corrector(t) ==
    /\ CorrectorStep(t)
    /\ UNCHANGED <<replica, ingest, queryVars, learningVars, contextVars>>

Requester(t) ==
    /\ RequesterStep(t)
    /\ UNCHANGED <<replica, governanceVars, ingest, queryVars, learningVars, contextVars>>

Next ==
    \/ \E t \in Threads \ Correctors : Writer(t)
    \/ \E t \in Stewards : Steward(t)
    \/ \E t \in Inferers : Inferer(t)
    \/ \E t \in Ingesters : Ingester(t)
    \/ \E t \in Explorers : Explorer(t)
    \/ \E t \in Registrars : Registrar(t)
    \/ \E t \in Curators : Curator(t)
    \/ \E t \in Readers : Reader(t)
    \/ \E t \in Correctors : Corrector(t)
    \/ \E t \in Requesters : Requester(t)

Spec == Init /\ [][Next]_vars
=============================================================================
