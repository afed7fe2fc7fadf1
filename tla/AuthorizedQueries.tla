-------------------------- MODULE AuthorizedQueries --------------------------
(***************************************************************************)
(* Registering an authorized query: its number is drafted, its virtual     *)
(* table is ingested as a catalog version of its own, and only then is the *)
(* definition stored for that version, if its number is still the next.    *)
(***************************************************************************)
EXTENDS CatalogIngestion

CONSTANTS
    Registrars,     \* ingesting threads that register authorized queries
    VirtualTables   \* the snapshots of the virtual tables registered

ASSUME RegistrarAssumption == Registrars \subseteq Ingesters /\ VirtualTables \subseteq Snapshot

VARIABLES
    definitions,    \* the definitions by number, each with its catalog version
    registration    \* per thread, the registration it is performing

queryVars == <<definitions, registration>>

Registration == [step : {"idle", "draft", "ingesting", "read", "insert"}, draft : Nat,
                 catalog : Nat, snapshot : VirtualTables \cup {NoSnapshot}]

NoRegistration == [step |-> "idle", draft |-> 0, catalog |-> 0,
                   snapshot |-> NoSnapshot]

QueriesInit ==
    /\ definitions = <<>>
    /\ registration = [t \in Registrars |-> NoRegistration]

QueriesTypeOK ==
    /\ definitions \in Seq([catalog : Nat, tables : SUBSET Tables])
    /\ registration \in [Registrars -> Registration]

-----------------------------------------------------------------------------

\* The query compiled and matches its declared columns: one virtual table.
StartRegistration(t) ==
    /\ registration[t].step = "idle" /\ ingest[t].step = "idle" /\ Called(t)
    /\ \E s \in VirtualTables :
          registration' = [registration EXCEPT ![t] =
                              [NoRegistration EXCEPT !.step = "draft", !.snapshot = s]]
    /\ UNCHANGED <<versions, holder, view, governanceVars, ingest, definitions>>

ReadDraft(t) ==
    /\ registration[t].step = "draft" /\ Free(t)
    /\ registration' = [registration EXCEPT ![t] =
                            [@ EXCEPT !.step = "ingesting", !.draft = Len(definitions) + 1]]
    /\ BeginIngest(t, registration[t].snapshot)
    /\ UNCHANGED <<storeVars, governanceVars, definitions>>

\* Mutant: the number is drafted once the version is there.
Drafted_Late(t) == Len(definitions) + 1

Drafted(t) == registration[t].draft

\* The ingestion ended: with its version, or with an error for the caller.
Ingested(t) ==
    /\ registration[t].step = "ingesting" /\ ingest[t].step \in {"done", "failed"}
    /\ registration' = [registration EXCEPT ![t] =
                           IF ingest[t].step = "failed" THEN NoRegistration
                           ELSE [@ EXCEPT !.step = "read", !.draft = Drafted(t),
                                          !.catalog = ingest[t].version]]
    /\ ingest' = [ingest EXCEPT ![t] = NoIngest]
    /\ UNCHANGED <<storeVars, governanceVars, definitions>>

\* create_authorized_query_definition finds the virtual table and the number.
ReadDefinition(t) ==
    LET r == registration[t]
        ok == /\ r.snapshot.tables \subseteq versions[r.catalog].tables
              /\ r.draft = Len(definitions) + 1
    IN
    /\ r.step = "read" /\ Free(t)
    /\ IF ok
       THEN registration' = [registration EXCEPT ![t].step = "insert"] /\ Enter(t)
       ELSE registration' = [registration EXCEPT ![t] = NoRegistration] /\ UNCHANGED holder
    /\ UNCHANGED <<versions, view, calls, governanceVars, ingest, definitions>>

\* The number must still be free when the row is written.
InsertDefinition(t) ==
    LET r == registration[t]
    IN
    /\ r.step = "insert"
    /\ definitions' = IF r.draft = Len(definitions) + 1
                      THEN Append(definitions,
                                  [catalog |-> r.catalog, tables |-> r.snapshot.tables])
                      ELSE definitions
    /\ registration' = [registration EXCEPT ![t] = NoRegistration]
    /\ Leave(t)
    /\ UNCHANGED <<versions, view, calls, governanceVars, ingest>>

RegistrationStep(t) ==
    \/ StartRegistration(t) \/ ReadDraft(t) \/ Ingested(t) \/ ReadDefinition(t)
    \/ InsertDefinition(t)

-----------------------------------------------------------------------------
(* Properties.                                                             *)

\* Whichever registrations overlap, in whichever processes, a later
\* definition speaks of a later catalog version, and each version has the
\* virtual table of its definition, however the ingestion went.
DefinitionsFollowCatalogs ==
    \A i \in 1..Len(definitions) :
        /\ definitions[i].catalog <= Latest
        /\ definitions[i].tables \subseteq versions[definitions[i].catalog].tables
        /\ \A j \in 1..(i - 1) : definitions[j].catalog < definitions[i].catalog
=============================================================================
