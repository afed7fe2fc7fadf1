--------------------------- MODULE CatalogIngestion ---------------------------
(***************************************************************************)
(* Ingestion of a DataSource's schema: introspection by a connector, a     *)
(* manual schema, a DDL import and the registration of an authorized query *)
(* all end in CatalogIngestionService.ingest_snapshot, which numbers a new *)
(* version and fills it object by object, proposing the comments it meets  *)
(* as imported descriptions on the way.  Nothing encloses these writes: a  *)
(* failure leaves the version, the latest, as far as it got.               *)
(***************************************************************************)
EXTENDS SemanticGovernance

CONSTANTS
    Ingesters,  \* threads ingesting schemas
    Explorers,  \* threads showing the latest schema
    Snapshots,  \* the schemas connectors and clients deliver, valid or not
    Scripts     \* DDL scripts, as sequences of statements

Descriptions == {k \in Keys : KindOf[k] = "semantic"}

\* comments: the descriptions found in the schema
Snapshot == [tables : SUBSET Tables, columns : SUBSET Columns, links : SUBSET Links,
             comments : UNION {[some -> Payloads] : some \in SUBSET Descriptions}]

\* A statement creates tables, comments on one object or is of another kind.
Statement == [kind : {"create", "comment", "other"}, table : Tables, columns : SUBSET Columns,
              links : SUBSET Links, key : Keys \cup {NoKey}, payload : Payloads \cup {NoPayload}]

ASSUME IngesterAssumption == Ingesters \cup Explorers \subseteq Threads
ASSUME SnapshotAssumption == \A s \in Snapshots :
    /\ s \in Snapshot
    /\ \A c \in s.columns : TableOf[c] \in s.tables
    /\ \A k \in DOMAIN s.comments : RefsOf[k][NoPayload] \subseteq s.tables \cup s.columns
ASSUME ScriptAssumption == \A script \in Scripts :
    /\ script \in Seq(Statement)
    /\ \A i \in DOMAIN script :
          /\ \A c \in script[i].columns : TableOf[c] = script[i].table
          /\ script[i].kind = "comment" => /\ script[i].key \in Keys /\ script[i].payload # NoPayload
                                           /\ KindOf[script[i].key] = "semantic"

VARIABLE ingest     \* per thread, the ingestion it is performing

NoSnapshot == [tables |-> {}, columns |-> {}, links |-> {}, comments |-> <<>>]

\* version: the number of the version being created, then filled
NoIngest == [step |-> "idle", version |-> 0, snapshot |-> NoSnapshot]

Ingest == [step : {"idle", "number", "insert", "fill", "done", "failed"}, version : Nat,
           snapshot : Snapshot]

IngestInit == ingest = [t \in Ingesters |-> NoIngest]

IngestTypeOK == ingest \in [Ingesters -> Ingest]

-----------------------------------------------------------------------------
(* DDL scripts.                                                            *)

Of(script, kind) == {i \in DOMAIN script : script[i].kind = kind}

Created(script) == {script[i].table : i \in Of(script, "create")}

CreatedColumns(script) == UNION {script[i].columns : i \in Of(script, "create")}

\* Comments are applied after all objects, the last one of an object counting.
Comments(script) ==
    [k \in {script[i].key : i \in Of(script, "comment")} |->
        LET last == CHOOSE i \in Of(script, "comment") :
                        /\ script[i].key = k
                        /\ \A j \in Of(script, "comment") : script[j].key = k => j <= i
        IN script[last].payload]

\* Nothing but objects with columns, each once, and comments on them.
Parses(script) ==
    /\ Of(script, "other") = {} /\ Of(script, "create") # {}
    /\ \A i, j \in Of(script, "create") : i # j => script[i].table # script[j].table
    /\ \A i \in Of(script, "create") : script[i].columns # {}
    /\ \A i \in Of(script, "comment") :
          RefsOf[script[i].key][NoPayload] \subseteq Created(script) \cup CreatedColumns(script)

Parsed(script) ==
    [tables |-> Created(script), columns |-> CreatedColumns(script),
     links |-> UNION {script[i].links : i \in Of(script, "create")},
     comments |-> Comments(script)]

-----------------------------------------------------------------------------

\* Both ends of every relationship are in the snapshot.
ValidSnapshot(s) == \A l \in s.links : l[1] \in s.tables /\ l[2] \in s.tables

\* A snapshot is at hand, to be numbered unless it is refused.
BeginIngest(t, s) ==
    ingest' = IF ValidSnapshot(s)
              THEN [ingest EXCEPT ![t] = [NoIngest EXCEPT !.step = "number", !.snapshot = s]]
              ELSE [ingest EXCEPT ![t] = [NoIngest EXCEPT !.step = "failed"]]

IngestCalled(t) ==
    /\ ingest[t].step = "idle" /\ proposal[t].step = "idle" /\ Called(t)
    /\ UNCHANGED <<versions, holder, view, governanceVars>>

\* A connector has introspected the database.
IngestDataSource(t) == IngestCalled(t) /\ \E s \in Snapshots : BeginIngest(t, s)

ImportManual(t) == IngestCalled(t) /\ \E s \in Snapshots : BeginIngest(t, s)

ImportDDL(t) ==
    /\ IngestCalled(t)
    /\ \E script \in Scripts :
          IF Parses(script) THEN BeginIngest(t, Parsed(script)) ELSE UNCHANGED ingest

\* create_catalog_version reads the greatest number ...
NextVersion(t) ==
    /\ ingest[t].step = "number" /\ Free(t)
    /\ ingest' = [ingest EXCEPT ![t] = [@ EXCEPT !.step = "insert", !.version = Latest + 1]]
    /\ Enter(t)
    /\ UNCHANGED <<versions, view, calls, governanceVars>>

\* ... and inserts the next one, unless another process has.
InsertVersion(t) ==
    /\ ingest[t].step = "insert"
    /\ IF ingest[t].version = Latest + 1
       THEN /\ versions' = Append(versions, [tables |-> {}, columns |-> {}, links |-> {}])
            /\ ingest' = [ingest EXCEPT ![t].step = "fill"]
       ELSE ingest' = [ingest EXCEPT ![t].step = "failed"] /\ UNCHANGED versions
    /\ Leave(t)
    /\ UNCHANGED <<view, calls, governanceVars>>

Made(t) == versions[ingest[t].version]

\* The comment of an object just created is proposed before the next object.
ImportDescription(t, ref) ==
    LET s == ingest[t].snapshot
        commented == {k \in DOMAIN s.comments : RefsOf[k][NoPayload] = {ref}}
    IN IF commented = {} THEN UNCHANGED proposal
       ELSE \E k \in commented :
              proposal' = [proposal EXCEPT ![t] =
                             [NoProposal EXCEPT !.step = "read", !.key = k,
                                 !.status = "imported", !.payload = s.comments[k],
                                 !.version = ingest[t].version]]

Filling(t) == ingest[t].step = "fill" /\ proposal[t].step = "idle" /\ Free(t)

\* The objects of s still to be created once every table so far is complete.
Complete(t) ==
    \A c \in ingest[t].snapshot.columns : TableOf[c] \in Made(t).tables => c \in Made(t).columns

CreateSchemaObject(t) ==
    /\ Filling(t) /\ Complete(t)
    /\ \E x \in ingest[t].snapshot.tables \ Made(t).tables :
          /\ versions' = [versions EXCEPT ![ingest[t].version].tables = @ \cup {x}]
          /\ ImportDescription(t, x)
    /\ UNCHANGED <<holder, view, calls, resolution, inference, ingest>>

CreateColumn(t) ==
    /\ Filling(t)
    /\ \E c \in ingest[t].snapshot.columns \ Made(t).columns :
          /\ TableOf[c] \in Made(t).tables
          /\ versions' = [versions EXCEPT ![ingest[t].version].columns = @ \cup {c}]
          /\ ImportDescription(t, c)
    /\ UNCHANGED <<holder, view, calls, resolution, inference, ingest>>

ObjectsMade(t) == Complete(t) /\ ingest[t].snapshot.tables \subseteq Made(t).tables

CreateRelationship(t) ==
    /\ Filling(t) /\ ObjectsMade(t)
    /\ \E l \in ingest[t].snapshot.links \ Made(t).links :
          versions' = [versions EXCEPT ![ingest[t].version].links = @ \cup {l}]
    /\ UNCHANGED <<holder, view, calls, governanceVars, ingest>>

FinishIngest(t) ==
    /\ ingest[t].step = "fill" /\ proposal[t].step = "idle"
    /\ ObjectsMade(t) /\ ingest[t].snapshot.links \subseteq Made(t).links
    /\ ingest' = [ingest EXCEPT ![t].step = "done"]
    /\ UNCHANGED <<storeVars, governanceVars>>

\* The process dies or a write fails; what was written stays.
IngestFails(t) ==
    /\ ingest[t].step = "fill" /\ proposal[t].step = "idle"
    /\ ingest' = [ingest EXCEPT ![t].step = "failed"]
    /\ UNCHANGED <<storeVars, governanceVars>>

\* The caller gets the report or the error.
IngestReturns(t) ==
    /\ ingest[t].step \in {"done", "failed"}
    /\ ingest' = [ingest EXCEPT ![t] = NoIngest]
    /\ UNCHANGED <<storeVars, governanceVars>>

\* The schema explorer also names both ends of every relationship.
Explore(t) ==
    /\ \/ /\ view[t].step = "none" /\ Called(t)
          /\ StartLooking(t)
          /\ UNCHANGED <<versions, holder>>
       \/ ReadVersion(t) \/ ReadTables(t) \/ ReadKnownColumns(t) \/ ReadLinks(t)
       \/ /\ view[t].step \in {"absent", "lost"}
          /\ StopLooking(t)
          /\ UNCHANGED <<versions, holder, calls>>
    /\ UNCHANGED <<governanceVars, ingest>>

IngestCall(t) ==
    \/ IngestDataSource(t) \/ ImportManual(t) \/ ImportDDL(t) \/ IngestReturns(t)

IngestStep(t) ==
    \/ NextVersion(t) \/ InsertVersion(t) \/ CreateSchemaObject(t) \/ CreateColumn(t)
    \/ CreateRelationship(t) \/ FinishIngest(t) \/ IngestFails(t)
=============================================================================
