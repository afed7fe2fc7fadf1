----------------------------- MODULE CatalogStore -----------------------------
(***************************************************************************)
(* What the catalog services share: the versions of one DataSource's       *)
(* catalog, the repository lock of each process, and the three reads with  *)
(* which every service finds out what the latest version contains.         *)
(*                                                                         *)
(* A repository method runs under its process's lock; a method of several  *)
(* statements is a read followed by a transaction, between which other     *)
(* processes may write.  A service calls several methods, and between two  *)
(* of them anyone may write.  Tables and columns are inserted one by one,  *)
(* so a reader can meet a version in the making.                           *)
(***************************************************************************)
EXTENDS Naturals, Sequences

CONSTANTS
    Replicas,       \* API processes
    Threads,        \* request and worker threads, each with one call at a time
    NoThread,
    Tables,         \* schema objects
    Columns,
    TableOf,        \* the table of each column
    Links,          \* foreign keys, as pairs of tables
    Deployments     \* the processes threads run in, the bound on their calls, and
                    \* the versions and the meaning that are there at first

Version == [tables : SUBSET Tables, columns : SUBSET Columns, links : SUBSET Links]

ASSUME ThreadAssumption ==
    /\ NoThread \notin Threads
    /\ \A d \in Deployments : /\ d.replica \in [Threads -> Replicas]
                               /\ d.calls \in [Threads -> Nat]
                               /\ d.versions \in Seq(Version)
ASSUME SchemaAssumption ==
    /\ TableOf \in [Columns -> Tables]
    /\ Tables \cap Columns = {}
    /\ Links \subseteq Tables \X Tables

VARIABLES
    replica,    \* the process each thread runs in, which never changes
    versions,   \* the catalog versions in order, with what they contain so far
    holder,     \* per process, the thread inside a read-then-write method
    view,       \* per thread, what its current call has read of the catalog
    calls       \* bound: the service calls each thread still makes

storeVars == <<versions, holder, view, calls>>

References == Tables \cup Columns

\* "absent": no version is there; "lost": the reader met a column whose table
\* it had not read (KeyError).
View == [step : {"none", "version", "tables", "columns", "ready", "absent", "lost"},
         version : Nat, tables : SUBSET Tables, refs : SUBSET References]

Blind == [step |-> "none", version |-> 0, tables |-> {}, refs |-> {}]

StoreInit(d) ==
    /\ replica = d.replica /\ calls = d.calls /\ versions = d.versions
    /\ holder = [r \in Replicas |-> NoThread]
    /\ view = [t \in Threads |-> Blind]

StoreTypeOK ==
    /\ versions \in Seq(Version)
    /\ holder \in [Replicas -> Threads \cup {NoThread}]
    /\ view \in [Threads -> View]
    /\ calls \in [Threads -> Nat]
    /\ replica \in [Threads -> Replicas]

-----------------------------------------------------------------------------
(* The lock.                                                               *)

\* Mutant: a method can begin at any time.
Free_NoLock(t) == TRUE

\* A method can begin: no thread of the process is inside another one.
Free(t) == holder[replica[t]] = NoThread

Enter(t) == holder' = [holder EXCEPT ![replica[t]] = t]

Leave(t) == holder' = [holder EXCEPT ![replica[t]] = NoThread]

-----------------------------------------------------------------------------
(* Reading the latest version.                                             *)

Latest == Len(versions)

\* A service call begins.
Called(t) == calls[t] > 0 /\ calls' = [calls EXCEPT ![t] = @ - 1]

StartLooking(t) == view' = [view EXCEPT ![t].step = "version"]

ReadVersion(t) ==
    /\ view[t].step = "version" /\ Free(t)
    /\ view' = [view EXCEPT ![t] = IF Latest = 0 THEN [Blind EXCEPT !.step = "absent"]
                                   ELSE [Blind EXCEPT !.step = "tables", !.version = Latest]]
    /\ UNCHANGED <<versions, holder, calls>>

ReadTables(t) ==
    LET known == versions[view[t].version].tables
    IN
    /\ view[t].step = "tables" /\ Free(t)
    /\ view' = [view EXCEPT ![t] = [@ EXCEPT !.step = "columns", !.tables = known]]
    /\ UNCHANGED <<versions, holder, calls>>

VersionRead(t) == view[t].version

\* Each column is named after its table, looked up among the tables read.
ReadColumns(t) ==
    LET columns == versions[VersionRead(t)].columns
        found == \A c \in columns : TableOf[c] \in view[t].tables
    IN
    /\ view[t].step = "columns" /\ Free(t)
    /\ view' = [view EXCEPT ![t] =
                   IF found
                   THEN [@ EXCEPT !.step = "ready", !.tables = {},
                                  !.refs = view[t].tables \cup columns]
                   ELSE [Blind EXCEPT !.step = "lost"]]
    /\ UNCHANGED <<versions, holder, calls>>

\* The explorer and the inference keep the columns of the tables they read.
ReadKnownColumns(t) ==
    LET columns == {c \in versions[VersionRead(t)].columns : TableOf[c] \in view[t].tables}
    IN
    /\ view[t].step = "columns" /\ Free(t)
    /\ view' = [view EXCEPT ![t] = [@ EXCEPT !.step = "ready", !.refs = view[t].tables \cup columns]]
    /\ UNCHANGED <<versions, holder, calls>>

\* The explorer names both ends of every relationship.
ReadLinks(t) ==
    LET found == \A l \in versions[view[t].version].links :
                     l[1] \in view[t].tables /\ l[2] \in view[t].tables
    IN
    /\ view[t].step = "ready" /\ Free(t)
    /\ view' = [view EXCEPT ![t] = IF found THEN Blind ELSE [Blind EXCEPT !.step = "lost"]]
    /\ UNCHANGED <<versions, holder, calls>>

\* The call found the latest version's references, or fails.
Looked(t) == view[t].step \in {"ready", "absent", "lost"}

StopLooking(t) == view' = [view EXCEPT ![t] = Blind]

\* How the services find the latest version's references.
LookingStep(t) == ReadVersion(t) \/ ReadTables(t) \/ ReadColumns(t)
=============================================================================
