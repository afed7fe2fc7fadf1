--------------------------- MODULE ContextRetrieval ---------------------------
(***************************************************************************)
(* The context of a question: the part of the latest catalog, the confirmed*)
(* meaning and the corrected examples that a prompt is made of.  The       *)
(* builder reads them in nine repository methods, in this order, and then  *)
(* selects: seeds, their surroundings along relationships, the columns of  *)
(* each table, and whatever is wholly inside.                              *)
(*                                                                         *)
(* Scores are abstracted: within one class of seeds, and among the         *)
(* neighbours of a table, any order of the tables is possible.             *)
(***************************************************************************)
EXTENDS SemanticGovernance, LearningLoop, FiniteSets

CONSTANTS
    Readers,        \* threads building contexts
    Asked,          \* the questions asked
    KeyColumns,     \* primary keys
    JoinsOn,        \* the columns of each relationship
    Ordinal,        \* the position of a column in its table
    MaxSeeds, MaxObjects, Hops, TargetColumns, MaxExamples

\* names: the terms it contains; tables, columns, words: what of the schema and
\* of its descriptions it matches; like: the questions it resembles
Query == [names : SUBSET UNION {NamesOf[p] : p \in Payloads}, tables : SUBSET Tables,
          columns : SUBSET Columns, words : SUBSET UNION {NamesOf[p] : p \in Payloads},
          like : SUBSET Questions]

ASSUME ReaderAssumption ==
    /\ Readers \subseteq Threads
    /\ IsFiniteSet(Tables)
    /\ Asked \subseteq Query
    /\ KeyColumns \subseteq Columns
    /\ JoinsOn \in [Links -> SUBSET Columns] /\ Ordinal \in [Columns -> Nat]
    /\ MaxSeeds \in 1..MaxObjects /\ MaxObjects \in 1..50 /\ Hops \in 0..3
    /\ TargetColumns \in 1..100 /\ MaxExamples \in 0..10

VARIABLES
    retrieval,  \* per thread, the context it is building and what it has read
    context     \* per thread, the last context it built

contextVars == <<retrieval, context>>

Nothing == [names |-> {}, tables |-> {}, columns |-> {}, words |-> {}, like |-> {}]

\* A key with the payload it had when it was read.
Definition == Keys \X Payloads

\* described: the tables and columns a confirmed description of which matches
Reading == [step : {"idle", "version", "metrics", "rules", "objects", "examples", "links"},
            ask : Query, version : Nat,
            concepts : SUBSET Definition, metrics : SUBSET Definition, rules : SUBSET Definition,
            tables : SUBSET Tables, columns : SUBSET Columns, described : SUBSET References,
            examples : SUBSET Nat, links : SUBSET Links]

Unread == [step |-> "idle", ask |-> Nothing, version |-> 0,
           concepts |-> {}, metrics |-> {}, rules |-> {},
           tables |-> {}, columns |-> {}, described |-> {}, examples |-> {}, links |-> {}]

\* seeds: the tables the expansion started from; read: what it was made of
Context == [version : Nat, seeds : SUBSET Tables, tables : SUBSET Tables,
            columns : SUBSET Columns, links : SUBSET Links,
            concepts : SUBSET Definition, metrics : SUBSET Definition, rules : SUBSET Definition,
            examples : SUBSET Nat, read : Reading]

NoContext == [version |-> 0, seeds |-> {}, tables |-> {}, columns |-> {}, links |-> {},
              concepts |-> {}, metrics |-> {}, rules |-> {}, examples |-> {}, read |-> Unread]

ContextInit ==
    /\ retrieval = [t \in Readers |-> Unread]
    /\ context = [t \in Readers |-> NoContext]

ContextTypeOK ==
    /\ retrieval \in [Readers -> Reading]
    /\ context \in [Readers -> Context]

-----------------------------------------------------------------------------
(* What a question finds.                                                  *)

\* The confirmed meaning of a kind, as key and payload.
Confirmed(kind) ==
    {<<k, resolution[k].payload>> :
        k \in {l \in Keys : KindOf[l] = kind /\ resolution[l].status = "confirmed"}}

KeysOf(meaning) == {m[1] : m \in meaning}

Terms(m) == NamesOf[m[2]]

Refs(m) == RefsOf[m[1]][m[2]]

Deps(m) == DepsOf[m[1]][m[2]]

\* Concepts with a term of the question that is theirs alone.
MatchingConcepts(q) ==
    {m \in Confirmed("concept") :
        \E n \in Terms(m) \cap q.names :
            \A o \in Confirmed("concept") \ {m} : n \notin Terms(o)}

\* Metrics and rules match by name, by a concept or, rules, by a metric.
MatchingMetrics(r) ==
    {m \in Confirmed("metric") :
        Terms(m) \cap r.ask.names # {} \/ Deps(m) \cap KeysOf(r.concepts) # {}}

MatchingRules(r) ==
    {m \in Confirmed("rule") :
        \/ Terms(m) \cap r.ask.names # {} \/ Deps(m) \cap KeysOf(r.concepts) # {}
        \/ \E o \in r.metrics : m[1] \in Deps(o)}

TablesOf(refs) == (refs \cap Tables) \cup {TableOf[c] : c \in refs \cap Columns}

\* What the read version has and a matching confirmed description is about.
Described(r) ==
    {x \in r.tables \cup r.columns :
        \E m \in Confirmed("semantic") : Refs(m) = {x} /\ Terms(m) \cap r.ask.words # {}}

\* Active examples for similar questions that fit the latest version.
MatchingExamples(q, refs) ==
    {x \in Active : examples[x].question \in q.like /\ examples[x].refs \subseteq refs}

-----------------------------------------------------------------------------
(* Selection.                                                              *)

RefsOfAll(meaning) == UNION {Refs(m) : m \in meaning}

ExampleRefs(xs) == UNION {examples[x].refs : x \in xs}

\* The example ranked first, if there is one.
Firsts(r) == IF r.examples = {} THEN {{}} ELSE {{x} : x \in r.examples}

\* The tables read, and those at the ends of the links read.
Met(r) == r.tables \cup {l[1] : l \in r.links} \cup {l[2] : l \in r.links}

\* Every order of these tables.
Orders(r) ==
    {o \in [1..Cardinality(Met(r)) -> Met(r)] : \A i, j \in DOMAIN o : o[i] = o[j] => i = j}

Prefix(s, n) == SubSeq(s, 1, IF Len(s) < n THEN Len(s) ELSE n)

\* The elements of S in the order of this sequence.
Among(order, S) ==
    LET kept[n \in Nat] == IF n = 0 THEN <<>>
                           ELSE IF order[n] \in S THEN Append(kept[n - 1], order[n])
                           ELSE kept[n - 1]
    IN kept[Len(order)]

\* Concepts first, then metrics and rules, up to MaxSeeds; then examples, then
\* lexical matches.  Each of these two loops looks for room after adding: full
\* already, it adds one more, a table of the first example if that has a new
\* one, and the best lexical match if it is new.
Seeds(r, order, first) ==
    LET Ordered(S) == Among(order, S \cap r.tables)
        Unseeded(s, S) == Ordered(S \ {s[i] : i \in DOMAIN s})
        Room(s) == MaxSeeds - Len(s)
        concept == Ordered(TablesOf(RefsOfAll(r.concepts)))
        analytic == Unseeded(concept, TablesOf(RefsOfAll(r.metrics \cup r.rules)))
        governed == Prefix(concept \o analytic, MaxSeeds)
        asked == IF Room(governed) > 0 THEN r.examples ELSE first
        example == governed \o Prefix(Unseeded(governed, ExampleRefs(asked)),
                                      IF Room(governed) > 0 THEN Room(governed) ELSE 1)
        lexical == r.ask.tables \cup TablesOf((r.ask.columns \cap r.columns) \cup r.described)
    IN example \o
         IF Room(example) > 0 THEN Prefix(Unseeded(example, lexical), Room(example))
         ELSE Among(Prefix(Ordered(lexical), 1), lexical \ {example[i] : i \in DOMAIN example})

Neighbours(x, links) ==
    {y \in Tables : <<x, y>> \in links \/ <<y, x>> \in links}

\* Mutant: the bound counts the tables between, not the relationships.
Extends_Between(d) == d <= Hops

\* A table at this distance from the seeds is expanded.
Extends(d) == d < Hops

\* Breadth-first expansion from the seeds, at most Hops relationships away,
\* until there are MaxObjects tables.
Expansion(seeds, links, order) ==
    LET round[n \in Nat] ==
            IF n = 0 THEN [queue |-> seeds, depth |-> [i \in DOMAIN seeds |-> 0]]
            ELSE LET q == round[n - 1].queue
                     d == round[n - 1].depth
                     new == Among(order, Neighbours(q[n], links) \ {q[j] : j \in DOMAIN q})
                     more == Prefix(new, MaxObjects - Len(q))
                 IN IF n > Len(q) \/ ~Extends(d[n]) THEN round[n - 1]
                    ELSE [queue |-> q \o more, depth |-> d \o [j \in DOMAIN more |-> d[n] + 1]]
    IN LET q == round[Len(order)].queue IN {q[i] : i \in DOMAIN q}

\* Mutant: the columns of metrics and rules compete with the others for room.
Essential_NoAnalytic(r, links) ==
    KeyColumns \cup (UNION {JoinsOn[l] : l \in links}) \cup ExampleRefs(r.examples)
        \cup RefsOfAll(r.concepts) \cup r.ask.columns \cup r.described

\* Columns that stay whatever the target: keys, evidence, meaning and matches.
Essential(r, links) ==
    KeyColumns \cup (UNION {JoinsOn[l] : l \in links}) \cup ExampleRefs(r.examples)
        \cup RefsOfAll(r.concepts \cup r.metrics \cup r.rules) \cup r.ask.columns \cup r.described

\* The essential columns of a table, filled up to the target by position.
KeptColumns(r, x, links) ==
    LET own == {c \in r.columns : TableOf[c] = x}
        kept == own \cap Essential(r, links)
        Before(c) == {d \in own \ kept : Ordinal[d] < Ordinal[c]}
    IN kept \cup {c \in own \ kept : Cardinality(kept) + Cardinality(Before(c)) < TargetColumns}

\* Every rule a metric depends on was found.
HasRules(r, m) == {k \in Deps(m) : KindOf[k] = "rule"} \subseteq KeysOf(r.rules)

\* A metric needs what its rules need.
Needed(r, m) == Refs(m) \cup RefsOfAll({o \in r.rules : o[1] \in Deps(m)})

\* Mutant: a definition whose tables are there is inside.
Inside_ByTable(refs, tables, columns) == TablesOf(refs) \subseteq tables

\* All a definition speaks of was selected.
Inside(refs, tables, columns) == refs \subseteq tables \cup columns

\* The concepts or rules that are wholly inside, the metrics that are with their
\* rules, and the examples.
WholeMeaning(meaning, tables, columns) == {m \in meaning : Inside(Refs(m), tables, columns)}

WholeMetrics(r, tables, columns) ==
    {m \in r.metrics : HasRules(r, m) /\ Inside(Needed(r, m), tables, columns)}

WholeExamples(xs, tables, columns) == {x \in xs : Inside(examples[x].refs, tables, columns)}

Selected(r, order, first) ==
    LET links == r.links
        seeds == Prefix(Seeds(r, order, first), MaxObjects)
        tables == Expansion(seeds, links, order)
        inside == {l \in links : l[1] \in tables /\ l[2] \in tables}
        columns == UNION {KeptColumns(r, x, inside) : x \in tables}
    IN [version |-> r.version, seeds |-> {seeds[i] : i \in DOMAIN seeds},
        tables |-> tables, columns |-> columns, links |-> inside,
        concepts |-> WholeMeaning(r.concepts, tables, columns),
        metrics |-> WholeMetrics(r, tables, columns),
        rules |-> WholeMeaning(r.rules, tables, columns),
        examples |-> WholeExamples(r.examples, tables, columns),
        read |-> r]

-----------------------------------------------------------------------------
(* Building.                                                               *)

Stop(t) == retrieval' = [retrieval EXCEPT ![t] = Unread]

StartContext(t) ==
    /\ retrieval[t].step = "idle" /\ view[t].step = "none" /\ Called(t)
    /\ \E q \in Asked :
          retrieval' = [retrieval EXCEPT ![t] = [Unread EXCEPT !.step = "version", !.ask = q]]
    /\ StartLooking(t)
    /\ UNCHANGED <<versions, holder, context>>

\* Without a catalog there is no context.
NoCatalog(t) ==
    /\ retrieval[t].step # "idle" /\ view[t].step \in {"absent", "lost"}
    /\ Stop(t) /\ StopLooking(t)
    /\ UNCHANGED <<versions, holder, calls, context>>

\* The terms are resolved once the version is known.
ResolveTerms(t) ==
    /\ retrieval[t].step = "version" /\ view[t].step = "tables" /\ Free(t)
    /\ retrieval' = [retrieval EXCEPT ![t] =
                       [@ EXCEPT !.step = "metrics", !.version = view[t].version,
                                 !.concepts = MatchingConcepts(retrieval[t].ask)]]
    /\ UNCHANGED <<storeVars, context>>

ResolveMetrics(t) ==
    /\ retrieval[t].step = "metrics" /\ Free(t)
    /\ retrieval' = [retrieval EXCEPT ![t] =
                       [@ EXCEPT !.step = "rules", !.metrics = MatchingMetrics(retrieval[t])]]
    /\ UNCHANGED <<storeVars, context>>

ResolveRules(t) ==
    /\ retrieval[t].step = "rules" /\ Free(t)
    /\ retrieval' = [retrieval EXCEPT ![t] =
                       [@ EXCEPT !.step = "objects", !.rules = MatchingRules(retrieval[t])]]
    /\ UNCHANGED <<storeVars, context>>

\* The descriptions come last; then the learning loop looks for the latest
\* version on its own.
ReadDescriptions(t) ==
    LET r == [retrieval[t] EXCEPT !.tables = view[t].refs \cap Tables,
                                  !.columns = view[t].refs \cap Columns]
    IN
    /\ retrieval[t].step = "objects" /\ view[t].step = "ready" /\ Free(t)
    /\ retrieval' = [retrieval EXCEPT ![t] = [r EXCEPT !.step = "examples",
                                                      !.described = Described(r)]]
    /\ view' = [view EXCEPT ![t] = [Blind EXCEPT !.step = "version"]]
    /\ UNCHANGED <<versions, holder, calls, context>>

\* The best examples, at most MaxExamples.
RetrieveExamples(t) ==
    LET found == MatchingExamples(retrieval[t].ask, view[t].refs)
    IN
    /\ retrieval[t].step = "examples" /\ view[t].step = "ready" /\ Free(t)
    /\ \E S \in SUBSET found :
          /\ Cardinality(S) = MaxExamples \/ (S = found /\ Cardinality(S) < MaxExamples)
          /\ retrieval' = [retrieval EXCEPT ![t] = [@ EXCEPT !.step = "links", !.examples = S]]
    /\ StopLooking(t)
    /\ UNCHANGED <<versions, holder, calls, context>>

\* A context has seeds, and all its tables were read (a KeyError otherwise).
BuildContext(t) ==
    LET r == [retrieval[t] EXCEPT !.links = versions[retrieval[t].version].links]
    IN
    /\ retrieval[t].step = "links" /\ Free(t)
    /\ \E order \in Orders(r), first \in Firsts(r) :
          LET c == Selected(r, order, first)
          IN context' = IF c.seeds # {} /\ c.tables \subseteq r.tables
                        THEN [context EXCEPT ![t] = c] ELSE context
    /\ Stop(t)
    /\ UNCHANGED storeVars

ContextStep(t) ==
    \/ StartContext(t) \/ NoCatalog(t) \/ ResolveTerms(t) \/ ResolveMetrics(t)
    \/ ResolveRules(t) \/ ReadDescriptions(t) \/ RetrieveExamples(t) \/ BuildContext(t)
    \/ /\ \/ retrieval[t].step = "version" /\ ReadVersion(t)
          \/ retrieval[t].step = "objects" /\ (ReadTables(t) \/ ReadKnownColumns(t))
          \/ retrieval[t].step = "examples" /\ LookingStep(t)
       /\ UNCHANGED contextVars

-----------------------------------------------------------------------------
(* Properties.                                                             *)

\* A context hangs together, whatever was published, corrected or superseded
\* between its reads: it lies within the version it names, nothing in it
\* speaks of a table or column that is not in it, and a metric never comes
\* without its rules (ADR-005, ADR-012, ADR-014).
ContextHangsTogether ==
    \A t \in Readers : context[t].version # 0 =>
        LET c == context[t]
            v == versions[c.version]
        IN
        /\ c.tables \subseteq v.tables /\ c.columns \subseteq v.columns /\ c.links \subseteq v.links
        /\ TablesOf(c.columns) \subseteq c.tables
        /\ \A l \in c.links : l[1] \in c.tables /\ l[2] \in c.tables
        /\ \A m \in c.metrics :
              {k \in Deps(m) : KindOf[k] = "rule"} \subseteq KeysOf(c.rules)
        /\ RefsOfAll(c.concepts \cup c.metrics \cup c.rules)
              \cup UNION {examples[x].refs : x \in c.examples} \subseteq c.tables \cup c.columns

\* The expansion is the set of tables at most Hops relationships from the
\* seeds, cut at MaxObjects so that a table is only left out for nearer ones.
ExpansionIsNearest ==
    \A t \in Readers : context[t].version # 0 =>
        LET c == context[t]
            within[n \in Nat] ==
                IF n = 0 THEN c.seeds
                ELSE within[n - 1] \cup UNION {Neighbours(x, c.read.links) : x \in within[n - 1]}
        IN
        /\ c.seeds \subseteq c.tables /\ c.tables \subseteq within[Hops]
        /\ Cardinality(c.tables) <= MaxObjects
        /\ c.tables = within[Hops] \/ Cardinality(c.tables) = MaxObjects
        /\ \A n \in 0..Hops : c.tables \subseteq within[n] \/ within[n] \subseteq c.tables

\* No meaning that matched is lost between the selection of columns and the
\* final filters: where its tables were selected and its columns are still in
\* the catalog, all of it is in the context, beyond the target if need be.
MatchedMeaningIsKept ==
    \A t \in Readers : context[t].version # 0 =>
        LET c == context[t]
            Whole(refs) == TablesOf(refs) \subseteq c.tables /\ refs \cap Columns \subseteq c.read.columns
        IN
        /\ \A m \in c.read.concepts : Whole(Refs(m)) => m \in c.concepts
        /\ \A m \in c.read.rules : Whole(Refs(m)) => m \in c.rules
        /\ \A m \in c.read.metrics :
              HasRules(c.read, m) /\ Whole(Needed(c.read, m)) => m \in c.metrics
        /\ \A x \in c.read.examples : Whole(examples[x].refs) => x \in c.examples
=============================================================================
