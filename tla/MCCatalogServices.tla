-------------------------- MODULE MCCatalogServices --------------------------
(***************************************************************************)
(* Instances of CatalogServices for TLC.  A deployment lets a few threads  *)
(* make a few calls, so that one run explores several small workloads.     *)
(***************************************************************************)
EXTENDS CatalogServices, TLC

CONSTANTS r1, r2, s1, s2, s3, s4, i1, g1, g2, e1, q1, q2, c1, c2, b1, n1, n2, w1,
          t1, t2, t3, t4, vt, k1, k2, k3,
          description, term1, term2, rule, metric, p1, p2, p3, x1, ask

MCThreads == {s1, s2, s3, s4, i1, g1, g2, e1, q1, q2, c1, c2, b1, n1, n2, w1}
MCTableOf == k1 :> t1 @@ k2 :> t2 @@ k3 :> t1

MCKindOf == description :> "semantic" @@ term1 :> "concept" @@ term2 :> "concept"
            @@ rule :> "rule" @@ metric :> "metric"
\* p3 has p1's name for another table.
Always(refs) == [p \in Payloads \cup {NoPayload} |-> refs]
MCRefsOf == description :> Always({k2}) @@ term1 :> [Always({t1}) EXCEPT ![p3] = {t2}]
            @@ term2 :> [Always({t1}) EXCEPT ![p3] = {t2}] @@ rule :> Always({k1}) @@ metric :> Always({k1})
\* The metric called turnover does without the rule.
MCDepsOf == description :> Always({}) @@ term1 :> Always({}) @@ term2 :> Always({})
            @@ rule :> Always({term1}) @@ metric :> [Always({term1, rule}) EXCEPT ![p2] = {term1}]
MCNamesOf == p1 :> {"revenue"} @@ p2 :> {"turnover"} @@ p3 :> {"revenue"}

\* Who submits what.
MCPhrases == {p1, p2}
Blank == {<<description, "confirmed", NoPayload>>}
MCRemit ==
    s1 :> {term1} \X {"inferred", "imported"} \X MCPhrases
    @@ s2 :> {description, term1} \X {"confirmed"} \X MCPhrases \cup Blank
    @@ s3 :> {rule, metric} \X {"inferred", "confirmed"} \X MCPhrases
    @@ s4 :> {term1, rule, metric} \X {"confirmed"} \X MCPhrases

MCRivals ==
    s1 :> {description, term1} \X {"confirmed"} \X MCPhrases \cup Blank
    @@ s2 :> {description, term2} \X {"confirmed"} \X MCPhrases \cup Blank
    @@ s3 :> {} @@ s4 :> {}

Schema(tables, columns, links, comments) ==
    [tables |-> tables, columns |-> columns, links |-> links, comments |-> comments]

MCLinks == {<<t1, t2>>, <<t2, t3>>, <<t3, t4>>}
MCJoins == <<t1, t2>> :> {k2} @@ <<t2, t3>> :> {} @@ <<t3, t4>> :> {}
MCOrdinal == k3 :> 1 @@ k1 :> 2 @@ k2 :> 1
MCFirst == {<<t1, t2>>}
MCVirtual == {Schema({vt}, {}, {}, <<>>)}
\* Tables alone, and one with a dangling relationship.
MCSnapshots == {Schema({t1, t2}, {}, {}, <<>>), Schema({t1}, {}, MCFirst, <<>>)}

Create(table, columns, links) ==
    [kind |-> "create", table |-> table, columns |-> columns, links |-> links,
     key |-> NoKey, payload |-> NoPayload]
CommentOn(key, payload) ==
    [kind |-> "comment", table |-> t1, columns |-> {}, links |-> {}, key |-> key, payload |-> payload]

\* A full schema, commented twice, and a comment on nothing.
MCScripts ==
    { <<CommentOn(description, p2), Create(t1, {k1}, MCFirst), Create(t2, {k2}, {}),
        CommentOn(description, p1)>>,
      <<Create(t1, {k1}, {}), CommentOn(description, p1)>> }
MCCorrections == {{t1, k1}}

\* The term means another table, or still the same.
Mapping(term, ref, previous) == [term |-> term, ref |-> ref, previous |-> previous]
MCMappings == { Mapping("revenue", t2, t1), Mapping("revenue", t1, t1), Mapping("revenue", t2, NoRef) }
MCNewKey == "revenue" :> term2

\* Calls made by some threads, none by the others.
Making(some) == [t \in MCThreads |-> IF t \in DOMAIN some THEN some[t] ELSE 0]

Together == [t \in MCThreads |-> r1]
Apart == [t \in MCThreads |-> IF t \in {s2, g2, q2, c2, w1} THEN r2 ELSE r1]

Unknown == [k \in Keys |-> Undefined]

Confirmed1(payload) ==
    [status |-> "confirmed", payload |-> payload, version |-> 1, updated |-> 1]
\* A term, a rule and a metric that rests on both.
Known ==
    [Unknown EXCEPT ![term1] = Confirmed1(p1), ![rule] = Confirmed1(p2), ![metric] = Confirmed1(p1)]

In(place, there, some) ==
    [replica |-> place, calls |-> Making(some), versions |-> there, meaning |-> Unknown,
     ticket |-> "needs_clarification"]
Governed(place, there, some) ==
    [replica |-> place, calls |-> Making(some), versions |-> there, meaning |-> Known,
     ticket |-> "ready_for_preview"]

Small == <<[tables |-> {t1, t2}, columns |-> {k1, k2}, links |-> MCFirst]>>
Chain == <<[tables |-> {t1, t2, t3, t4}, columns |-> {k1, k2, k3}, links |-> MCLinks]>>

\* Questions: by name, by likeness and by word; by table in the middle.
Question(names, tables, words, like) ==
    [names |-> names, tables |-> tables, columns |-> {}, words |-> words, like |-> like]
MCAsked == { Question({"revenue"}, {}, {"turnover"}, {x1}), Question({}, {t2, t3}, {}, {}) }

\* Who shares the catalog with whom: stewards, inference, ingestion, explorer,
\* registrars, curators, context readers, correctors and the ticket's requester.
MCServices ==
    { In(Together, Small, s1 :> 2 @@ s2 :> 1),
      In(Together, Small, s1 :> 1 @@ s2 :> 1 @@ s3 :> 1),
      In(Together, Small, s1 :> 1 @@ s3 :> 2),
      In(Together, Small, s2 :> 2 @@ i1 :> 1),
      In(Together, Small, s2 :> 1 @@ g1 :> 1),
      In(Together, Small, g1 :> 1 @@ i1 :> 1),
      In(Together, <<>>, s2 :> 1 @@ g1 :> 2),
      In(Together, <<>>, g1 :> 1 @@ e1 :> 1 @@ i1 :> 1),
      In(Apart, Small, g1 :> 1 @@ g2 :> 1),
      In(Apart, <<>>, q1 :> 2 @@ q2 :> 1),
      In(Apart, Small, c1 :> 2 @@ c2 :> 2),
      In(Together, Small, c1 :> 3 @@ g1 :> 1),
      In(Together, Chain, s4 :> 3 @@ b1 :> 1),
      In(Together, Chain, c1 :> 2 @@ b1 :> 1),
      Governed(Together, Chain, g1 :> 1 @@ b1 :> 1),
      Governed(Apart, Small, n1 :> 1 @@ w1 :> 3),
      In(Together, Small, n1 :> 1 @@ n2 :> 1 @@ w1 :> 1),
      Governed(Together, Small, n1 :> 2 @@ s4 :> 1),
      In(Together, Small, n1 :> 1 @@ g1 :> 1) }

\* Two stewards in one process.
MCOneProcess == {In(Together, Small, s1 :> 1 @@ s2 :> 1)}
=============================================================================
