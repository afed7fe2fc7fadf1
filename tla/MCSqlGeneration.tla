---------------------------- MODULE MCSqlGeneration ----------------------------
(***************************************************************************)
(* Instances of SqlGeneration: a question, a column and a business rule    *)
(* that the second catalog version classifies higher.                      *)
(***************************************************************************)
EXTENDS SqlGeneration, TLC

\* The two privacy modes, and the explicit semantic retry.
MCAsks ==
    {[mode |-> "maximum_privacy", forced |-> FALSE],
     [mode |-> "governed_semantic", forced |-> FALSE],
     [mode |-> "governed_semantic", forced |-> TRUE]}

MCFallbackAsks == {ask \in MCAsks : ~ask.forced}

MCItems == {"question", "column"}

MCRank ==
    [version \in 1..Catalogs |-> ("question" :> 1 @@ "column" :> version)]

Symmetry ==
    Permutations(Preflights) \cup Permutations(Requests) \cup Permutations(Replicas)
================================================================================
