----------------------------- MODULE LearningLoop -----------------------------
(***************************************************************************)
(* The learning loop of one DataSource: corrected SQL examples in          *)
(* revision chains, the final feedback of each query request, and the      *)
(* golden candidates promoted from corrected feedback and reviewed once.   *)
(* Every record is immutable.  A service call makes its checks in several  *)
(* repository methods and inserts in a last one, where the unique indexes  *)
(* are all that still stands against the calls of other threads.           *)
(***************************************************************************)
EXTENDS CatalogStore

CONSTANTS
    Curators,               \* threads serving the learning endpoints
    Questions, NoQuestion,  \* normalized questions
    Requests, NoRequest,    \* the query requests corrections and feedback are about
    Corrections             \* the references of each SQL text submitted

ASSUME CuratorAssumption ==
    /\ Curators \subseteq Threads
    /\ NoQuestion \notin Questions /\ NoRequest \notin Requests
    /\ Corrections \subseteq SUBSET References

VARIABLES
    examples,   \* the corrected SQL examples in order of creation
    feedback,   \* per query request, its final feedback
    candidates, \* the golden candidates
    reviews,    \* per example, the decision on its candidate
    lesson      \* per thread, the call it is serving

learningVars == <<examples, feedback, candidates, reviews, lesson>>

\* supersedes: the example it revises, 0 for the first of its question
Example == [question : Questions, version : Nat \ {0}, refs : SUBSET References,
            request : Requests \cup {NoRequest}, supersedes : Nat, revision : Nat \ {0}]

Feedback == [outcome : {"none", "accepted", "rejected", "corrected"}, example : Nat]

Candidate == [example : Nat, request : Requests, version : Nat \ {0}]

\* draft: the example being written; example: the one the call is about
Draft == [question : Questions \cup {NoQuestion}, version : Nat, refs : SUBSET References,
          request : Requests \cup {NoRequest}, supersedes : Nat, revision : Nat]

Lesson == [step : {"idle", "looking", "store", "insert", "active", "record",
                   "earn", "fit", "propose", "review"},
           draft : Draft,
           example : Nat, outcome : {"none", "accepted", "rejected", "corrected"},
           decision : {"none", "approved", "rejected"}]

NoLesson == [step |-> "idle",
             draft |-> [question |-> NoQuestion, version |-> 0, refs |-> {},
                        request |-> NoRequest, supersedes |-> 0, revision |-> 0],
             example |-> 0, outcome |-> "none", decision |-> "none"]

LearningInit ==
    /\ examples = <<>>
    /\ feedback = [r \in Requests |-> [outcome |-> "none", example |-> 0]]
    /\ candidates = {}
    /\ reviews = <<>>
    /\ lesson = [t \in Curators |-> NoLesson]

LearningTypeOK ==
    /\ examples \in Seq(Example)
    /\ feedback \in [Requests -> Feedback]
    /\ candidates \subseteq Candidate
    /\ reviews \in [DOMAIN reviews -> {"approved", "rejected"}]
    /\ lesson \in [Curators -> Lesson]

-----------------------------------------------------------------------------

Superseded(x) == \E y \in DOMAIN examples : examples[y].supersedes = x

\* The examples no other one supersedes.
Active == {x \in DOMAIN examples : ~Superseded(x)}

GiveUp(t) == lesson' = [lesson EXCEPT ![t] = NoLesson]

\* A check of one repository method: go on, or answer with an error.
ContinueIf(t, ok, step) ==
    /\ Free(t)
    /\ IF ok THEN lesson' = [lesson EXCEPT ![t].step = step] ELSE GiveUp(t)
    /\ UNCHANGED <<storeVars, examples, feedback, candidates, reviews>>

\* One of these calls is made.
Begin(t, lessons) ==
    /\ lesson[t].step = "idle" /\ view[t].step = "none" /\ Called(t)
    /\ \E l \in lessons : lesson' = [lesson EXCEPT ![t] = l]
    /\ UNCHANGED <<versions, holder, examples, feedback, candidates, reviews>>

-----------------------------------------------------------------------------
(* Corrected SQL examples.                                                 *)

\* SQL for a question, naming the example it revises.
Submission(q, refs, r, x) ==
    [NoLesson EXCEPT !.step = "looking",
                     !.draft = [@ EXCEPT !.question = q, !.refs = refs, !.request = r,
                                         !.supersedes = x]]

Submissions ==
    {Submission(q, refs, r, x) : q \in Questions, refs \in Corrections,
                                 r \in Requests \cup {NoRequest}, x \in 0..Len(examples)}

StartCorrection(t) == Begin(t, Submissions) /\ StartLooking(t)

\* The SQL refers to nothing but what was found.
ValidSql(t) == view[t].step = "ready" /\ lesson[t].draft.refs \subseteq view[t].refs

\* Mutant: revisions count the predecessors.
NextRevision_FromZero(d) ==
    IF d.supersedes = 0 THEN 0 ELSE examples[d.supersedes].revision + 1

NextRevision(d) == IF d.supersedes = 0 THEN 1 ELSE examples[d.supersedes].revision + 1

\* A first example needs a question without an active one, a revision the
\* active example of the question.
FindPredecessor(t) ==
    LET d == lesson[t].draft
        fits == IF d.supersedes = 0
                THEN \A x \in Active : examples[x].question # d.question
                ELSE d.supersedes \in Active /\ examples[d.supersedes].question = d.question
    IN
    /\ lesson[t].step = "looking" /\ Looked(t) /\ Free(t)
    /\ IF fits /\ ValidSql(t)
       THEN lesson' = [lesson EXCEPT ![t] =
                          [@ EXCEPT !.step = "store",
                                    !.draft = [d EXCEPT !.version = view[t].version,
                                                        !.revision = NextRevision(d)]]]
       ELSE GiveUp(t)
    /\ StopLooking(t)
    /\ UNCHANGED <<versions, holder, calls, examples, feedback, candidates, reviews>>

\* create_corrected_sql_example reads the predecessor again ...
CheckPredecessor(t) ==
    LET d == lesson[t].draft
        ok == d.supersedes # 0 =>
                /\ d.supersedes \in Active
                /\ examples[d.supersedes].question = d.question
                /\ examples[d.supersedes].revision + 1 = d.revision
    IN
    /\ lesson[t].step = "store" /\ Free(t)
    /\ IF ok THEN lesson' = [lesson EXCEPT ![t].step = "insert"] /\ Enter(t)
             ELSE GiveUp(t) /\ UNCHANGED holder
    /\ UNCHANGED <<versions, view, calls, examples, feedback, candidates, reviews>>

\* Mutant: only roots are unique.
UniqueExample_Root(d) ==
    \A x \in DOMAIN examples :
        d.supersedes = 0 => ~(examples[x].supersedes = 0 /\ examples[x].question = d.question)

\* One root per question, one successor per example.
UniqueExample(d) ==
    \A x \in DOMAIN examples :
        IF d.supersedes = 0
        THEN ~(examples[x].supersedes = 0 /\ examples[x].question = d.question)
        ELSE examples[x].supersedes # d.supersedes

\* ... and inserts, unless an index refuses.
InsertExample(t) ==
    LET d == lesson[t].draft
    IN
    /\ lesson[t].step = "insert"
    /\ examples' = IF UniqueExample(d) THEN Append(examples, d) ELSE examples
    /\ GiveUp(t)
    /\ Leave(t)
    /\ UNCHANGED <<versions, view, calls, feedback, candidates, reviews>>

-----------------------------------------------------------------------------
(* Feedback, promotion and review.                                         *)

\* Feedback about a request, and the example it is corrected by.
About(r, x, outcome, step) ==
    [NoLesson EXCEPT !.step = step, !.draft = [@ EXCEPT !.request = r],
                     !.example = x, !.outcome = outcome]

Verdicts ==
    {About(r, 0, o, "record") : r \in Requests, o \in {"accepted", "rejected"}}
        \cup {About(r, x, "corrected", "active") : r \in Requests, x \in DOMAIN examples}

\* The request is in a state eligible for the outcome.
StartFeedback(t) == Begin(t, Verdicts) /\ UNCHANGED view

Promotions == {[NoLesson EXCEPT !.step = "active", !.example = x] : x \in DOMAIN examples}

StartPromotion(t) == Begin(t, Promotions) /\ UNCHANGED view

\* Corrected feedback must be about an example made from the request; a
\* promoted example must have been made from one.
CheckActive(t) ==
    LET e == examples[lesson[t].example]
    IN
    /\ lesson[t].step = "active"
    /\ IF lesson[t].outcome = "corrected"
       THEN ContinueIf(t, /\ lesson[t].example \in Active
                          /\ e.request = lesson[t].draft.request, "record")
       ELSE ContinueIf(t, lesson[t].example \in Active /\ e.request # NoRequest, "earn")

\* One feedback per request; a second one is refused.
RecordFeedback(t) ==
    LET r == lesson[t].draft.request
    IN
    /\ lesson[t].step = "record" /\ Free(t)
    /\ feedback' = IF feedback[r].outcome = "none"
                   THEN [feedback EXCEPT ![r] = [outcome |-> lesson[t].outcome,
                                                 example |-> lesson[t].example]]
                   ELSE feedback
    /\ GiveUp(t)
    /\ UNCHANGED <<storeVars, examples, candidates, reviews>>

\* Mutant: the feedback may be about another example of the request.
Earned_AnyExample(x) == feedback[examples[x].request].outcome = "corrected"

\* The example's request has corrected feedback naming this very example.
Earned(x) == feedback[examples[x].request] = [outcome |-> "corrected", example |-> x]

CheckFeedback(t) ==
    /\ lesson[t].step = "earn" /\ Free(t)
    /\ IF Earned(lesson[t].example)
       THEN lesson' = [lesson EXCEPT ![t].step = "fit"] /\ StartLooking(t)
       ELSE GiveUp(t) /\ UNCHANGED view
    /\ UNCHANGED <<versions, holder, calls, examples, feedback, candidates, reviews>>

\* The example still fits the latest version.
CheckCatalog(t) ==
    LET fits == view[t].step = "ready" /\ examples[lesson[t].example].refs \subseteq view[t].refs
    IN
    /\ lesson[t].step = "fit" /\ Looked(t)
    /\ IF fits
       THEN lesson' = [lesson EXCEPT ![t] =
                          [@ EXCEPT !.step = "propose",
                                    !.draft = [lesson[t].draft EXCEPT !.version = view[t].version]]]
       ELSE GiveUp(t)
    /\ StopLooking(t)
    /\ UNCHANGED <<versions, holder, calls, examples, feedback, candidates, reviews>>

\* One candidate per example.
InsertCandidate(t) ==
    LET x == lesson[t].example
        c == [example |-> x, request |-> examples[x].request, version |-> lesson[t].draft.version]
    IN
    /\ lesson[t].step = "propose" /\ Free(t)
    /\ candidates' = IF \A o \in candidates : o.example # x THEN candidates \cup {c}
                     ELSE candidates
    /\ GiveUp(t)
    /\ UNCHANGED <<storeVars, examples, feedback, reviews>>

Decision(x, outcome) == [NoLesson EXCEPT !.step = "review", !.example = x, !.decision = outcome]

Decisions == {Decision(c.example, o) : c \in candidates, o \in {"approved", "rejected"}}

StartDecision(t) == Begin(t, Decisions) /\ UNCHANGED view

\* One review per candidate.
InsertReview(t) ==
    LET x == lesson[t].example
    IN
    /\ lesson[t].step = "review" /\ Free(t)
    /\ reviews' = IF x \in DOMAIN reviews THEN reviews
                  ELSE [y \in DOMAIN reviews \cup {x} |->
                           IF y = x THEN lesson[t].decision ELSE reviews[y]]
    /\ GiveUp(t)
    /\ UNCHANGED <<storeVars, examples, feedback, candidates>>

LessonStep(t) ==
    \/ StartCorrection(t) \/ FindPredecessor(t) \/ CheckPredecessor(t)
    \/ InsertExample(t) \/ StartFeedback(t) \/ StartPromotion(t) \/ CheckActive(t)
    \/ RecordFeedback(t) \/ CheckFeedback(t) \/ CheckCatalog(t) \/ InsertCandidate(t)
    \/ StartDecision(t) \/ InsertReview(t)
    \/ /\ lesson[t].step \in {"looking", "fit"} /\ LookingStep(t)
       /\ UNCHANGED learningVars

-----------------------------------------------------------------------------
(* Properties.                                                             *)

\* Across processes, a question never has two active examples: its revisions
\* form one chain, whoever corrects it at the same time (ADR-012).
OneActiveExample ==
    /\ \A x, y \in Active : examples[x].question = examples[y].question => x = y
    /\ \A x \in DOMAIN examples :
          LET p == examples[x].supersedes
          IN IF p = 0 THEN examples[x].revision = 1
             ELSE /\ p \in 1..(x - 1) /\ examples[p].question = examples[x].question
                  /\ examples[x].revision = examples[p].revision + 1

\* A golden candidate was earned: the final feedback of its request is the
\* correction it came from, and its SQL fits the catalog version it names,
\* although correction, feedback, promotion and ingestion overlap (ADR-015).
CandidatesAreEarned ==
    \A c \in candidates :
        /\ examples[c.example].request = c.request
        /\ feedback[c.request] = [outcome |-> "corrected", example |-> c.example]
        /\ examples[c.example].refs \subseteq
              versions[c.version].tables \cup versions[c.version].columns

=============================================================================
