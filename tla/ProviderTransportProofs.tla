------------------------ MODULE ProviderTransportProofs ------------------------
(***************************************************************************)
(* What the shared breaker and the adapters promise, for any number of     *)
(* threads, attempts, failures and ticks, and any answers.                 *)
(***************************************************************************)
EXTENDS ProviderTransport, TLAPS

\* An adapter's reading of a body is a result with its usage.
LEMMA ResponseType ==
    ASSUME adapter \in Adapters, NEW b \in Body
    PROVE  /\ Response(b) \in [result : {"answered", "error"}, usage : [input : Nat, cached : Nat, output : Nat]]
           /\ Response(b).result = "answered" <=> Complete(b)
           /\ Complete(b) => /\ Response(b).usage.output = b.output
                             /\ Response(b).usage.input = Response(b).usage.cached + Uncached(b)
<1>1. /\ b.finished \in BOOLEAN /\ b.texts \in Nat /\ b.object \in BOOLEAN
      /\ b.input \in Nat /\ b.cached \in Nat /\ b.written \in Nat /\ b.output \in Nat
  BY DEF Body
<1>2. CASE adapter = "ollama"
  <2>1. Response(b) = OllamaResponse(b)
    BY <1>2 DEF Response
  <2>2. Uncached(b) = b.input
    BY <1>2 DEF Uncached
  <2> QED BY <1>1, <1>2, <2>1, <2>2 DEF OllamaResponse, Answered, ProtocolError, NoUsage, Complete
<1>3. CASE adapter = "kimi"
  <2>1. Response(b) = KimiResponse(b)
    BY <1>3 DEF Response
  <2>2. Uncached(b) = b.input - b.cached
    BY <1>3 DEF Uncached
  <2> QED BY <1>1, <1>3, <2>1, <2>2 DEF KimiResponse, Answered, ProtocolError, NoUsage, Complete
<1>4. CASE adapter = "gemini"
  <2>1. Response(b) = GeminiResponse(b)
    BY <1>4 DEF Response
  <2>2. Uncached(b) = b.input - b.cached
    BY <1>4 DEF Uncached
  <2> QED BY <1>1, <1>4, <2>1, <2>2 DEF GeminiResponse, Answered, ProtocolError, NoUsage, Complete
<1>5. CASE adapter = "anthropic"
  <2>1. Response(b) = AnthropicResponse(b)
    BY <1>5 DEF Response
  <2>2. Uncached(b) = b.input + b.written
    BY <1>5 DEF Uncached
  <2> QED BY <1>1, <1>5, <2>1, <2>2 DEF AnthropicResponse, Answered, ProtocolError, NoUsage, Complete
<1>6. CASE adapter = "openai"
  <2>1. Response(b) = OpenAIResponse(b)
    BY <1>6 DEF Response
  <2>2. Uncached(b) = b.input - b.cached
    BY <1>6 DEF Uncached
  <2> QED BY <1>1, <1>6, <2>1, <2>2 DEF OpenAIResponse, Answered, ProtocolError, NoUsage, Complete
<1> QED BY <1>2, <1>3, <1>4, <1>5, <1>6, TransportAssumption

-----------------------------------------------------------------------------
(* The inductive invariant.                                                *)

\* What a call may still send.
Left(t) ==
    IF call[t].step \in {"ready", "sent"} THEN MaxAttempts - call[t].attempt ELSE 0

\* Only a call that is sending has attempts left, and only an answer has a body.
CallsAreSound ==
    \A t \in Threads :
        /\ call[t].step = "ready" => call[t].attempt < MaxAttempts
        /\ call[t].step \in {"ready", "sent", "failing"} => call[t].body = NoBody

\* While the breaker is open no call begins, so what a thread has sent and may
\* still send adds up to one call, and the thread that opened it is idle.
BurstIsSpent ==
    Open => /\ \A t \in Threads : burst[t] + Left(t) <= MaxAttempts
            /\ \E t \in Threads : burst[t] = 0 /\ call[t].step = "idle"

IInv == TypeOK /\ CallsAreSound /\ BurstIsSpent /\ AnswersAreDelivered

\* The absent body has the type of a body.
LEMMA BodyType == NoBody \in Body /\ (Bodies \cup {NoBody}) \subseteq Body
<1>1. FALSE \in BOOLEAN /\ 0 \in Nat
  OBVIOUS
<1>2. NoBody \in Body
  BY <1>1, Zenon DEF NoBody, Body
<1> QED BY <1>2, BodyAssumption

LEMMA InitIInv == Init => IInv
<1> SUFFICES ASSUME Init PROVE IInv
  OBVIOUS
<1> USE DEF Init, Idle, NoBody, NoUsage
<1>1. TypeOK
  <2>1. Idle \in Call
    BY TransportAssumption DEF Call, Results
  <2>2. tripped \in BOOLEAN
    BY Zenon
  <2> QED BY <2>1, <2>2, TransportAssumption DEF TypeOK
<1>2. CallsAreSound
  BY DEF CallsAreSound
<1>3. BurstIsSpent
  BY DEF BurstIsSpent, Open
<1>4. AnswersAreDelivered
  BY DEF AnswersAreDelivered
<1> QED BY <1>1, <1>2, <1>3, <1>4 DEF IInv


\* A call that is ready has an attempt left, so the next one is within the limit.
LEMMA TypeStep == TypeOK /\ CallsAreSound /\ [Next]_vars => TypeOK'
<1> SUFFICES ASSUME TypeOK, CallsAreSound, [Next]_vars PROVE TypeOK'
  OBVIOUS
<1> USE TransportAssumption DEF TypeOK, breaker
<1>1. CASE Tick
  BY <1>1 DEF Tick, Open
<1>2. ASSUME NEW t \in Threads, Step(t) PROVE TypeOK'
  <2>0. call[t] \in Call
    OBVIOUS
  <2>1. CASE Begin(t)
    <3>1. [Idle EXCEPT !.step = "ready"] \in Call
      BY DEF Idle, Call, Results, NoUsage
    <3>2. tripped' \in BOOLEAN
      BY <2>1, Zenon DEF Begin
    <3> QED BY <2>1, <3>1, <3>2 DEF Begin
  <2>2. CASE Refuse(t)
    <3>1. [Idle EXCEPT !.result = "error"] \in Call
      BY DEF Idle, Call, Results, NoUsage
    <3> QED BY <2>2, <3>1 DEF Refuse
  <2>3. CASE Send(t)
    <3>1. PICK n : n = call[t].attempt + 1
      OBVIOUS
    <3>2. n \in 0..MaxAttempts
      BY <2>0, <2>3, <3>1 DEF Send, Call, CallsAreSound
    <3>3. [call[t] EXCEPT !.step = "sent", !.attempt = n] \in Call
      BY <2>0, <3>2 DEF Call
    <3>4. call' = [call EXCEPT ![t] = [call[t] EXCEPT !.step = "sent", !.attempt = n]]
      BY <2>3, <3>1 DEF Send
    <3> QED BY <2>3, <3>3, <3>4 DEF Send
  <2>4. CASE NoAnswer(t)
    <3>1. [call[t] EXCEPT !.step = IF AttemptsLeft(t) THEN "ready" ELSE "failing"] \in Call
      BY <2>0 DEF Call
    <3> QED BY <2>4, <3>1 DEF NoAnswer
  <2>5. CASE Answer(t)
    <3>1. \A b \in Bodies \cup {NoBody} :
             [call[t] EXCEPT !.step = "passing", !.body = b] \in Call
      BY <2>0 DEF Call
    <3> QED BY <2>5, <3>1 DEF Answer
  <2>6. CASE RecordSuccess(t)
    <3> DEFINE r == IF call[t].body = NoBody THEN ProtocolError ELSE Response(call[t].body)
    <3>1. call[t].body \in Body
      BY <2>0, BodyType DEF Call
    <3>2. r \in [result : Results, usage : [input : Nat, cached : Nat, output : Nat]]
      BY <3>1, ResponseType DEF ProtocolError, NoUsage, Results
    <3>3. [call[t] EXCEPT !.step = "idle", !.result = r.result, !.usage = r.usage] \in Call
      BY <2>0, <3>2 DEF Call
    <3>4. tripped' \in BOOLEAN
      BY <2>6, Zenon DEF RecordSuccess
    <3> QED BY <2>6, <3>3, <3>4 DEF RecordSuccess
  <2>7. CASE RecordFailure(t)
    <3>1. [call[t] EXCEPT !.step = "idle", !.result = "error"] \in Call
      BY <2>0 DEF Call, Results
    <3>2. tripped' \in BOOLEAN
      BY <2>7, Zenon DEF RecordFailure
    <3> QED BY <2>7, <3>1, <3>2 DEF RecordFailure
  <2> QED BY <1>2, <2>1, <2>2, <2>3, <2>4, <2>5, <2>6, <2>7 DEF Step
<1>3. CASE UNCHANGED vars
  BY <1>3 DEF vars
<1> QED BY <1>1, <1>2, <1>3 DEF Next

\* The calls stay sound, and answers are delivered: a step changes one call.
LEMMA CallsStep ==
    TypeOK /\ CallsAreSound /\ AnswersAreDelivered /\ [Next]_vars
        => CallsAreSound' /\ AnswersAreDelivered'
<1> SUFFICES ASSUME TypeOK, CallsAreSound, AnswersAreDelivered, [Next]_vars
             PROVE  CallsAreSound' /\ AnswersAreDelivered'
  OBVIOUS
<1>0. adapter' = adapter /\ call \in [Threads -> Call]
  BY DEF Next, Tick, Step, Begin, Refuse, Send, NoAnswer, Answer, RecordSuccess, RecordFailure,
         vars, TypeOK
<1>1. CASE Tick \/ UNCHANGED vars
  BY <1>1 DEF Tick, vars, CallsAreSound, AnswersAreDelivered, Complete, Uncached
<1>2. ASSUME NEW t \in Threads, Step(t) PROVE CallsAreSound' /\ AnswersAreDelivered'
  <2> DEFINE Delivers(u) ==
        call[u].step = "idle" /\ call[u].body # NoBody =>
            LET c == call[u] IN
            IF Complete(c.body)
            THEN /\ c.result = "answered" /\ c.usage.output = c.body.output
                 /\ c.usage.input = c.usage.cached + Uncached(c.body)
            ELSE c.result = "error"
  <2> DEFINE Sound(u) ==
        /\ call[u].step = "ready" => call[u].attempt < MaxAttempts
        /\ call[u].step \in {"ready", "sent", "failing"} => call[u].body = NoBody
  <2>1. \A u \in Threads \ {t} : call'[u] = call[u]
    BY <1>0, <1>2 DEF Step, Begin, Refuse, Send, NoAnswer, Answer, RecordSuccess, RecordFailure
  <2>2. SUFFICES Sound(t)' /\ Delivers(t)'
    <3>1. \A u \in Threads \ {t} : Sound(u)' /\ Delivers(u)'
      BY <1>0, <2>1 DEF CallsAreSound, AnswersAreDelivered, Complete, Uncached
    <3> HIDE DEF Sound, Delivers
    <3>2. \A u \in Threads : Sound(u)' /\ Delivers(u)'
      BY <2>2, <3>1
    <3> QED BY <3>2 DEF CallsAreSound, AnswersAreDelivered, Sound, Delivers
  <2>3. Sound(t) /\ call[t] \in Call
    BY <1>0 DEF CallsAreSound
  <2>4. CASE Begin(t)
    BY <1>0, <2>4, TransportAssumption DEF Begin, Idle
  <2>5. CASE Refuse(t)
    BY <1>0, <2>5 DEF Refuse, Idle
  <2>6. CASE Send(t)
    BY <1>0, <2>3, <2>6 DEF Send
  <2>7. CASE NoAnswer(t)
    BY <1>0, <2>3, <2>7 DEF NoAnswer, AttemptsLeft
  <2>8. CASE Answer(t)
    BY <1>0, <2>8 DEF Answer
  <2>9. CASE RecordSuccess(t)
    <3>1. PICK b \in Body : b = call[t].body
      BY <2>3, BodyType DEF Call
    <3> DEFINE r == IF b = NoBody THEN ProtocolError ELSE Response(b)
    <3>2. /\ r.result \in {"answered", "error"}
          /\ r.result = "answered" <=> (b # NoBody /\ Complete(b))
          /\ b # NoBody /\ Complete(b) => /\ r.usage.output = b.output
                                         /\ r.usage.input = r.usage.cached + Uncached(b)
      BY ResponseType DEF TypeOK, ProtocolError
    <3>3. call'[t] = [call[t] EXCEPT !.step = "idle", !.result = r.result, !.usage = r.usage]
      BY <1>0, <2>9, <3>1 DEF RecordSuccess
    <3> HIDE DEF r
    <3>4. /\ call'[t].body = b /\ call'[t].result = r.result /\ call'[t].usage = r.usage
          /\ call'[t].step = "idle"
      BY <2>3, <3>1, <3>3 DEF Call
    <3>5. Sound(t)'
      BY <3>4
    <3>6. CASE b # NoBody /\ Complete(b)
      BY <1>0, <3>2, <3>4, <3>5, <3>6 DEF Complete, Uncached
    <3>7. CASE b = NoBody
      BY <3>4, <3>5, <3>7
    <3>8. CASE b # NoBody /\ ~Complete(b)
      <4>1. r.result = "error"
        BY <3>2, <3>8
      <4>2. call'[t].result = "error" /\ call'[t].body = b
        BY <3>4, <4>1
      <4>3. ~Complete(call[t].body)'
        BY <1>0, <3>8, <4>2 DEF Complete
      <4> QED BY <3>5, <4>2, <4>3
    <3> QED BY <3>6, <3>7, <3>8
  <2>10. CASE RecordFailure(t)
    BY <1>0, <2>3, <2>10 DEF RecordFailure, Call
  <2> QED BY <1>2, <2>4, <2>5, <2>6, <2>7, <2>8, <2>9, <2>10 DEF Step
<1> QED BY <1>1, <1>2 DEF Next

\* What a thread may still send only shrinks while the breaker is open.
LEMMA BurstStep ==
    TypeOK /\ CallsAreSound /\ BurstIsSpent /\ [Next]_vars => BurstIsSpent'
<1> SUFFICES ASSUME TypeOK, CallsAreSound, BurstIsSpent, [Next]_vars, Open'
             PROVE  /\ \A u \in Threads : burst'[u] + Left(u)' <= MaxAttempts
                    /\ \E u \in Threads : burst'[u] = 0 /\ call'[u].step = "idle"
  BY DEF BurstIsSpent
<1> USE TransportAssumption DEF Open
<1>0. /\ call \in [Threads -> Call] /\ burst \in [Threads -> Nat] /\ remaining \in 0..Recovery
      /\ \A u \in Threads : call[u].attempt \in 0..MaxAttempts
  BY DEF TypeOK, Call
<1>1. CASE Tick
  BY <1>0, <1>1 DEF Tick, BurstIsSpent, Left
<1>2. CASE UNCHANGED vars
  BY <1>2 DEF vars, breaker, BurstIsSpent, Left
<1>3. ASSUME NEW t \in Threads, Step(t)
      PROVE  /\ \A u \in Threads : burst'[u] + Left(u)' <= MaxAttempts
             /\ \E u \in Threads : burst'[u] = 0 /\ call'[u].step = "idle"
  <2>0. \A u \in Threads \ {t} : call'[u] = call[u]
    BY <1>0, <1>3 DEF Step, Begin, Refuse, Send, NoAnswer, Answer, RecordSuccess, RecordFailure
  <2>1. CASE Begin(t)
    BY <2>1, <1>0 DEF Begin, Available
  <2>2. CASE Refuse(t)
    BY <1>0, <2>0, <2>2 DEF Refuse, breaker, Idle, BurstIsSpent, Left
  <2>3. CASE Send(t)
    <3>1. Open /\ call[t].step = "ready" /\ call[t].attempt < MaxAttempts
      BY <2>3 DEF Send, breaker, CallsAreSound
    <3>2. /\ burst' = [burst EXCEPT ![t] = @ + 1]
          /\ call'[t].step = "sent" /\ call'[t].attempt = call[t].attempt + 1
      BY <1>0, <2>3, <3>1 DEF Send, Call
    <3>3. burst'[t] + Left(t)' = burst[t] + Left(t)
      BY <1>0, <3>1, <3>2 DEF Left
    <3>4. \A u \in Threads \ {t} : burst'[u] = burst[u] /\ Left(u)' = Left(u)
      BY <1>0, <2>0, <3>2 DEF Left
    <3> QED BY <3>1, <3>3, <3>4, <2>0 DEF BurstIsSpent
  <2>4. CASE NoAnswer(t)
    <3>1. call'[t].step \in {"ready", "failing"} /\ call'[t].attempt = call[t].attempt
      BY <1>0, <2>4 DEF NoAnswer, Call
    <3>2. Left(t)' <= Left(t) /\ Left(t) \in Nat /\ Left(t)' \in Nat
      BY <1>0, <2>4, <3>1 DEF NoAnswer, Left
    <3> QED BY <1>0, <2>0, <2>4, <3>2 DEF NoAnswer, breaker, BurstIsSpent, Left
  <2>5. CASE Answer(t)
    <3>1. Left(t)' = 0 /\ Left(t) \in Nat
      BY <1>0, <2>5 DEF Answer, Left, Call
    <3> QED BY <1>0, <2>0, <2>5, <3>1 DEF Answer, breaker, BurstIsSpent, Left
  <2>6. CASE RecordSuccess(t)
    BY <2>6 DEF RecordSuccess
  <2>7. CASE RecordFailure(t)
    <3>1. call'[t].step = "idle"
      BY <1>0, <2>7 DEF RecordFailure, Call
    <3>2. CASE Open
      <4>1. burst' = burst
        BY <2>7, <3>2 DEF RecordFailure, breaker
      <4>2. \E u \in Threads : burst[u] = 0 /\ call[u].step = "idle" /\ u # t
        BY <2>7, <3>2 DEF RecordFailure, BurstIsSpent
      <4>3. Left(t)' = 0 /\ Left(t) \in Nat
        BY <1>0, <3>1 DEF Left
      <4> QED BY <1>0, <2>0, <3>2, <4>1, <4>2, <4>3 DEF BurstIsSpent, Left
    <3>3. CASE ~Open
      <4>1. burst' = [u \in Threads |-> 0]
        BY <1>0, <2>7, <3>3 DEF RecordFailure, breaker
      <4>2. \A u \in Threads : call'[u] = call[u] \/ call'[u].step = "idle"
        BY <2>0, <3>1
      <4>3. \A u \in Threads : Left(u)' \in 0..MaxAttempts
        BY <1>0, <4>2 DEF Left
      <4>4. \A u \in Threads : burst'[u] = 0
        BY <4>1
      <4> QED BY <3>1, <4>3, <4>4
    <3> QED BY <3>2, <3>3
  <2> QED BY <1>3, <2>1, <2>2, <2>3, <2>4, <2>5, <2>6, <2>7 DEF Step
<1> QED BY <1>1, <1>2, <1>3 DEF Next

THEOREM Invariance == Spec => []IInv
<1>1. Init => IInv
  BY InitIInv
<1>2. IInv /\ [Next]_vars => IInv'
  BY TypeStep, CallsStep, BurstStep DEF IInv
<1> QED BY <1>1, <1>2, PTL DEF Spec

\* State is well typed: calls, the breaker's countdown and its failures.
THEOREM TypeCorrect == Spec => []TypeOK
<1>1. IInv => TypeOK
  BY DEF IInv
<1> QED BY <1>1, Invariance, PTL

\* For any number of threads and attempts, while the breaker is open a thread
\* sends no more than the rest of one call, and one thread sends nothing.
THEOREM BurstBounded == Spec => []BurstIsBounded
<1>1. IInv => BurstIsBounded
  <2> SUFFICES ASSUME IInv, Open PROVE BurstIsBounded
    BY DEF BurstIsBounded
  <2>1. \A t \in Threads : Left(t) \in Nat /\ burst[t] \in Nat
    BY TransportAssumption DEF IInv, TypeOK, Call, Left
  <2> QED BY <2>1, TransportAssumption DEF IInv, BurstIsSpent, BurstIsBounded
<1> QED BY <1>1, Invariance, PTL

\* Whatever answers may hold, a complete one reaches the caller with an exact
\* usage, and no other does.
THEOREM AnswersDelivered == Spec => []AnswersAreDelivered
<1>1. IInv => AnswersAreDelivered
  BY DEF IInv
<1> QED BY <1>1, Invariance, PTL
=============================================================================
