--------------------------- MODULE ProviderTransport ---------------------------
(***************************************************************************)
(* The adapter of one LLM provider, as the request threads of a process    *)
(* share it: bounded retries, one circuit breaker for all of them, and     *)
(* what the adapter makes of the provider's answer.                        *)
(*                                                                         *)
(* The breaker is read once, when a call begins; its lock is held only     *)
(* while it is read or written, so each of these is one step.  A request   *)
(* and the pause after it are not timed: the client has a timeout, a pause *)
(* is at most five seconds.  Prompts, models and texts are left out.       *)
(***************************************************************************)
EXTENDS Naturals

CONSTANTS
    Threads,
    Adapters,       \* the providers to look at; a behaviour is about one of them
    MaxAttempts,    \* requests of one call
    Threshold,      \* consecutive failed calls that open the breaker
    Recovery,       \* how long it then stays open, in ticks
    Bodies          \* what the body of an answer may hold

ASSUME TransportAssumption ==
    /\ Threads # {}
    /\ Adapters \subseteq {"ollama", "kimi", "gemini", "anthropic", "openai"}
    /\ MaxAttempts \in Nat \ {0} /\ Threshold \in Nat \ {0} /\ Recovery \in Nat \ {0}

\* finished: the model ended by itself; texts: how many texts it gave; object:
\* the text is a JSON object; input, cached, written, output: reported tokens
Body == [finished : BOOLEAN, texts : Nat, object : BOOLEAN,
         input : Nat, cached : Nat, written : Nat, output : Nat]

ASSUME BodyAssumption == Bodies \subseteq Body

VARIABLES
    adapter,        \* the provider all calls go to
    failures,       \* _consecutive_failures
    tripped,        \* _open_until is not zero
    remaining,      \* ticks left until _open_until
    call,           \* per thread, its call of generate_structured
    burst           \* history: per thread, requests sent since the breaker opened

breaker == <<failures, tripped, remaining>>
vars == <<adapter, breaker, call, burst>>

NoBody == [finished |-> FALSE, texts |-> 0, object |-> FALSE,
           input |-> 0, cached |-> 0, written |-> 0, output |-> 0]
NoUsage == [input |-> 0, cached |-> 0, output |-> 0]
Results == {"none", "error", "answered"}

\* ready: about to send; sent: the request is under way; failing and passing:
\* the outcome is to be recorded; result: how the last call ended
Call == [step : {"idle", "ready", "sent", "failing", "passing"}, attempt : 0..MaxAttempts,
         body : Bodies \cup {NoBody},
         result : Results, usage : [input : Nat, cached : Nat, output : Nat]]

Idle == [step |-> "idle", attempt |-> 0, body |-> NoBody, result |-> "none", usage |-> NoUsage]

Init ==
    /\ adapter \in Adapters
    /\ failures = 0 /\ tripped = FALSE /\ remaining = 0
    /\ call = [t \in Threads |-> Idle]
    /\ burst = [t \in Threads |-> 0]

TypeOK ==
    /\ adapter \in Adapters
    /\ failures \in Nat /\ tripped \in BOOLEAN /\ remaining \in 0..Recovery
    /\ call \in [Threads -> Call]
    /\ burst \in [Threads -> Nat]

Open == remaining > 0

-----------------------------------------------------------------------------
(* What an adapter reads in the body of an answer.                         *)

ProtocolError == [result |-> "error", usage |-> NoUsage]

\* An LLMResponse; it refuses more cached than input tokens.
Answered(input, cached, output) ==
    IF cached <= input
    THEN [result |-> "answered", usage |-> [input |-> input, cached |-> cached, output |-> output]]
    ELSE ProtocolError

OllamaResponse(b) ==
    IF b.finished /\ b.object THEN Answered(b.input, 0, b.output) ELSE ProtocolError

KimiResponse(b) ==
    IF b.texts = 1 /\ b.finished /\ b.cached <= b.input /\ b.object
    THEN Answered(b.input, b.cached, b.output) ELSE ProtocolError

GeminiResponse(b) ==
    IF b.finished /\ b.texts = 1 /\ b.cached <= b.input /\ b.object
    THEN Answered(b.input, b.cached, b.output) ELSE ProtocolError

\* Mutant: only the tokens outside the cache are counted as input.
AnthropicResponse_Regular(b) ==
    IF b.finished /\ b.texts = 1 /\ b.object
    THEN Answered(b.input, b.cached, b.output) ELSE ProtocolError

\* Claude reports what it read from and wrote to its cache beside the input.
AnthropicResponse(b) ==
    IF b.finished /\ b.texts = 1 /\ b.object
    THEN Answered(b.input + b.cached + b.written, b.cached, b.output) ELSE ProtocolError

OpenAIResponse(b) ==
    IF b.finished /\ b.object /\ b.cached <= b.input
    THEN Answered(b.input, b.cached, b.output) ELSE ProtocolError

Response(b) ==
    CASE adapter = "ollama"    -> OllamaResponse(b)
      [] adapter = "kimi"      -> KimiResponse(b)
      [] adapter = "gemini"    -> GeminiResponse(b)
      [] adapter = "anthropic" -> AnthropicResponse(b)
      [] adapter = "openai"    -> OpenAIResponse(b)

-----------------------------------------------------------------------------
(* A call.                                                                 *)

\* Mutant: the breaker is not asked.
Available_Always == TRUE

Available == ~Open

\* generate_structured prepares the request, post asks the breaker; a breaker
\* whose time is over is closed and forgets its failures.
Begin(t) ==
    /\ call[t].step = "idle" /\ Available
    /\ IF tripped
       THEN tripped' = FALSE /\ failures' = 0
       ELSE UNCHANGED <<tripped, failures>>
    /\ call' = [call EXCEPT ![t] = [Idle EXCEPT !.step = "ready"]]
    /\ UNCHANGED <<adapter, remaining, burst>>

\* Mutant: a call refused by the open breaker counts as one more failure.
Refuse_Counts(t) ==
    /\ call[t].step = "idle"
    /\ call' = [call EXCEPT ![t] = [Idle EXCEPT !.result = "error"]]
    /\ remaining' = IF Open THEN Recovery ELSE remaining
    /\ UNCHANGED <<adapter, failures, tripped, burst>>

\* The request cannot be prepared, or the breaker is open.
Refuse(t) ==
    /\ call[t].step = "idle"
    /\ call' = [call EXCEPT ![t] = [Idle EXCEPT !.result = "error"]]
    /\ UNCHANGED <<adapter, breaker, burst>>

Send(t) ==
    /\ call[t].step = "ready"
    /\ call' = [call EXCEPT ![t] = [call[t] EXCEPT !.step = "sent", !.attempt = @ + 1]]
    /\ burst' = IF Open THEN [burst EXCEPT ![t] = @ + 1] ELSE burst
    /\ UNCHANGED <<adapter, breaker>>

AttemptsLeft(t) == call[t].attempt < MaxAttempts

\* A transient status, or no answer: another attempt, if any is left.
NoAnswer(t) ==
    /\ call[t].step = "sent"
    /\ call' = [call EXCEPT ![t].step = IF AttemptsLeft(t) THEN "ready" ELSE "failing"]
    /\ UNCHANGED <<adapter, breaker, burst>>

\* Any other status ends the call: the breaker counts it as a success, also a
\* refusal without a body.
Answer(t) ==
    /\ call[t].step = "sent"
    /\ \E b \in Bodies \cup {NoBody} :
          call' = [call EXCEPT ![t] = [call[t] EXCEPT !.step = "passing", !.body = b]]
    /\ UNCHANGED <<adapter, breaker, burst>>

RecordSuccess(t) ==
    LET b == call[t].body
        response == IF b = NoBody THEN ProtocolError ELSE Response(b)
    IN
    /\ call[t].step = "passing"
    /\ failures' = 0 /\ tripped' = FALSE /\ remaining' = 0
    /\ call' = [call EXCEPT ![t] = [call[t] EXCEPT
                    !.step = "idle", !.result = response.result, !.usage = response.usage]]
    /\ UNCHANGED <<adapter, burst>>

\* The SDK of OpenAI retries too, but there is no breaker around it.
RecordFailure(t) ==
    /\ call[t].step = "failing"
    /\ IF adapter = "openai"
       THEN UNCHANGED <<breaker, burst>>
       ELSE /\ failures' = failures + 1
            /\ IF failures + 1 >= Threshold
               THEN /\ tripped' = TRUE /\ remaining' = Recovery
                    /\ burst' = IF Open THEN burst ELSE [u \in Threads |-> 0]
               ELSE UNCHANGED <<tripped, remaining, burst>>
    /\ call' = [call EXCEPT ![t] = [call[t] EXCEPT !.step = "idle", !.result = "error"]]
    /\ UNCHANGED adapter

Tick ==
    /\ Open /\ remaining' = remaining - 1
    /\ UNCHANGED <<adapter, failures, tripped, call, burst>>

Step(t) ==
    Begin(t) \/ Refuse(t) \/ Send(t) \/ NoAnswer(t) \/ Answer(t) \/ RecordSuccess(t) \/ RecordFailure(t)

Next == Tick \/ \E t \in Threads : Step(t)

Spec == Init /\ [][Next]_vars

\* Time passes.
FairSpec == Spec /\ WF_vars(Tick)

-----------------------------------------------------------------------------
(* Properties.                                                             *)

\* However many calls were under way when the breaker opened, and though they
\* go on and their failures keep it open, the provider is left alone: no
\* thread sends more than the rest of one call before it closes, and one
\* sends nothing (provider_http.py:81, the breaker is asked once per call).
BurstIsBounded ==
    Open => /\ \A t \in Threads : burst[t] <= MaxAttempts
            /\ \E t \in Threads : burst[t] = 0

\* An answer the model finished, with one JSON object (Ollama and OpenAI give
\* no more than one text) and possible counts.
Complete(b) ==
    /\ b.finished /\ b.object
    /\ adapter \in {"ollama", "openai"} \/ b.texts = 1
    /\ adapter \in {"ollama", "anthropic"} \/ b.cached <= b.input

\* What of an answer's input is charged in full.
Uncached(b) ==
    CASE adapter = "ollama" -> b.input
      [] adapter = "anthropic" -> b.input + b.written
      [] OTHER -> b.input - b.cached

\* A call that got a complete answer returns it, whatever the breaker did
\* meanwhile, and its usage splits the input into cached and full price
\* without counting a token twice; any other answer is an error
\* (the adapters' _parse_response, cost_engine/service.py:170).
AnswersAreDelivered ==
    \A t \in Threads : call[t].step = "idle" /\ call[t].body # NoBody =>
        LET c == call[t] IN
        IF Complete(c.body)
        THEN /\ c.result = "answered" /\ c.usage.output = c.body.output
             /\ c.usage.input = c.usage.cached + Uncached(c.body)
        ELSE c.result = "error"

\* An open breaker closes, though late failures put its closing off
\* (provider_http.py:120-124).
OpenBreakerRecovers == Open ~> ~Open
=============================================================================
