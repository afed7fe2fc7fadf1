------------------------- MODULE MCProviderTransport -------------------------
\* A small process for TLC.
EXTENDS ProviderTransport

Told(finished, texts, object, input, cached, written) ==
    [finished |-> finished, texts |-> texts, object |-> object,
     input |-> input, cached |-> cached, written |-> written, output |-> 1]

\* An answer with part of its input from the cache, one with more from the
\* cache than beside it, and one the model did not finish.
MCBodies ==
    {Told(TRUE, 1, TRUE, 2, 1, 0), Told(TRUE, 1, TRUE, 1, 2, 1), Told(FALSE, 1, FALSE, 1, 0, 0)}
=============================================================================
