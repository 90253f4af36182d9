-------------------------- MODULE MCDeliveryAttempt --------------------------
(***************************************************************************)
(* A finite instance of DeliveryAttempt.                                   *)
(***************************************************************************)
EXTENDS DeliveryAttempt

\* Base and maximum delays around the powers of two of 5 bit durations, and no
\* jitter, the default one and the largest one.
EdgePolicies ==
    {p \in [maxAttempts : {6}, base : {1, 2, 3, 7, 8, 9, 15},
            max : {3, 7, 8, 14, 15}, jitter : {0, 1, 5}] : p.base <= p.max}

\* Out of Scale = 5, with one value on each side RandomFloat64 must not return.
SomeRandoms == {-1, 0, 1, 4, 5, 6}

SomeSuggestions == {-3, 0, 11}

AllSenders == SmtpConfigs \union {Telegram}
=============================================================================
