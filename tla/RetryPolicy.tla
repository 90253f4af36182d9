----------------------------- MODULE RetryPolicy -----------------------------
(***************************************************************************)
(* The backoff of the delivery worker (internal/notification/retry): which *)
(* errors are tried again and after which delay.  DeliveryAttempt uses it  *)
(* attempt after attempt of one delivery.                                  *)
(*                                                                         *)
(* Durations are signed integers that wrap around.  Fractions -- the       *)
(* jitter percentage and the random number -- are integers out of Scale;   *)
(* the product is cut off as in Go's conversion, float rounding is left    *)
(* out.                                                                    *)
(***************************************************************************)
EXTENDS Integers

CONSTANTS
    HalfRange,   \* a time.Duration is below it: 2^63
    Scale,       \* stands for 1.0 in the fractions
    Policies,    \* configurations NewPolicy accepts
    Randoms,     \* values of RandomFloat64
    Suggestions  \* values of RetryDelay(), 0 for an error without one

Durations == -HalfRange..(HalfRange - 1)

\* NewPolicy refuses everything else.
ValidPolicy(p) ==
    /\ p.maxAttempts \in Nat \ {0}
    /\ p.base > 0
    /\ p.max > 0
    /\ p.base <= p.max
    /\ p.jitter \in 0..Scale

ASSUME HalfRangeAssumption == HalfRange \in Nat \ {0}
ASSUME ScaleAssumption == Scale \in Nat \ {0}
ASSUME PoliciesAssumption ==
    \A p \in Policies : ValidPolicy(p) /\ {p.base, p.max} \subseteq Durations
ASSUME RandomsAssumption == Randoms \subseteq Int
ASSUME SuggestionsAssumption == 0 \in Suggestions /\ Suggestions \subseteq Durations

\* Errors of a sender: what the error says of itself, and whether it wraps a
\* network error or an unexpected end of input.
Errors == [says : {"retryable", "permanent", "nothing"}, transport : BOOLEAN,
           suggested : Suggestions]

-----------------------------------------------------------------------------
(* The policy.                                                             *)

\* Two's complement.
Wrap(x) == ((x + HalfRange) % (2 * HalfRange)) - HalfRange

\* Mutant: the limit is looked at after the doubling only.
DoubleFirst(p, d) == IF Wrap(2 * d) > p.max THEN p.max ELSE Wrap(2 * d)

\* One round of the loop; the maximum is a fixed point of it.
DoubledDelay(p, d) ==
    IF d >= p.max \/ d > p.max \div 2 THEN p.max ELSE Wrap(2 * d)

exponentialDelay(p, n) ==
    LET after[k \in 1..n] == IF k = 1 THEN p.base ELSE DoubledDelay(p, after[k - 1])
    IN after[n]

Clamp(random) == IF random < 0 THEN 0 ELSE IF random > Scale THEN Scale ELSE random

\* Mutant: the jitter is not held below the maximum.
JitterUncapped(p, d, random) ==
    (d * (Scale * (Scale - p.jitter) + 2 * p.jitter * Clamp(random))) \div (Scale * Scale)

\* d times (1 - jitter) + 2 * jitter * random.
withJitter(p, d, random) ==
    LET jittered == (d * (Scale * (Scale - p.jitter) + 2 * p.jitter * Clamp(random)))
                       \div (Scale * Scale)
    IN IF p.jitter = 0 THEN d
       ELSE IF jittered >= p.max THEN p.max ELSE jittered

IsRetryable(e) == e.says = "retryable" \/ (e.says = "nothing" /\ e.transport)

SuggestedDelay(e) == IF e.suggested < 0 THEN 0 ELSE e.suggested

MayRetry(p, n, e) == n < p.maxAttempts /\ IsRetryable(e)

\* NextDelay of an error that may be tried again.
NextDelay(p, n, e, random) ==
    LET computed == withJitter(p, exponentialDelay(p, n), random)
    IN IF SuggestedDelay(e) > computed THEN SuggestedDelay(e) ELSE computed

\* The exponential delay in exact arithmetic: doubled n - 1 times, cut off once.
Reference(p, n) ==
    LET exact[k \in 1..n] == IF k = 1 THEN p.base ELSE 2 * exact[k - 1]
    IN IF exact[n] > p.max THEN p.max ELSE exact[n]

=============================================================================
