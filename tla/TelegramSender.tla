--------------------------- MODULE TelegramSender ---------------------------
(***************************************************************************)
(* Sender.Send of internal/notification/telegram: one HTTP request, the    *)
(* reading of its answer, and the error made of it (APIError, or an error  *)
(* that wraps what the transport said).                                    *)
(***************************************************************************)
EXTENDS SendAttempt

CONSTANT RetryAfters   \* values of parameters.retry_after, 0 for none

TelegramScript == <<"format", "request", "read", "decode">>

\* An HTTP answer: the status, whether the body is JSON, and what it says.
OtherCodes == {400, 429, 500}
Replies == [status : {200} \union OtherCodes, json : BOOLEAN, ok : BOOLEAN,
            code : {0} \union OtherCodes, after : RetryAfters]

Success(reply) == reply.status \in 200..299 /\ reply.ok

\* error_code, or the status without one.
Code(reply) == IF reply.code = 0 THEN reply.status ELSE reply.code

\* What the provider meant: too many requests or an error of its own.
IsTransient(reply) ==
    \/ reply.status = 429 \/ reply.status >= 500
    \/ reply.json /\ (reply.code = 429 \/ reply.code >= 500)

\* Mutant: 429 is taken for a refusal like any other 4xx.
APIErrorByServer(reply) ==
    LET retryable(n) == n >= 500
    IN [says |-> IF retryable(reply.status) \/ retryable(Code(reply))
                   THEN "retryable" ELSE "permanent",
        transport |-> FALSE, suggested |-> reply.after]

APIError(reply) ==
    LET retryable(n) == n = 429 \/ n >= 500
    IN [says |-> IF retryable(reply.status) \/ retryable(Code(reply))
                   THEN "retryable" ELSE "permanent",
        transport |-> FALSE, suggested |-> reply.after]

\* TransportError wraps a *url.Error, a network error whatever its reason; the
\* error of ReadAll wraps a network error of the connection.  Other errors do
\* not say what they are.
Wrapped   == [says |-> "nothing", transport |-> TRUE, suggested |-> 0]
Unwrapped == [says |-> "nothing", transport |-> FALSE, suggested |-> 0]

\* A recipient and a text; what passes once passes in every attempt.
Format(first) ==
    /\ InProgress("format")
    /\ \/ Proceed /\ UNCHANGED cause
       \/ first /\ ReturnError(Unwrapped, "invalid")
    /\ UNCHANGED <<took, answered>>

\* client.Do: the request may have been served although it fails.  A certificate
\* or an answer that is not HTTP is reported like a broken connection.
Do ==
    /\ InProgress("request")
    /\ took' \in BOOLEAN
    /\ \/ Proceed /\ UNCHANGED cause
       \/ \E reason \in {"broken", "reset", "unusable"} : ReturnError(Wrapped, reason)
    /\ UNCHANGED answered

\* ReadAll up to maxResponseBytes: a longer answer is refused unread, whatever
\* its status, and an error of HTTP/2 is no network error.
Read ==
    /\ InProgress("read")
    /\ \/ Proceed /\ UNCHANGED cause
       \/ ReturnError(Wrapped, "broken")
       \/ \E reason \in {"reset", "later", "unusable"} : ReturnError(Unwrapped, reason)
    /\ UNCHANGED <<took, answered>>

\* The answer says ok only of a message that was taken, and refuses none.
Possible(reply) ==
    reply.json => IF Success(reply) THEN took ELSE took => IsTransient(reply)

Decode ==
    /\ InProgress("decode")
    /\ \E reply \in Replies :
          /\ Possible(reply)
          /\ \/ ~reply.json /\ UNCHANGED answered
                /\ ReturnError(Unwrapped, IF IsTransient(reply) THEN "later" ELSE "unusable")
             \/ reply.json /\ Success(reply) /\ answered' = TRUE
                /\ Proceed /\ UNCHANGED cause
             \/ reply.json /\ ~Success(reply) /\ UNCHANGED answered
                /\ ReturnError(APIError(reply),
                               IF IsTransient(reply) THEN "later" ELSE "refused")
    /\ UNCHANGED took

TelegramNext(first) == Format(first) \/ Do \/ Read \/ Decode

=============================================================================
