--------------------------- MODULE DeliveryAttempt ---------------------------
(***************************************************************************)
(* Worker.Process, attempt after attempt of one delivery: the dialogue of  *)
(* its sender, the retry policy's verdict on the error, and what the store *)
(* is told.                                                                *)
(***************************************************************************)
EXTENDS RetryPolicy, SmtpSender, TelegramSender

CONSTANT Senders   \* the senders in the registry: Telegram, or SMTP configurations

Telegram == [tls |-> "https"]

ASSUME SendersAssumption == Senders \subseteq SmtpConfigs \union {Telegram}
ASSUME RetryAftersAssumption == RetryAfters \subseteq Suggestions

VARIABLES
    policy,
    sender,    \* the sender of the delivery's channel type
    attempt,   \* task.Attempts of the claim in hand
    state,     \* status; "abandoned" is a claim nobody works on
    delay      \* what MarkFailed was given

vars == <<policy, sender, attempt, state, delay, sendVars>>
deliveryVars == <<policy, sender, attempt, state, delay>>

ScriptOf(s) == IF s = Telegram THEN TelegramScript ELSE SmtpScript(s)

Init ==
    /\ policy \in Policies
    /\ sender \in Senders
    /\ attempt = 1
    /\ state = "processing"
    /\ delay = 0
    /\ todo = ScriptOf(sender)
    /\ took = FALSE
    /\ answered = FALSE
    /\ cause = "none"
    /\ result = Running

-----------------------------------------------------------------------------

\* The provider and the sender, until Send returns.
Send ==
    /\ state = "processing"
    /\ \/ sender = Telegram /\ TelegramNext(attempt = 1)
       \/ sender # Telegram /\ SmtpNext(attempt = 1)
    /\ UNCHANGED deliveryVars

\* Process and MarkFailed: the delay alone tells whether there is a retry.
Fail ==
    /\ state = "processing"
    /\ result \in Errors
    /\ \/ ~MayRetry(policy, attempt, result) /\ delay' = 0
       \/ /\ MayRetry(policy, attempt, result)
          /\ \E random \in Randoms : delay' = NextDelay(policy, attempt, result, random)
    /\ state' = IF delay' > 0 THEN "retry_wait" ELSE "failed"
    /\ UNCHANGED <<policy, sender, attempt, sendVars>>

MarkSent ==
    /\ state = "processing"
    /\ result = Nil
    /\ state' = "sent"
    /\ UNCHANGED <<policy, sender, attempt, delay, sendVars>>

\* The worker's context ends or its process dies: Process returns ctx.Err(),
\* or what it tells the store does not arrive.
Interrupt ==
    /\ state = "processing"
    /\ state' = "abandoned"
    /\ UNCHANGED <<policy, sender, attempt, delay, sendVars>>

\* RecoverExpired, whose limit is the policy's (8, 8).
Recover ==
    /\ state = "abandoned"
    /\ state' = IF attempt >= policy.maxAttempts THEN "failed" ELSE "pending"
    /\ UNCHANGED <<policy, sender, attempt, delay, sendVars>>

\* The retry record resumes the delivery after its delay, a claim takes it.
TryAgain ==
    /\ state \in {"retry_wait", "pending"}
    /\ attempt' = attempt + 1
    /\ state' = "processing"
    /\ delay' = 0
    /\ Start(ScriptOf(sender))
    /\ UNCHANGED <<policy, sender>>

Next == Send \/ Fail \/ MarkSent \/ Interrupt \/ Recover \/ TryAgain

(***************************************************************************)
(* What is bound to happen.  A provider may keep silent: its answers are   *)
(* not fair, only the timers are.                                          *)
(***************************************************************************)

\* Mutant: the deadline is set when the server has greeted.
LimitedOnceGreeted == (DOMAIN SmtpFailures \ {"handshake", "greeting"})
                      \union {"extension", "quit", "request", "read"}

\* Commands whose wait ends by itself: the dialer, the connection and the HTTP
\* client have a timeout of 10 seconds, the context of Process one of 15.
Limited == DOMAIN SmtpFailures \union {"extension", "quit", "request", "read"}

Waiting == state = "processing" /\ result = Running

\* A command that takes too long does what it does when its connection breaks.
TimeOut ==
    /\ Waiting /\ Command \in Limited
    /\ Send
    /\ Command = "quit" \/ cause' = "broken"

\* The commands that wait for nobody.
Compute ==
    /\ Waiting /\ Command \in {"validate", "format", "decode"}
    /\ Send

\* Fail and MarkSent end in the database or by Interrupt; the recovery has a
\* ticker, and a retry record and its claim come in the end.
Fairness ==
    /\ WF_vars(TimeOut) /\ WF_vars(Compute)
    /\ WF_vars(Fail) /\ WF_vars(MarkSent)
    /\ WF_vars(Recover) /\ WF_vars(TryAgain)

Spec == Init /\ [][Next]_vars /\ Fairness

-----------------------------------------------------------------------------
(* Properties.                                                             *)

\* Delays are durations, never negative, and attempts stay within the policy.
TypeOK ==
    /\ policy \in Policies /\ sender \in Senders
    /\ attempt \in 1..policy.maxAttempts
    /\ state \in {"processing", "retry_wait", "pending", "sent", "failed", "abandoned"}
    /\ delay \in Durations /\ delay >= 0
    /\ took \in BOOLEAN /\ answered \in BOOLEAN
    /\ cause \in Causes \union {"none"}
    /\ result \in Errors \union {Running, Nil}

\* The delay of every retry lies within the jitter of the exact exponential
\* delay, below the maximum, or is the longer one the provider asked for:
\* no attempt number makes the doubling overflow.
DelayInBand ==
    state = "retry_wait" =>
       LET exact == Reference(policy, attempt)
           asked == SuggestedDelay(result)
       IN \/ /\ Scale * (delay + 1) > exact * (Scale - policy.jitter)
             /\ Scale * delay <= exact * (Scale + policy.jitter)
             /\ asked <= delay /\ delay <= policy.max
          \/ delay = asked /\ Scale * (delay + 1) > exact * (Scale - policy.jitter)

\* Send tells the truth as far as it can know it: nil only of a message the
\* provider has taken, and no error once its positive answer was read -- so a
\* message is repeated only when that answer, or the note of it, was lost.
VerdictMatchesProvider ==
    /\ result = Nil => took
    /\ result \in Errors => ~answered

\* Some errors hide that the failure may pass: Extension drops the one of EHLO,
\* and an answer of Telegram that is too long or not JSON is an error whose
\* status is not looked at.
Hides(error, reason) ==
    /\ todo # <<>>
    /\ \/ Command = "extension"
       \/ Command \in {"read", "decode"} /\ error = Unwrapped /\ reason = "later"

\* client.Do and a TLS handshake make a network error of what they cannot use.
TakenForBroken(reason) ==
    /\ todo # <<>>
    /\ Command \in {"handshake", "starttls", "request"}
    /\ reason \in {"reset", "unusable"}

\* MarkFailed takes a delay of zero for a final failure.  NextDelay returns one
\* if base and jitter allow it; those of the default policy do not.
ZeroDelay == \E random \in Randoms : NextDelay(policy, attempt, result, random) = 0

\* A failure that may pass -- a broken connection, "later", a server error --
\* is given up before the last attempt only if its error hides it or the delay
\* is zero.  What is tried again is such a failure or taken for one: never a
\* refusal, a configuration the server does not support or an invalid message.
TransientIsRetried ==
    /\ state = "failed" =>
          \/ attempt = policy.maxAttempts
          \/ cause \notin Transient
          \/ Hides(result, cause)
          \/ ZeroDelay
    /\ state = "retry_wait" =>
          /\ attempt < policy.maxAttempts
          /\ cause \in Transient \/ TakenForBroken(cause)

\* The delivery comes to its end although the provider may keep silent at any
\* command of any attempt, in every mode, and the worker may be interrupted:
\* the one goroutine that sends never waits for ever.
DeliveryEnds == <>(state \in {"sent", "failed"})

=============================================================================
