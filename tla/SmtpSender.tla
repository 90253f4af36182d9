----------------------------- MODULE SmtpSender -----------------------------
(***************************************************************************)
(* SMTPMailer.Send: the dialogue with a mail server, and how its failures  *)
(* are classified (SMTPError.Retryable).  EHLO belongs to the first        *)
(* command after the greeting; in STARTTLS mode that is Extension.         *)
(***************************************************************************)
EXTENDS SendAttempt

\* Config: the TLS mode and whether there is a user name.
SmtpConfigs == [tls : {"starttls", "implicit", "none"}, auth : BOOLEAN]

If(condition, commands) == IF condition THEN commands ELSE <<>>

SmtpScript(config) ==
    <<"validate", "dial">>
    \o If(config.tls = "implicit", <<"handshake">>)
    \o <<"greeting">>
    \o If(config.tls = "starttls", <<"extension", "starttls">>)
    \o If(config.auth, <<"auth">>)
    \o <<"mail", "rcpt", "data", "body", "end", "quit">>

\* Ways in which a command can fail.
SmtpFailures ==
    [dial      |-> {"broken"},
     handshake |-> {"broken", "unusable"},
     greeting  |-> {"broken", "later", "refused", "unusable"},
     starttls  |-> {"broken", "later", "refused", "unusable"},
     auth      |-> {"broken", "later", "refused", "unusable", "unsupported"},
     mail      |-> {"broken", "later", "refused", "unusable"},
     rcpt      |-> {"broken", "later", "refused", "unusable"},
     data      |-> {"broken", "later", "refused", "unusable"},
     body      |-> {"broken"},
     end       |-> {"broken", "later", "refused", "unusable"}]

\* An error that says nothing of itself and wraps no network error.
Plain == [says |-> "nothing", transport |-> FALSE, suggested |-> 0]

\* A reply code decides; without one, network errors and an end of input are
\* worth another attempt.
SMTPError(reason) ==
    [says |-> IF reason \in {"later", "broken"} THEN "retryable" ELSE "permanent",
     transport |-> reason = "broken", suggested |-> 0]

\* Sender.Send: recipient, subject and body.  A message that passed once
\* passes in every attempt.
ValidateMail(first) ==
    /\ InProgress("validate")
    /\ \/ Proceed /\ UNCHANGED cause
       \/ first /\ ReturnError(Plain, "invalid")
    /\ UNCHANGED <<took, answered>>

\* A server that breaks off the TLS handshake with an alert cannot be used, but
\* its alert is a network error to Go.
Exchange(command) ==
    /\ InProgress(command)
    /\ command \in DOMAIN SmtpFailures \ {"end"}
    /\ \/ Proceed /\ UNCHANGED cause
       \/ \E reason \in SmtpFailures[command] : ReturnError(SMTPError(reason), reason)
       \/ command \in {"handshake", "starttls"} /\ ReturnError(SMTPError("broken"), "unusable")
    /\ UNCHANGED <<took, answered>>

\* Extension says false when STARTTLS is not offered, and just so when EHLO
\* and HELO failed: their error is lost, and a plain one is returned.
Extension ==
    /\ InProgress("extension")
    /\ \/ Proceed /\ UNCHANGED cause
       \/ \E reason \in {"broken", "later", "refused", "unusable", "unsupported"} :
             ReturnError(SMTPError("unsupported"), reason)
    /\ UNCHANGED <<took, answered>>

\* The end of DATA.  The server takes the message and says so, says that it
\* does not, or its answer is lost or garbled, and then it may have taken it.
Finish ==
    /\ InProgress("end")
    /\ \/ took' = TRUE /\ answered' = TRUE /\ Proceed /\ UNCHANGED cause
       \/ \E reason \in SmtpFailures["end"] :
             /\ took' \in IF reason \in {"later", "refused"} THEN {FALSE} ELSE BOOLEAN
             /\ UNCHANGED answered
             /\ ReturnError(SMTPError(reason), reason)

\* Mutant: a failing QUIT fails the attempt.
QuitChecked ==
    /\ InProgress("quit")
    /\ \/ Proceed /\ UNCHANGED cause
       \/ ReturnError(SMTPError("broken"), "broken")
    /\ UNCHANGED <<took, answered>>

\* The mail is accepted, whatever becomes of QUIT.
Quit ==
    /\ InProgress("quit")
    /\ Proceed
    /\ UNCHANGED <<took, answered, cause>>

SmtpNext(first) ==
    \/ ValidateMail(first) \/ Extension \/ Finish \/ Quit
    \/ \E command \in DOMAIN SmtpFailures : Exchange(command)

=============================================================================
