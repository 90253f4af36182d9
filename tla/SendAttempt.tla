----------------------------- MODULE SendAttempt -----------------------------
(***************************************************************************)
(* What every sender of the notification service has in common: one call   *)
(* of Send for one attempt of a delivery is a script of commands, most of  *)
(* which wait for the provider, and it ends with nil or an error.          *)
(* SmtpSender and TelegramSender say what each command may lead to.        *)
(***************************************************************************)
EXTENDS Integers, Sequences

VARIABLES
    todo,       \* commands left, the first is in progress
    took,       \* history: the provider took the message in this Send
    answered,   \* history: ... and its positive answer was read
    cause,      \* history: what went wrong, whatever the error says
    result      \* what Send returned

sendVars == <<todo, took, answered, cause, result>>

\* What can go wrong.  "broken" is a failed dial, a broken connection or a
\* time-out, "reset" a stream of HTTP/2 given up by the provider; "later" and
\* "refused" are the provider's own answers; "unusable" is one that cannot be
\* understood or trusted; "unsupported" one that lacks what the configuration
\* asks for; "invalid" is a message never sent.
Causes == {"broken", "reset", "later", "refused", "unusable", "unsupported", "invalid"}
Transient == {"broken", "later"}

Running == [says |-> "running"]
Nil     == [says |-> "nil"]

Command == Head(todo)

InProgress(command) == result = Running /\ Command = command

\* A new Send and its script.
Start(script) ==
    /\ todo' = script
    /\ took' = FALSE
    /\ answered' = FALSE
    /\ cause' = "none"
    /\ result' = Running

\* The command succeeded, the next one is sent; after the last Send is over.
Proceed ==
    /\ todo' = Tail(todo)
    /\ result' = IF Len(todo) = 1 THEN Nil ELSE Running

\* Send returns the error; the command that failed stays in todo.
ReturnError(error, reason) ==
    /\ result' = error
    /\ cause' = reason
    /\ UNCHANGED todo

=============================================================================
