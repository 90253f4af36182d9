------------------------ MODULE DeliveryAttemptProofs ------------------------
(***************************************************************************)
(* What Worker.Process may rely on of its senders, for every SMTP          *)
(* configuration and every answer of the providers: a Send tells the       *)
(* truth.  The inductive invariant describes the commands that are left of *)
(* a dialogue by the way they end.  And what the delivery may rely on of   *)
(* the retry policy, for every policy NewPolicy accepts and every attempt: *)
(* delays that neither overflow nor leave the band of the jitter, and      *)
(* another attempt after every failure that may pass.                      *)
(***************************************************************************)
EXTENDS DeliveryAttempt, SequenceTheorems, WellFoundedInduction, TLAPS

-----------------------------------------------------------------------------
(* The inductive invariant.                                                *)

Early == {"validate", "dial", "handshake", "greeting", "extension", "starttls", "auth",
          "mail", "rcpt", "data", "body"}

\* What is left of an SMTP dialogue: the end of DATA and QUIT are the last ones.
SmtpTodo(t) ==
    /\ t \in Seq(Early \union {"end", "quit"})
    /\ Len(t) >= 1
    /\ t[Len(t)] = "quit"
    /\ Len(t) >= 2 => t[Len(t) - 1] = "end"
    /\ \A i \in 1..(Len(t) - 2) : t[i] \in Early

\* What is left of a request to Telegram: its answer is decoded last.
TelegramTodo(t) ==
    /\ t \in Seq({"format", "request", "read", "decode"})
    /\ Len(t) >= 1
    /\ t[Len(t)] = "decode"
    /\ \A i \in 1..(Len(t) - 1) : t[i] \in {"format", "request", "read"}

\* While Send runs the provider's positive answer is still to come, but for the
\* QUIT after it, which cannot change the verdict any more.
DialogueOK ==
    /\ sender = Telegram /\ result = Running => TelegramTodo(todo) /\ ~answered
    /\ sender # Telegram /\ result = Running =>
          /\ SmtpTodo(todo)
          /\ Len(todo) = 1 => took
          /\ Len(todo) # 1 => ~answered
    /\ result = Nil => took
    /\ result \notin {Running, Nil} => ~answered

IInv == sender \in Senders /\ DialogueOK

-----------------------------------------------------------------------------
(* The scripts and what is left of them.                                   *)

LEMMA TelegramScriptIsTodo == TelegramTodo(TelegramScript)
BY DEF TelegramTodo, TelegramScript

LEMMA SmtpScriptIsTodo ==
    ASSUME NEW config \in SmtpConfigs
    PROVE  SmtpTodo(SmtpScript(config))
<1> DEFINE opening == <<"validate", "dial">> \o If(config.tls = "implicit", <<"handshake">>)
                      \o <<"greeting">>
                      \o If(config.tls = "starttls", <<"extension", "starttls">>)
                      \o If(config.auth, <<"auth">>)
           mail == <<"mail", "rcpt", "data", "body", "end", "quit">>
           All == Early \union {"end", "quit"}
<1>1. opening \in Seq(Early)
  <2>1. /\ <<"validate", "dial">> \in Seq(Early) /\ <<"greeting">> \in Seq(Early)
        /\ <<"handshake">> \in Seq(Early) /\ <<"extension", "starttls">> \in Seq(Early)
        /\ <<"auth">> \in Seq(Early) /\ <<>> \in Seq(Early)
    BY DEF Early
  <2>2. If(config.tls = "implicit", <<"handshake">>) \in Seq(Early)
    BY <2>1 DEF If
  <2>3. If(config.tls = "starttls", <<"extension", "starttls">>) \in Seq(Early)
    BY <2>1 DEF If
  <2>4. If(config.auth, <<"auth">>) \in Seq(Early)
    BY <2>1 DEF If
  <2> QED
    BY <2>1, <2>2, <2>3, <2>4, ConcatProperties
<1>2. opening \in Seq(All)
  BY <1>1, SeqMonotonic
<1>3. mail \in Seq(All) /\ Len(mail) = 6
  BY DEF Early
<1>4. SmtpScript(config) = opening \o mail
  BY DEF SmtpScript
<1>5. \A i \in 1..Len(opening) : opening[i] \in Early
  BY <1>1, ElementOfSeq
<1>6. Len(opening) \in Nat
  BY <1>1, LenProperties
<1>7. /\ mail[1] \in Early /\ mail[2] \in Early /\ mail[3] \in Early /\ mail[4] \in Early
      /\ mail[5] = "end" /\ mail[6] = "quit"
  BY DEF Early
<1> DEFINE s == SmtpScript(config)
<1>8. /\ s \in Seq(All)
      /\ Len(s) = Len(opening) + 6
      /\ \A i \in 1..(Len(opening) + 6) :
            s[i] = IF i <= Len(opening) THEN opening[i] ELSE mail[i - Len(opening)]
  BY <1>2, <1>3, <1>4, ConcatProperties
<1> HIDE DEF opening, mail, s
<1>9. s[Len(s)] = "quit" /\ s[Len(s) - 1] = "end"
  BY <1>6, <1>7, <1>8
<1>10. ASSUME NEW i \in 1..(Len(s) - 2) PROVE s[i] \in Early
  <2>1. CASE i <= Len(opening)
    BY <1>5, <1>6, <1>8, <2>1
  <2>2. CASE i > Len(opening)
    <3>1. i - Len(opening) \in 1..4 /\ s[i] = mail[i - Len(opening)]
      BY <1>6, <1>8, <2>2
    <3> QED
      BY <1>7, <3>1
  <2> QED
    BY <1>6, <1>8, <2>1, <2>2
<1>11. SmtpTodo(s)
  BY <1>6, <1>8, <1>9, <1>10 DEF SmtpTodo
<1> QED
  BY <1>11 DEF s

\* The last commands are told from the others by how many are left.
LEMMA SmtpProceeds ==
    ASSUME NEW t, SmtpTodo(t)
    PROVE  /\ Head(t) \in Early \union {"end", "quit"}
           /\ Head(t) = "quit" <=> Len(t) = 1
           /\ Head(t) = "end" <=> Len(t) = 2
           /\ Len(t) # 1 => SmtpTodo(Tail(t)) /\ Len(Tail(t)) = Len(t) - 1
<1>1. t \in Seq(Early \union {"end", "quit"}) /\ Len(t) \in Nat /\ t # <<>>
  BY LenProperties, EmptySeq DEF SmtpTodo
<1>2. /\ Head(t) = t[1]
      /\ Tail(t) \in Seq(Early \union {"end", "quit"})
      /\ Len(Tail(t)) = Len(t) - 1
      /\ \A i \in 1..(Len(t) - 1) : Tail(t)[i] = t[i + 1]
  BY <1>1, HeadTailProperties
<1>3. "end" \notin Early /\ "quit" \notin Early
  BY DEF Early
<1> QED
  BY <1>1, <1>2, <1>3 DEF SmtpTodo

LEMMA TelegramProceeds ==
    ASSUME NEW t, TelegramTodo(t)
    PROVE  /\ Head(t) = "decode" <=> Len(t) = 1
           /\ Len(t) # 1 => TelegramTodo(Tail(t))
<1>1. /\ t \in Seq({"format", "request", "read", "decode"})
      /\ Len(t) \in Nat /\ t # <<>>
  BY LenProperties, EmptySeq DEF TelegramTodo
<1>2. /\ Head(t) = t[1]
      /\ Tail(t) \in Seq({"format", "request", "read", "decode"})
      /\ Len(Tail(t)) = Len(t) - 1
      /\ \A i \in 1..(Len(t) - 1) : Tail(t)[i] = t[i + 1]
  BY <1>1, HeadTailProperties
<1> QED
  BY <1>1, <1>2 DEF TelegramTodo

\* No error of a sender is mistaken for one of the two verdicts.
LEMMA ErrorsAreErrors ==
    /\ Running # Nil /\ Running \notin Errors /\ Nil \notin Errors
    /\ Wrapped \notin {Running, Nil} /\ Unwrapped \notin {Running, Nil}
    /\ Plain \notin {Running, Nil}
    /\ \A reason : SMTPError(reason) \notin {Running, Nil}
    /\ \A reply : APIError(reply) \notin {Running, Nil}
<1>1. Running.says = "running" /\ Nil.says = "nil"
  BY DEF Running, Nil
<1>2. \A e \in Errors : e.says \notin {"running", "nil"}
  BY DEF Errors
<1>3. Wrapped.says = "nothing" /\ Unwrapped.says = "nothing" /\ Plain.says = "nothing"
  BY DEF Wrapped, Unwrapped, Plain
<1>4. \A reason : SMTPError(reason).says \notin {"running", "nil"}
  BY DEF SMTPError
<1>5. \A reply : APIError(reply).says \notin {"running", "nil"}
  BY DEF APIError
<1> QED
  BY <1>1, <1>2, <1>3, <1>4, <1>5

-----------------------------------------------------------------------------
(* The steps.                                                              *)

\* A new Send, the first one or one of a later attempt.
LEMMA StartIsOK ==
    ASSUME sender' \in Senders, Start(ScriptOf(sender'))
    PROVE  DialogueOK'
<1>1. /\ todo' = ScriptOf(sender')
      /\ took' = FALSE /\ answered' = FALSE /\ result' = Running
  BY DEF Start
<1>2. CASE sender' = Telegram
  <2>1. todo' = TelegramScript
    BY <1>1, <1>2 DEF ScriptOf
  <2> QED
    BY <1>1, <1>2, <2>1, TelegramScriptIsTodo, ErrorsAreErrors DEF DialogueOK
<1>3. CASE sender' # Telegram
  <2>1. sender' \in SmtpConfigs /\ todo' = SmtpScript(sender')
    BY <1>1, <1>3, SendersAssumption DEF ScriptOf
  <2>2. SmtpTodo(todo') /\ Len(todo') # 1
    <3>1. SmtpTodo(SmtpScript(sender'))
      BY <2>1, SmtpScriptIsTodo
    <3>2. Head(SmtpScript(sender')) = "validate"
      BY DEF SmtpScript, If
    <3> QED
      BY <2>1, <3>1, <3>2, SmtpProceeds
  <2> QED
    BY <1>1, <1>3, <2>2, ErrorsAreErrors DEF DialogueOK
<1> QED
  BY <1>2, <1>3

LEMMA InitIInv == Init => IInv
<1> SUFFICES ASSUME Init PROVE IInv
  OBVIOUS
<1>1. CASE sender = Telegram
  <2>1. todo = TelegramScript
    BY <1>1 DEF Init, ScriptOf
  <2> QED
    BY <1>1, <2>1, TelegramScriptIsTodo, ErrorsAreErrors DEF Init, IInv, DialogueOK
<1>2. CASE sender # Telegram
  <2>1. sender \in SmtpConfigs /\ todo = SmtpScript(sender)
    BY <1>2, SendersAssumption DEF Init, ScriptOf
  <2>2. SmtpTodo(todo) /\ Len(todo) # 1
    <3>1. Head(SmtpScript(sender)) = "validate"
      BY DEF SmtpScript, If
    <3> QED
      BY <2>1, <3>1, SmtpScriptIsTodo, SmtpProceeds
  <2> QED
    BY <1>2, <2>2, ErrorsAreErrors DEF Init, IInv, DialogueOK
<1> QED
  BY <1>1, <1>2

\* A command of Telegram's dialogue: only the decoded answer ends it well.
LEMMA TelegramKeeps ==
    ASSUME IInv, sender = Telegram, TelegramNext(attempt = 1), UNCHANGED deliveryVars
    PROVE  IInv'
<1> USE ErrorsAreErrors DEF IInv, DialogueOK
<1>0. UNCHANGED sender /\ result = Running
  BY DEF deliveryVars, TelegramNext, Format, Do, Read, Decode, InProgress
<1>1. /\ Command = "decode" <=> Len(todo) = 1
      /\ Len(todo) # 1 => TelegramTodo(Tail(todo))
  BY <1>0, TelegramProceeds DEF Command
<1>2. CASE Format(attempt = 1)
  BY <1>0, <1>1, <1>2 DEF Format, InProgress, Proceed, ReturnError
<1>3. CASE Do
  BY <1>0, <1>1, <1>3 DEF Do, InProgress, Proceed, ReturnError
<1>4. CASE Read
  BY <1>0, <1>1, <1>4 DEF Read, InProgress, Proceed, ReturnError
<1>5. CASE Decode
  <2>1. Len(todo) = 1 /\ UNCHANGED took
    BY <1>1, <1>5 DEF Decode, InProgress
  <2>2. PICK reply \in Replies :
          /\ Possible(reply)
          /\ \/ ~reply.json /\ UNCHANGED answered
                /\ ReturnError(Unwrapped, IF IsTransient(reply) THEN "later" ELSE "unusable")
             \/ reply.json /\ Success(reply) /\ answered' = TRUE
                /\ Proceed /\ UNCHANGED cause
             \/ reply.json /\ ~Success(reply) /\ UNCHANGED answered
                /\ ReturnError(APIError(reply),
                               IF IsTransient(reply) THEN "later" ELSE "refused")
    BY <1>5 DEF Decode
  <2>3. CASE reply.json /\ Success(reply)
    BY <1>0, <2>1, <2>2, <2>3 DEF Possible, Proceed
  <2>4. CASE ~(reply.json /\ Success(reply))
    BY <1>0, <2>1, <2>2, <2>4 DEF ReturnError
  <2> QED
    BY <2>3, <2>4
<1> QED
  BY <1>2, <1>3, <1>4, <1>5 DEF TelegramNext

\* A command of the SMTP dialogue: the end of DATA decides.
LEMMA SmtpKeeps ==
    ASSUME IInv, sender # Telegram, SmtpNext(attempt = 1), UNCHANGED deliveryVars
    PROVE  IInv'
<1> USE ErrorsAreErrors DEF IInv, DialogueOK
<1>0. UNCHANGED sender /\ result = Running
  BY DEF deliveryVars, SmtpNext, ValidateMail, Extension, Finish, Quit, Exchange, InProgress
<1>1. /\ Command \in Early \union {"end", "quit"}
      /\ Command = "quit" <=> Len(todo) = 1
      /\ Command = "end" <=> Len(todo) = 2
      /\ Len(todo) # 1 => SmtpTodo(Tail(todo)) /\ Len(Tail(todo)) = Len(todo) - 1
      /\ Len(todo) \in Nat
  BY <1>0, SmtpProceeds, LenProperties DEF Command, SmtpTodo
<1>2. ASSUME ~(Command \in {"end", "quit"}), UNCHANGED <<took, answered>>,
             Proceed \/ \E e, reason : ReturnError(e, reason) /\ e \notin {Running, Nil}
      PROVE  IInv'
  <2>1. Len(todo) # 1 /\ Len(todo) # 2 /\ Len(Tail(todo)) # 1
    BY <1>1, <1>2
  <2> QED
    BY <1>0, <1>1, <1>2, <2>1 DEF Proceed, ReturnError
<1>3. CASE ValidateMail(attempt = 1)
  BY <1>2, <1>3 DEF ValidateMail, InProgress
<1>4. CASE Extension
  BY <1>2, <1>4 DEF Extension, InProgress
<1>5. ASSUME NEW command \in DOMAIN SmtpFailures, Exchange(command) PROVE IInv'
  <2>1. "quit" \notin DOMAIN SmtpFailures
    BY DEF SmtpFailures
  <2>2. ~(Command \in {"end", "quit"}) /\ UNCHANGED <<took, answered>>
    BY <1>5, <2>1 DEF Exchange, InProgress
  <2>3. \/ Proceed
        \/ \E reason \in SmtpFailures[command] : ReturnError(SMTPError(reason), reason)
        \/ ReturnError(SMTPError("broken"), "unusable")
    BY <1>5 DEF Exchange
  <2> QED
    BY <1>2, <2>2, <2>3
<1>6. CASE Finish
  <2>1. Len(todo) = 2 /\ Len(Tail(todo)) = 1 /\ SmtpTodo(Tail(todo))
    BY <1>1, <1>6 DEF Finish, InProgress
  <2>2. CASE took' = TRUE /\ answered' = TRUE /\ Proceed
    BY <1>0, <2>1, <2>2 DEF Proceed
  <2>3. CASE \E reason : ReturnError(SMTPError(reason), reason) /\ UNCHANGED answered
    BY <1>0, <2>1, <2>3 DEF ReturnError
  <2> QED
    BY <1>6, <2>2, <2>3 DEF Finish
<1>7. CASE Quit
  <2>1. Len(todo) = 1 /\ took /\ took' = took
    BY <1>0, <1>1, <1>7 DEF Quit, InProgress
  <2> QED
    BY <1>0, <2>1, <1>7 DEF Quit, Proceed
<1> QED
  BY <1>3, <1>4, <1>5, <1>6, <1>7 DEF SmtpNext

LEMMA IInvInductive == IInv /\ [Next]_vars => IInv'
<1> SUFFICES ASSUME IInv, [Next]_vars PROVE IInv'
  OBVIOUS
<1>1. CASE Send
  <2>1. UNCHANGED deliveryVars
    BY <1>1 DEF Send
  <2> QED
    BY <1>1, <2>1, TelegramKeeps, SmtpKeeps DEF Send
<1>2. CASE UNCHANGED <<sender, sendVars>>
  BY <1>2 DEF IInv, DialogueOK, sendVars
<1>3. CASE TryAgain
  <2>1. sender' \in Senders /\ Start(ScriptOf(sender'))
    BY <1>3 DEF TryAgain, IInv
  <2> QED
    BY <2>1, StartIsOK DEF IInv
<1>4. Send \/ TryAgain \/ UNCHANGED <<sender, sendVars>>
  BY DEF Next, vars, Fail, MarkSent, Interrupt, Recover
<1> QED
  BY <1>1, <1>2, <1>3, <1>4

LEMMA InvariantHolds == Spec => []IInv
<1> QED
  BY InitIInv, IInvInductive, PTL DEF Spec

-----------------------------------------------------------------------------
(* The theorems about Send.                                                *)

\* Send returns nil only of a message that the provider has taken, and an error
\* only when no positive answer was read, whatever the provider says, whenever
\* it breaks off, and whether or not QUIT fails.
THEOREM VerdictMatchesProviderTheorem == Spec => []VerdictMatchesProvider
<1>1. IInv => VerdictMatchesProvider
  BY ErrorsAreErrors DEF IInv, DialogueOK, VerdictMatchesProvider
<1> QED
  BY <1>1, InvariantHolds, PTL

-----------------------------------------------------------------------------
(* The arithmetic of the retry policy.  The rounds of exponentialDelay are *)
(* counted by a recursive function: that it computes the exact exponential *)
(* delay is shown by the least attempt for which it would not.             *)

\* Every nonempty set of numbers has a least element.
LEMMA LeastNumber ==
    ASSUME NEW T, T \subseteq Nat, T # {}
    PROVE  \E x \in T : \A y \in T : x <= y
<1>1. PICK x \in T : \A y \in T : ~(<<y, x>> \in OpToRel(<, Nat))
  BY NatLessThanWellFounded, WFMin
<1>2. \A y \in T : ~(y < x)
  BY <1>1 DEF OpToRel
<1> QED
  BY <1>2

\* A loop that starts with b and takes a step g in every round after the first.
LEMMA LoopExists ==
    ASSUME NEW b \in Int, NEW g \in [Int -> Int], NEW n \in Nat \ {0}
    PROVE  \E f \in [1..n -> Int] :
              f = [k \in 1..n |-> IF k = 1 THEN b ELSE g[f[k - 1]]]
<1> DEFINE Loop(f, m) == /\ f \in [1..m -> Int]
                         /\ \A k \in 1..m : f[k] = IF k = 1 THEN b ELSE g[f[k - 1]]
           T == {m \in Nat \ {0} : ~ \E f : Loop(f, m)}
<1>1. T = {}
  <2> SUFFICES ASSUME T # {} PROVE FALSE
    OBVIOUS
  <2>1. PICK m \in T : \A y \in T : m <= y
    BY LeastNumber
  <2>2. m # 1
    <3> SUFFICES ASSUME m = 1 PROVE FALSE
      OBVIOUS
    <3> DEFINE f == [k \in 1..1 |-> b]
    <3>1. Loop(f, 1)
      OBVIOUS
    <3> QED
      BY <2>1, <3>1
  <2>3. m \in Nat /\ m - 1 \in Nat \ {0} /\ m - 1 \notin T
    <3>1. m \in Nat /\ m - 1 \in Nat \ {0}
      BY <2>1, <2>2
    <3> HIDE DEF T
    <3> QED
      BY <2>1, <3>1
  <2>4. PICK f : Loop(f, m - 1)
    BY <2>3
  <2> DEFINE h == [k \in 1..m |-> IF k = m THEN g[f[m - 1]] ELSE f[k]]
  <2>5. m - 1 \in 1..(m - 1) /\ f[m - 1] \in Int /\ g[f[m - 1]] \in Int
    BY <2>3, <2>4
  <2>6. \A k \in 1..m : k # m => k \in 1..(m - 1) /\ f[k] \in Int
    BY <2>3, <2>4
  <2>7. h \in [1..m -> Int]
    BY <2>5, <2>6
  <2>8. ASSUME NEW k \in 1..m PROVE h[k] = IF k = 1 THEN b ELSE g[h[k - 1]]
    <3>1. k # 1 => k - 1 \in 1..m /\ k - 1 # m /\ h[k - 1] = f[k - 1]
      BY <2>3
    <3>2. CASE k = m
      BY <2>2, <3>1, <3>2
    <3>3. CASE k # m
      BY <2>4, <2>6, <3>1, <3>3
    <3> QED
      BY <3>2, <3>3
  <2> QED
    BY <2>1, <2>7, <2>8
<1>2. PICK f : Loop(f, n)
  BY <1>1
<1> QED
  BY <1>2

\* The two recursive functions exist: the delay, and the exact one.
LEMMA DelayLoop ==
    ASSUME NEW p, p.base \in Int, \A d \in Int : DoubledDelay(p, d) \in Int,
           NEW n \in Nat \ {0}
    PROVE  \E f : /\ exponentialDelay(p, n) = f[n]
                  /\ \A k \in 1..n :
                        f[k] = IF k = 1 THEN p.base ELSE DoubledDelay(p, f[k - 1])
<1> DEFINE Loop(f) ==
              f = [k \in 1..n |-> IF k = 1 THEN p.base ELSE DoubledDelay(p, f[k - 1])]
           f == CHOOSE after : Loop(after)
           g == [d \in Int |-> DoubledDelay(p, d)]
<1>1. exponentialDelay(p, n) = f[n]
  BY DEF exponentialDelay
<1>2. PICK h \in [1..n -> Int] : h = [k \in 1..n |-> IF k = 1 THEN p.base ELSE g[h[k - 1]]]
  <2>1. g \in [Int -> Int]
    OBVIOUS
  <2> HIDE DEF g
  <2> QED
    BY <2>1, LoopExists
<1>3. Loop(h)
  <2>1. \A k \in 1..n : k # 1 => k - 1 \in 1..n
    OBVIOUS
  <2>2. \A k \in 1..n : k # 1 => g[h[k - 1]] = DoubledDelay(p, h[k - 1])
    BY <2>1
  <2> HIDE DEF g
  <2> QED
    BY <1>2, <2>2
<1>4. Loop(f)
  BY <1>3
<1> HIDE DEF f
<1> QED
  BY <1>1, <1>4

LEMMA ExactLoop ==
    ASSUME NEW p, p.base \in Int, NEW n \in Nat \ {0}
    PROVE  \E f : /\ Reference(p, n) = IF f[n] > p.max THEN p.max ELSE f[n]
                  /\ \A k \in 1..n : f[k] = IF k = 1 THEN p.base ELSE 2 * f[k - 1]
<1> DEFINE Loop(f) == f = [k \in 1..n |-> IF k = 1 THEN p.base ELSE 2 * f[k - 1]]
           f == CHOOSE exact : Loop(exact)
           g == [d \in Int |-> 2 * d]
<1>1. Reference(p, n) = IF f[n] > p.max THEN p.max ELSE f[n]
  BY DEF Reference
<1>2. PICK h \in [1..n -> Int] : h = [k \in 1..n |-> IF k = 1 THEN p.base ELSE g[h[k - 1]]]
  <2>1. g \in [Int -> Int]
    OBVIOUS
  <2> HIDE DEF g
  <2> QED
    BY <2>1, LoopExists
<1>3. Loop(h)
  <2>1. \A k \in 1..n : k # 1 => k - 1 \in 1..n
    OBVIOUS
  <2>2. \A k \in 1..n : k # 1 => g[h[k - 1]] = 2 * h[k - 1]
    BY <2>1
  <2> HIDE DEF g
  <2> QED
    BY <1>2, <2>2
<1>4. Loop(f)
  BY <1>3
<1> HIDE DEF f
<1> QED
  BY <1>1, <1>4

\* What NewPolicy accepts, in numbers.
LEMMA PolicyNumbers ==
    ASSUME NEW p \in Policies
    PROVE  /\ p.maxAttempts \in Nat \ {0} /\ p.base \in Nat \ {0} /\ p.max \in Nat \ {0}
           /\ p.base <= p.max /\ p.max < HalfRange
           /\ p.jitter \in Nat /\ p.jitter <= Scale
BY PoliciesAssumption, HalfRangeAssumption, ScaleAssumption DEF ValidPolicy, Durations

\* A round doubles up to the maximum: the doubled number is a duration.
LEMMA RoundIsExact ==
    ASSUME NEW p \in Policies, NEW x \in Nat \ {0}, NEW d,
           d = IF x > p.max THEN p.max ELSE x
    PROVE  DoubledDelay(p, d) = IF 2 * x > p.max THEN p.max ELSE 2 * x
<1>0. p.max \in Nat \ {0} /\ p.max < HalfRange /\ HalfRange \in Nat \ {0}
  BY PolicyNumbers, HalfRangeAssumption
<1>1. CASE x >= p.max
  BY <1>0, <1>1 DEF DoubledDelay
<1>2. CASE x < p.max /\ x > p.max \div 2
  BY <1>0, <1>2 DEF DoubledDelay
<1>3. CASE x < p.max /\ ~(x > p.max \div 2)
  <2>1. d = x /\ 2 * x <= p.max
    BY <1>0, <1>3
  <2>2. (2 * x + HalfRange) % (2 * HalfRange) = 2 * x + HalfRange
    BY <1>0, <2>1
  <2>3. Wrap(2 * x) = 2 * x
    BY <1>0, <2>2 DEF Wrap
  <2> QED
    BY <1>0, <1>3, <2>1, <2>3 DEF DoubledDelay
<1> QED
  BY <1>0, <1>1, <1>2, <1>3

\* A round of any number is a number, whatever it wraps around to.
LEMMA RoundsAreNumbers ==
    ASSUME NEW p \in Policies, NEW d \in Int
    PROVE  DoubledDelay(p, d) \in Int
<1>0. p.max \in Nat \ {0} /\ HalfRange \in Nat \ {0}
  BY PolicyNumbers, HalfRangeAssumption
<1>1. Wrap(2 * d) \in Int
  BY <1>0 DEF Wrap
<1> QED
  BY <1>0, <1>1 DEF DoubledDelay

\* exponentialDelay is the exact exponential delay, cut off at the maximum, for
\* every policy and every attempt: the doubling never overflows.
THEOREM ExponentialIsExact ==
    ASSUME NEW p \in Policies, NEW n \in Nat \ {0}
    PROVE  /\ exponentialDelay(p, n) = Reference(p, n)
           /\ Reference(p, n) \in Nat
           /\ p.base <= Reference(p, n) /\ Reference(p, n) <= p.max
<1>0. p.base \in Nat \ {0} /\ p.max \in Nat \ {0} /\ p.base <= p.max
  BY PolicyNumbers
<1>1. PICK f : /\ exponentialDelay(p, n) = f[n]
               /\ \A k \in 1..n :
                     f[k] = IF k = 1 THEN p.base ELSE DoubledDelay(p, f[k - 1])
  BY <1>0, RoundsAreNumbers, DelayLoop
<1>2. PICK e : /\ Reference(p, n) = IF e[n] > p.max THEN p.max ELSE e[n]
               /\ \A k \in 1..n : e[k] = IF k = 1 THEN p.base ELSE 2 * e[k - 1]
  BY <1>0, ExactLoop
<1> DEFINE Exact(k) == /\ e[k] \in Nat /\ p.base <= e[k]
                       /\ f[k] = IF e[k] > p.max THEN p.max ELSE e[k]
           T == {k \in 1..n : ~Exact(k)}
<1>3. T = {}
  <2> SUFFICES ASSUME T # {} PROVE FALSE
    OBVIOUS
  <2>1. PICK k \in T : \A y \in T : k <= y
    <3>1. T \subseteq Nat
      OBVIOUS
    <3> HIDE DEF T
    <3> QED
      BY <3>1, LeastNumber
  <2>2. k \in 1..n /\ ~Exact(k)
    BY <2>1
  <2>3. k # 1
    BY <1>0, <1>1, <1>2, <2>2
  <2>4. k - 1 \in 1..n /\ k - 1 \notin T
    <3>1. k - 1 \in 1..n /\ ~(k <= k - 1)
      BY <2>2, <2>3
    <3> HIDE DEF T
    <3> QED
      BY <2>1, <3>1
  <2>5. Exact(k - 1)
    BY <2>4
  <2>6. f[k] = DoubledDelay(p, f[k - 1]) /\ e[k] = 2 * e[k - 1]
    BY <1>1, <1>2, <2>2, <2>3
  <2>7. DoubledDelay(p, f[k - 1]) = IF 2 * e[k - 1] > p.max THEN p.max ELSE 2 * e[k - 1]
    <3>1. e[k - 1] \in Nat \ {0}
      BY <1>0, <2>5
    <3> QED
      BY <2>5, <3>1, RoundIsExact
  <2>8. e[k] \in Nat /\ p.base <= e[k]
    BY <1>0, <2>5, <2>6
  <2> QED
    BY <2>2, <2>6, <2>7, <2>8
<1>4. Exact(n)
  BY <1>3
<1> QED
  BY <1>0, <1>1, <1>2, <1>4

\* Arithmetic: products, and what is left of a division.
LEMMA TimesMonotone ==
    ASSUME NEW a \in Int, NEW b \in Int, NEW c \in Nat, a <= b
    PROVE  c * a <= c * b
OBVIOUS

LEMMA TimesCancel ==
    ASSUME NEW a \in Int, NEW b \in Int, NEW c \in Nat \ {0}
    PROVE  /\ c * a < c * b => a < b
           /\ c * a <= c * b => a <= b
OBVIOUS

LEMMA Division ==
    ASSUME NEW a \in Nat, NEW b \in Nat \ {0}
    PROVE  /\ a \div b \in Nat
           /\ b * (a \div b) <= a
           /\ a < b * ((a \div b) + 1)
OBVIOUS

\* Out of the scale s, d times a factor between s - j and s + j, cut off.
LEMMA Jittered ==
    ASSUME NEW s \in Nat \ {0}, NEW j \in Nat, j <= s, NEW r \in Nat, r <= s, NEW d \in Nat,
           NEW q, q = (d * (s * (s - j) + 2 * j * r)) \div (s * s)
    PROVE  /\ q \in Nat
           /\ s * (q + 1) > d * (s - j)
           /\ s * q <= d * (s + j)
<1> DEFINE low == s * (s - j)
           high == s * (s + j)
           f == low + 2 * j * r
<1>1. low \in Nat /\ f \in Nat /\ high \in Nat /\ low <= f
  OBVIOUS
<1>2. f <= high
  <2>1. j * r <= j * s
    BY TimesMonotone
  <2>2. high = low + 2 * (j * s) /\ f = low + 2 * (j * r)
    OBVIOUS
  <2>3. j * r \in Nat /\ j * s \in Nat
    OBVIOUS
  <2> HIDE DEF low, high, f
  <2> QED
    BY <1>1, <2>1, <2>2, <2>3
<1>3. d * low = s * (d * (s - j)) /\ d * high = s * (d * (s + j))
  OBVIOUS
<1>4. s * s \in Nat \ {0}
  OBVIOUS
<1>5. q = (d * f) \div (s * s)
  OBVIOUS
<1> HIDE DEF low, high, f
<1>6. d * low <= d * f /\ d * f <= d * high /\ d * f \in Nat
  BY <1>1, <1>2, TimesMonotone
<1>7. q \in Nat /\ (s * s) * q <= d * f /\ d * f < (s * s) * (q + 1)
  BY <1>4, <1>5, <1>6, Division
<1>8. (s * s) * q = s * (s * q) /\ (s * s) * (q + 1) = s * (s * (q + 1))
  BY <1>7
<1>9. /\ s * q \in Nat /\ s * (q + 1) \in Nat
      /\ d * (s - j) \in Int /\ d * (s + j) \in Int
  BY <1>7
<1>10. s * (s * q) <= s * (d * (s + j)) /\ s * (d * (s - j)) < s * (s * (q + 1))
  <2>1. /\ d * low \in Nat /\ d * high \in Nat
        /\ (s * s) * q \in Nat /\ (s * s) * (q + 1) \in Nat
    BY <1>1, <1>7
  <2> QED
    BY <1>3, <1>6, <1>7, <1>8, <2>1
<1> QED
  BY <1>7, <1>9, <1>10, TimesCancel

\* The delay with its jitter.
LEMMA JitterInBand ==
    ASSUME NEW p \in Policies, NEW d \in Nat, p.base <= d, d <= p.max, NEW random \in Int,
           NEW q, q = withJitter(p, d, random)
    PROVE  /\ q \in Nat /\ q <= p.max
           /\ Scale * (q + 1) > d * (Scale - p.jitter)
           /\ Scale * q <= d * (Scale + p.jitter)
<1> DEFINE r == Clamp(random)
           jittered == (d * (Scale * (Scale - p.jitter) + 2 * p.jitter * r))
                          \div (Scale * Scale)
<1>1. /\ Scale \in Nat \ {0} /\ p.max \in Nat
      /\ p.jitter \in Nat /\ p.jitter <= Scale
  BY PolicyNumbers, ScaleAssumption
<1>2. r \in Nat /\ r <= Scale
  BY <1>1 DEF Clamp
<1>3. q = IF p.jitter = 0 THEN d ELSE IF jittered >= p.max THEN p.max ELSE jittered
  BY DEF withJitter
<1> HIDE DEF r
<1>4. /\ jittered \in Nat
      /\ Scale * (jittered + 1) > d * (Scale - p.jitter)
      /\ Scale * jittered <= d * (Scale + p.jitter)
  BY <1>1, <1>2, Jittered
<1> HIDE DEF jittered
<1>5. CASE p.jitter = 0
  <2>1. q = d /\ Scale * (q + 1) = Scale * d + Scale /\ Scale * q = Scale * d
        /\ d * (Scale - p.jitter) = Scale * d /\ d * (Scale + p.jitter) = Scale * d
        /\ Scale * d \in Nat
    BY <1>1, <1>3, <1>5
  <2> QED
    BY <1>1, <2>1
<1>6. CASE p.jitter # 0 /\ jittered >= p.max
  <2>1. q = p.max
    BY <1>3, <1>6
  <2>2. Scale * q <= Scale * jittered
    BY <1>1, <1>4, <1>6, <2>1, TimesMonotone
  <2>3. d * (Scale - p.jitter) <= d * Scale /\ d * Scale <= Scale * q
    BY <1>1, <2>1, TimesMonotone
  <2>4. Scale * (q + 1) = Scale * q + Scale
    BY <1>1, <2>1
  <2>5. /\ Scale * q \in Nat /\ Scale * jittered \in Nat /\ d * Scale \in Nat
        /\ d * (Scale - p.jitter) \in Int /\ d * (Scale + p.jitter) \in Int
    BY <1>1, <1>4, <2>1
  <2> QED
    BY <1>1, <1>4, <2>1, <2>2, <2>3, <2>4, <2>5
<1>7. CASE p.jitter # 0 /\ jittered < p.max
  BY <1>1, <1>3, <1>4, <1>7
<1> QED
  BY <1>1, <1>4, <1>5, <1>6, <1>7

\* A policy whose shortest delay is not zero: the default one, of a second and
\* 20 percent, is one in nanoseconds.
NeverZero(p) == p.base * (Scale - p.jitter) >= Scale

\* NextDelay, of the n-th attempt.
LEMMA NextDelayInBand ==
    ASSUME NEW p \in Policies, NEW n \in Nat \ {0}, NEW e, e.suggested \in Suggestions,
           NEW random \in Randoms,
           NEW w, w = NextDelay(p, n, e, random)
    PROVE  LET exact == Reference(p, n)
               asked == SuggestedDelay(e)
           IN /\ w \in Durations /\ w >= 0
              /\ Scale * (w + 1) > exact * (Scale - p.jitter)
              /\ w = asked \/ (asked <= w /\ w <= p.max
                                 /\ Scale * w <= exact * (Scale + p.jitter))
              /\ NeverZero(p) => w > 0
<1> DEFINE exact == Reference(p, n)
           asked == SuggestedDelay(e)
           q == withJitter(p, exact, random)
<1>1. /\ p.base \in Nat \ {0} /\ p.max \in Nat \ {0} /\ p.max < HalfRange
      /\ HalfRange \in Nat \ {0}
      /\ Scale \in Nat \ {0} /\ p.jitter \in Nat /\ p.jitter <= Scale
  BY PolicyNumbers, ScaleAssumption, HalfRangeAssumption
<1>2. exact \in Nat /\ p.base <= exact /\ exact <= p.max
  BY ExponentialIsExact
<1>3. w = IF asked > q THEN asked ELSE q
  BY ExponentialIsExact DEF NextDelay
<1>4. asked \in Nat /\ asked < HalfRange
  <2>1. e.suggested \in Durations
    BY SuggestionsAssumption
  <2>2. e.suggested \in Int /\ e.suggested < HalfRange
    BY <1>1, <2>1 DEF Durations
  <2> QED
    BY <1>1, <2>2 DEF SuggestedDelay
<1>5. random \in Int
  BY RandomsAssumption
<1> HIDE DEF exact, asked
<1>6. /\ q \in Nat /\ q <= p.max
      /\ Scale * (q + 1) > exact * (Scale - p.jitter)
      /\ Scale * q <= exact * (Scale + p.jitter)
  BY <1>2, <1>5, JitterInBand
<1> HIDE DEF q
<1>7. w \in Nat /\ q <= w
  BY <1>3, <1>4, <1>6
<1>8. Scale * (w + 1) > exact * (Scale - p.jitter)
  <2>1. Scale * (q + 1) <= Scale * (w + 1)
    BY <1>1, <1>6, <1>7, TimesMonotone
  <2>2. /\ Scale * (q + 1) \in Nat /\ Scale * (w + 1) \in Nat
        /\ exact * (Scale - p.jitter) \in Int
    BY <1>1, <1>2, <1>6, <1>7
  <2> QED
    BY <1>6, <2>1, <2>2
<1>9. w \in Durations
  BY <1>1, <1>3, <1>4, <1>6 DEF Durations
<1>10. ASSUME NeverZero(p) PROVE w > 0
  <2>1. (Scale - p.jitter) * p.base <= (Scale - p.jitter) * exact
    BY <1>1, <1>2, TimesMonotone
  <2>2. (Scale - p.jitter) * p.base >= Scale
    BY <1>1, <1>10 DEF NeverZero
  <2>3. (Scale - p.jitter) * exact = exact * (Scale - p.jitter)
    BY <1>1, <1>2
  <2>4. /\ (Scale - p.jitter) * p.base \in Int /\ exact * (Scale - p.jitter) \in Int
        /\ Scale * (w + 1) \in Int
    BY <1>1, <1>2, <1>7
  <2>5. Scale * 1 < Scale * (w + 1)
    BY <1>1, <1>8, <2>1, <2>2, <2>3, <2>4
  <2>6. 1 < w + 1
    BY <1>1, <1>7, <2>5, TimesCancel
  <2> QED
    BY <1>7, <2>6
<1>11. w = asked \/ (asked <= w /\ w <= p.max /\ Scale * w <= exact * (Scale + p.jitter))
  BY <1>3, <1>4, <1>6
<1> QED
  BY <1>7, <1>8, <1>9, <1>10, <1>11 DEF exact, asked

\* NextDelay never returns zero together with "try again", which MarkFailed would
\* take for a final failure, as long as the shortest delay is not below one.
THEOREM DelayIsPositive ==
    ASSUME NEW p \in Policies, NeverZero(p), NEW n \in Nat \ {0},
           NEW e \in Errors, NEW random \in Randoms
    PROVE  NextDelay(p, n, e, random) > 0
<1>1. e.suggested \in Suggestions
  BY DEF Errors
<1> QED
  BY <1>1, NextDelayInBand

-----------------------------------------------------------------------------
(* The errors and the policy's verdict on them.                            *)

\* An error and what it stands for: the policy sees a failure that may pass as
\* one, unless the error hides it, and no other but those taken for one.
Explained(e, reason) ==
    /\ e \in Errors /\ reason \in Causes
    /\ IsRetryable(e) => reason \in Transient \/ TakenForBroken(reason)
    /\ reason \in Transient => IsRetryable(e) \/ Hides(e, reason)

Classified == result \in Errors => Explained(result, cause)

\* What the store was told follows from the policy's verdict.
Noted ==
    /\ state \in {"pending", "retry_wait"} => attempt < policy.maxAttempts
    /\ state = "retry_wait" =>
          /\ result \in Errors /\ IsRetryable(result)
          /\ \E random \in Randoms : delay = NextDelay(policy, attempt, result, random)
    /\ state = "failed" =>
          \/ attempt = policy.maxAttempts
          \/ result \in Errors /\ ~IsRetryable(result)
          \/ ZeroDelay

AttemptInv == TypeOK /\ Classified /\ Noted

\* A step of a dialogue goes on or returns an error that can be explained.
Answers ==
    /\ \/ Proceed /\ UNCHANGED cause
       \/ \E e, reason : ReturnError(e, reason) /\ Explained(e, reason)
    /\ took' \in BOOLEAN /\ answered' \in BOOLEAN

\* What the policy makes of the errors of the mail sender.
LEMMA SmtpErrors ==
    /\ Plain \in Errors /\ ~IsRetryable(Plain)
    /\ \A reason : /\ SMTPError(reason) \in Errors
                   /\ IsRetryable(SMTPError(reason)) <=> reason \in Transient
<1>1. 0 \in Suggestions
  BY SuggestionsAssumption
<1>2. Plain \in Errors /\ ~IsRetryable(Plain)
  BY <1>1 DEF Plain, Errors, IsRetryable
<1>3. ASSUME NEW reason
      PROVE  /\ SMTPError(reason) \in Errors
             /\ IsRetryable(SMTPError(reason)) <=> reason \in Transient
  <2>1. reason = "broken" => reason \in {"later", "broken"}
    OBVIOUS
  <2>2. SMTPError(reason) \in Errors
    BY <1>1 DEF SMTPError, Errors
  <2>3. SMTPError(reason).says =
           IF reason \in {"later", "broken"} THEN "retryable" ELSE "permanent"
    BY DEF SMTPError
  <2> QED
    BY <2>2, <2>3 DEF IsRetryable, Transient
<1> QED
  BY <1>2, <1>3

\* What the policy makes of the errors of the Telegram sender.
LEMMA TelegramErrors ==
    /\ Wrapped \in Errors /\ IsRetryable(Wrapped)
    /\ Unwrapped \in Errors /\ ~IsRetryable(Unwrapped)
    /\ \A reply \in Replies :
          /\ APIError(reply) \in Errors
          /\ reply.json => (IsRetryable(APIError(reply)) <=> IsTransient(reply))
<1>1. 0 \in Suggestions /\ RetryAfters \subseteq Suggestions
  BY SuggestionsAssumption, RetryAftersAssumption
<1>2. /\ Wrapped \in Errors /\ IsRetryable(Wrapped)
      /\ Unwrapped \in Errors /\ ~IsRetryable(Unwrapped)
  BY <1>1 DEF Wrapped, Unwrapped, Errors, IsRetryable
<1>3. ASSUME NEW reply \in Replies
      PROVE  /\ APIError(reply) \in Errors
             /\ reply.json => (IsRetryable(APIError(reply)) <=> IsTransient(reply))
  <2>1. /\ reply.after \in RetryAfters /\ reply.json \in BOOLEAN
        /\ reply.status \in Int /\ reply.code \in Int
    BY DEF Replies, OtherCodes
  <2>2. APIError(reply) \in Errors
    BY <1>1, <2>1 DEF APIError, Errors
  <2> DEFINE later(n) == n = 429 \/ n >= 500
  <2>3. APIError(reply).says = IF later(reply.status) \/ later(Code(reply))
                                 THEN "retryable" ELSE "permanent"
    BY DEF APIError
  <2>4. IsRetryable(APIError(reply)) <=> later(reply.status) \/ later(Code(reply))
    BY <2>3 DEF IsRetryable
  <2>5. reply.json => (IsTransient(reply) <=> later(reply.status) \/ later(Code(reply)))
    BY <2>1 DEF IsTransient, Code
  <2> QED
    BY <2>2, <2>4, <2>5
<1> QED
  BY <1>2, <1>3

\* Every command of either dialogue answers: by the next one or by an error
\* that tells the policy what it stands for.
LEMMA TelegramAnswers ==
    ASSUME IInv, TypeOK, sender = Telegram, TelegramNext(attempt = 1)
    PROVE  Answers
<1>0. took \in BOOLEAN /\ answered \in BOOLEAN
  BY DEF TypeOK
<1>1. todo # <<>>
  <2>1. result = Running
    BY DEF TelegramNext, Format, Do, Read, Decode, InProgress
  <2>2. Len(todo) >= 1
    BY <2>1 DEF IInv, DialogueOK, TelegramTodo
  <2> QED
    BY <2>2
<1>2. CASE Format(attempt = 1)
  BY <1>0, <1>2, TelegramErrors DEF Format, Answers, Explained, Causes, Transient
<1>3. CASE Do
  <2>1. Command = "request"
    BY <1>3 DEF Do, InProgress
  <2>2. ASSUME NEW reason \in {"broken", "reset", "unusable"} PROVE Explained(Wrapped, reason)
    BY <1>1, <2>1, <2>2, TelegramErrors DEF Explained, Causes, Transient, TakenForBroken
  <2> QED
    BY <1>0, <1>3, <2>2 DEF Do, Answers
<1>4. CASE Read
  <2>1. Hides(Unwrapped, "later")
    BY <1>1, <1>4 DEF Hides, Read, InProgress
  <2>2. Explained(Wrapped, "broken")
    BY TelegramErrors DEF Explained, Causes, Transient
  <2>3. ASSUME NEW reason \in {"reset", "later", "unusable"} PROVE Explained(Unwrapped, reason)
    BY <2>1, <2>3, TelegramErrors DEF Explained, Causes, Transient
  <2> QED
    BY <1>0, <1>4, <2>2, <2>3 DEF Read, Answers
<1>5. CASE Decode
  <2>1. Hides(Unwrapped, "later")
    BY <1>1, <1>5 DEF Hides, Decode, InProgress
  <2>2. UNCHANGED took
    BY <1>5 DEF Decode
  <2>3. PICK reply \in Replies :
          \/ ~reply.json /\ UNCHANGED answered
                /\ ReturnError(Unwrapped, IF IsTransient(reply) THEN "later" ELSE "unusable")
          \/ reply.json /\ Success(reply) /\ answered' = TRUE
                /\ Proceed /\ UNCHANGED cause
          \/ reply.json /\ ~Success(reply) /\ UNCHANGED answered
                /\ ReturnError(APIError(reply),
                               IF IsTransient(reply) THEN "later" ELSE "refused")
    BY <1>5 DEF Decode
  <2>4. Explained(Unwrapped, IF IsTransient(reply) THEN "later" ELSE "unusable")
    BY <2>1, TelegramErrors DEF Explained, Causes, Transient
  <2>5. reply.json => Explained(APIError(reply),
                                IF IsTransient(reply) THEN "later" ELSE "refused")
    BY TelegramErrors DEF Explained, Causes, Transient
  <2> QED
    BY <1>0, <2>2, <2>3, <2>4, <2>5 DEF Answers
<1> QED
  BY <1>2, <1>3, <1>4, <1>5 DEF TelegramNext

LEMMA SmtpAnswers ==
    ASSUME IInv, TypeOK, sender # Telegram, SmtpNext(attempt = 1)
    PROVE  Answers
<1>0. took \in BOOLEAN /\ answered \in BOOLEAN
  BY DEF TypeOK
<1>1. todo # <<>>
  <2>1. result = Running
    BY DEF SmtpNext, ValidateMail, Extension, Finish, Quit, Exchange, InProgress
  <2>2. Len(todo) >= 1
    BY <2>1 DEF IInv, DialogueOK, SmtpTodo
  <2> QED
    BY <2>2
<1>2. ASSUME NEW reason \in Causes PROVE Explained(SMTPError(reason), reason)
  BY <1>2, SmtpErrors DEF Explained
<1>3. CASE ValidateMail(attempt = 1)
  BY <1>0, <1>3, SmtpErrors DEF ValidateMail, Answers, Explained, Causes, Transient
<1>4. CASE Extension
  <2>1. \A e, reason : Hides(e, reason)
    BY <1>1, <1>4 DEF Hides, Extension, InProgress
  <2>2. ASSUME NEW reason \in Causes PROVE Explained(SMTPError("unsupported"), reason)
    <3>1. ~IsRetryable(SMTPError("unsupported")) /\ SMTPError("unsupported") \in Errors
      BY SmtpErrors DEF Transient
    <3> QED
      BY <2>1, <3>1 DEF Explained
  <2> QED
    BY <1>0, <1>4, <2>2 DEF Extension, Answers, Causes
<1>5. ASSUME NEW command \in DOMAIN SmtpFailures, Exchange(command) PROVE Answers
  <2>1. SmtpFailures[command] \subseteq Causes
    BY DEF SmtpFailures, Causes
  <2>2. CASE ReturnError(SMTPError("broken"), "unusable") /\ command \in {"handshake", "starttls"}
    <3>1. TakenForBroken("unusable")
      BY <1>1, <1>5, <2>2 DEF Exchange, InProgress, TakenForBroken
    <3>2. Explained(SMTPError("broken"), "unusable")
      BY <3>1, SmtpErrors DEF Explained, Causes, Transient
    <3> QED
      BY <1>0, <1>5, <2>2, <3>2 DEF Exchange, Answers
  <2>3. CASE \E reason \in SmtpFailures[command] : ReturnError(SMTPError(reason), reason)
    BY <1>0, <1>2, <1>5, <2>1, <2>3 DEF Exchange, Answers
  <2>4. CASE Proceed /\ UNCHANGED cause
    BY <1>0, <1>5, <2>4 DEF Exchange, Answers
  <2> QED
    BY <1>5, <2>2, <2>3, <2>4 DEF Exchange
<1>6. CASE Finish
  <2>1. SmtpFailures["end"] \subseteq Causes
    BY DEF SmtpFailures, Causes
  <2>2. took' \in BOOLEAN /\ answered' \in BOOLEAN
    BY <1>0, <1>6 DEF Finish
  <2> QED
    BY <1>2, <1>6, <2>1, <2>2 DEF Finish, Answers
<1>7. CASE Quit
  BY <1>0, <1>7 DEF Quit, Answers
<1> QED
  BY <1>3, <1>4, <1>5, <1>6, <1>7 DEF SmtpNext

\* While Send runs, only the dialogue moves.
LEMMA SendKeepsAttempt ==
    ASSUME IInv, AttemptInv, Send
    PROVE  AttemptInv'
<1>0. /\ state = "processing" /\ UNCHANGED deliveryVars
      /\ UNCHANGED <<policy, sender, attempt, state, delay>>
  BY DEF Send, deliveryVars
<1>1. Noted'
  BY <1>0 DEF Noted
<1>2. Answers
  BY TelegramAnswers, SmtpAnswers DEF AttemptInv, Send
<1>3. CASE Proceed /\ UNCHANGED cause
  <2>1. result' \in {Running, Nil}
    BY <1>3 DEF Proceed
  <2> QED
    BY <1>0, <1>1, <1>2, <1>3, <2>1, ErrorsAreErrors
    DEF AttemptInv, TypeOK, Classified, Answers
<1>4. ASSUME NEW e, NEW reason, ReturnError(e, reason), Explained(e, reason)
      PROVE  AttemptInv'
  <2>1. result' = e /\ cause' = reason
    BY <1>4 DEF ReturnError
  <2>2. Explained(result, cause)'
    BY <1>4, <2>1 DEF Explained, ReturnError, Hides, TakenForBroken, Command
  <2> QED
    BY <1>0, <1>1, <1>2, <1>4, <2>1, <2>2
    DEF AttemptInv, TypeOK, Classified, Answers, Explained
<1> QED
  BY <1>2, <1>3, <1>4 DEF Answers

\* The verdict on the error of Send.
LEMMA FailKeepsAttempt ==
    ASSUME AttemptInv, Fail
    PROVE  AttemptInv'
<1>0. /\ state = "processing" /\ result \in Errors
      /\ UNCHANGED <<policy, sender, attempt>> /\ UNCHANGED sendVars
      /\ state' = IF delay' > 0 THEN "retry_wait" ELSE "failed"
  BY DEF Fail
<1>1. /\ UNCHANGED <<todo, took, answered, cause, result>>
  BY <1>0 DEF sendVars
<1>2. policy \in Policies /\ attempt \in Nat \ {0} /\ attempt <= policy.maxAttempts
      /\ policy.maxAttempts \in Nat
  BY PolicyNumbers DEF AttemptInv, TypeOK
<1>3. Classified'
  BY <1>1 DEF AttemptInv, Classified, Explained, Hides, TakenForBroken, Command
<1>4. result.suggested \in Suggestions
  BY <1>0 DEF Errors
<1>5. CASE ~MayRetry(policy, attempt, result) /\ delay' = 0
  <2>1. 0 \in Durations
    BY HalfRangeAssumption DEF Durations
  <2>2. state' = "failed"
    BY <1>0, <1>5
  <2>3. attempt = policy.maxAttempts \/ ~IsRetryable(result)
    BY <1>2, <1>5 DEF MayRetry
  <2>4. Noted'
    BY <1>0, <1>1, <2>2, <2>3 DEF Noted
  <2> QED
    BY <1>0, <1>1, <1>3, <1>5, <2>1, <2>2, <2>4 DEF AttemptInv, TypeOK
<1>6. ASSUME NEW random \in Randoms, MayRetry(policy, attempt, result),
             delay' = NextDelay(policy, attempt, result, random)
      PROVE  AttemptInv'
  <2>1. delay' \in Durations /\ delay' >= 0
    BY <1>2, <1>4, <1>6, NextDelayInBand
  <2>2. attempt < policy.maxAttempts /\ IsRetryable(result)
    BY <1>6 DEF MayRetry
  <2>3. delay' = NextDelay(policy, attempt, result, random)'
    BY <1>0, <1>1, <1>6
  <2>4. Noted'
    <3>1. state' = "failed" => ZeroDelay'
      <4>1. state' = "failed" => delay' = 0
        BY <1>0, <2>1 DEF Durations
      <4> QED
        BY <2>3, <4>1 DEF ZeroDelay
    <3>2. state' = "retry_wait" => \E r \in Randoms : delay' = NextDelay(policy, attempt, result, r)'
      BY <2>3
    <3> QED
      BY <1>0, <1>1, <2>2, <3>1, <3>2 DEF Noted
  <2>5. state' \in {"retry_wait", "failed"}
    BY <1>0
  <2> QED
    BY <1>0, <1>1, <1>3, <2>1, <2>4, <2>5 DEF AttemptInv, TypeOK
<1> QED
  BY <1>5, <1>6 DEF Fail

LEMMA InitAttempt == Init => AttemptInv
<1> SUFFICES ASSUME Init PROVE AttemptInv
  OBVIOUS
<1>1. policy \in Policies /\ policy.maxAttempts \in Nat \ {0} /\ 0 \in Durations
  BY PolicyNumbers, HalfRangeAssumption DEF Init, Durations
<1>2. Classified /\ Noted
  BY ErrorsAreErrors DEF Init, Classified, Noted
<1>3. /\ attempt \in 1..policy.maxAttempts
      /\ delay \in Durations /\ delay >= 0
  BY <1>1 DEF Init
<1>4. TypeOK
  BY <1>3 DEF Init, TypeOK
<1> QED
  BY <1>2, <1>4 DEF AttemptInv

\* Every step keeps the invariant of the attempts.
LEMMA AttemptInductive == IInv /\ AttemptInv /\ [Next]_vars => AttemptInv'
<1> SUFFICES ASSUME IInv, AttemptInv, [Next]_vars PROVE AttemptInv'
  OBVIOUS
<1>0. /\ policy \in Policies /\ policy.maxAttempts \in Nat \ {0}
      /\ attempt \in 1..policy.maxAttempts
  BY PolicyNumbers DEF AttemptInv, TypeOK
<1>1. CASE Send
  BY <1>1, SendKeepsAttempt DEF IInv
<1>2. CASE Fail
  BY <1>2, FailKeepsAttempt
<1>3. CASE MarkSent \/ Interrupt
  <2>1. /\ UNCHANGED <<policy, sender, attempt, delay>> /\ UNCHANGED sendVars
        /\ state' \in {"sent", "abandoned"}
    BY <1>3 DEF MarkSent, Interrupt
  <2> QED
    BY <2>1
    DEF AttemptInv, TypeOK, Classified, Explained, Hides, TakenForBroken, Command, Noted, ZeroDelay, sendVars
<1>4. CASE Recover
  <2>1. /\ UNCHANGED <<policy, sender, attempt, delay>> /\ UNCHANGED sendVars
        /\ \/ state' = "failed" /\ attempt = policy.maxAttempts
           \/ state' = "pending" /\ attempt < policy.maxAttempts
    BY <1>0, <1>4 DEF Recover
  <2> QED
    BY <2>1
    DEF AttemptInv, TypeOK, Classified, Explained, Hides, TakenForBroken, Command, Noted, ZeroDelay, sendVars
<1>5. CASE TryAgain
  <2>1. attempt < policy.maxAttempts /\ attempt' = attempt + 1
    BY <1>5 DEF TryAgain, AttemptInv, Noted
  <2>2. attempt' \in 1..policy'.maxAttempts
    BY <1>0, <1>5, <2>1 DEF TryAgain
  <2>3. 0 \in Durations
    BY HalfRangeAssumption DEF Durations
  <2>4. /\ state' = "processing" /\ delay' = 0 /\ UNCHANGED <<policy, sender>>
        /\ took' = FALSE /\ answered' = FALSE /\ cause' = "none" /\ result' = Running
    BY <1>5 DEF TryAgain, Start
  <2>5. Classified' /\ Noted'
    BY <2>4, ErrorsAreErrors DEF Classified, Noted
  <2>6. policy' \in Policies /\ sender' \in Senders
    BY <2>4 DEF AttemptInv, TypeOK
  <2>7. delay' \in Durations /\ delay' >= 0
    BY <2>3, <2>4
  <2>8. TypeOK'
    BY <2>2, <2>4, <2>6, <2>7 DEF TypeOK
  <2> QED
    BY <2>5, <2>8 DEF AttemptInv
<1>6. CASE UNCHANGED vars
  BY <1>6
  DEF vars, AttemptInv, TypeOK, Classified, Explained, Hides, TakenForBroken, Command, Noted, ZeroDelay, sendVars
<1> QED
  BY <1>1, <1>2, <1>3, <1>4, <1>5, <1>6 DEF Next

LEMMA AttemptHolds == Spec => [](IInv /\ AttemptInv)
<1>1. IInv /\ AttemptInv /\ [Next]_vars => (IInv /\ AttemptInv)'
  BY IInvInductive, AttemptInductive
<1> QED
  BY <1>1, InitIInv, InitAttempt, PTL DEF Spec

-----------------------------------------------------------------------------
(* The theorems about the attempts.                                        *)

\* Delays are durations, never negative, and the attempts of a delivery stay
\* within the policy's, however claims are interrupted and recovered.
THEOREM TypeCorrect == Spec => []TypeOK
<1> QED
  BY AttemptHolds, PTL DEF AttemptInv

\* Every delay MarkFailed is given lies in the band of the jitter around the
\* exact exponential delay, or is the longer one the provider asked for.
THEOREM DelayInBandTheorem == Spec => []DelayInBand
<1>1. AttemptInv => DelayInBand
  <2> SUFFICES ASSUME AttemptInv, state = "retry_wait" PROVE DelayInBand
    BY DEF DelayInBand
  <2>1. PICK random \in Randoms : delay = NextDelay(policy, attempt, result, random)
    BY DEF AttemptInv, Noted
  <2>2. result.suggested \in Suggestions
    BY DEF AttemptInv, Noted, Errors
  <2>3. policy \in Policies /\ attempt \in Nat \ {0}
    BY PolicyNumbers DEF AttemptInv, TypeOK
  <2> DEFINE exact == Reference(policy, attempt)
             asked == SuggestedDelay(result)
  <2>4. /\ Scale * (delay + 1) > exact * (Scale - policy.jitter)
        /\ delay = asked \/ (asked <= delay /\ delay <= policy.max
                               /\ Scale * delay <= exact * (Scale + policy.jitter))
    BY <2>1, <2>2, <2>3, NextDelayInBand
  <2> QED
    BY <2>4, Zenon DEF DelayInBand
<1> QED
  BY <1>1, AttemptHolds, PTL

\* A failure that may pass is final before the last attempt only if its error
\* hides it (EHLO before STARTTLS, an answer of Telegram too long or not JSON) or the
\* policy allows a delay of zero; no other failure is tried again but those of
\* client.Do and a TLS handshake that are taken for a broken connection.
THEOREM TransientIsRetriedTheorem == Spec => []TransientIsRetried
<1>1. AttemptInv => TransientIsRetried
  BY DEF AttemptInv, Noted, Classified, Explained, TransientIsRetried
<1> QED
  BY <1>1, AttemptHolds, PTL

=============================================================================
