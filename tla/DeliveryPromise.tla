--------------------------- MODULE DeliveryPromise ---------------------------
(***************************************************************************)
(* What the notification service promises about one notification to one    *)
(* channel, without claims, leases, outboxes and topics: it is tried a     *)
(* bounded number of times, it ends once, and it ends as "sent" only if    *)
(* the provider took the last try.                                         *)
(***************************************************************************)
EXTENDS Integers

CONSTANTS Items,   \* notifications to channels
          Limit    \* tries an item may have

VARIABLES state,   \* none, open, or how the item ended
          tries,   \* tries begun
          taken    \* <<item, try>> pairs the provider took

vars == <<state, tries, taken>>

Ends == {"sent", "failed", "cancelled"}

Init ==
    /\ state = [i \in Items |-> "none"]
    /\ tries = [i \in Items |-> 0]
    /\ taken = {}

\* A request opens an item for each of the channels it is meant for.
Open(S) ==
    /\ \A i \in S : state[i] = "none"
    /\ state' = [i \in Items |-> IF i \in S THEN "open" ELSE state[i]]
    /\ UNCHANGED <<tries, taken>>

Try(i) ==
    /\ state[i] = "open"
    /\ tries[i] < Limit
    /\ tries' = [tries EXCEPT ![i] = @ + 1]
    /\ UNCHANGED <<state, taken>>

\* The provider takes a try that was begun, however late it arrives.
Take(i, n) ==
    /\ n \in 1..tries[i]
    /\ taken' = taken \union {<<i, n>>}
    /\ UNCHANGED <<state, tries>>

Deliver(i) ==
    /\ state[i] = "open"
    /\ <<i, tries[i]>> \in taken
    /\ state' = [state EXCEPT ![i] = "sent"]
    /\ UNCHANGED <<tries, taken>>

\* Items of F are given up, but not before they were tried; those of C are
\* cancelled with their channel.
Close(F, C) ==
    /\ \A i \in F \union C : state[i] = "open"
    /\ \A i \in F : tries[i] > 0
    /\ state' = [i \in Items |-> IF i \in F THEN "failed"
                                 ELSE IF i \in C THEN "cancelled" ELSE state[i]]
    /\ UNCHANGED <<tries, taken>>

Next ==
    \/ \E S \in SUBSET Items : Open(S)
    \/ \E i \in Items : Try(i) \/ Deliver(i)
    \/ \E i \in Items : \E n \in 1..Limit : Take(i, n)
    \/ \E F, C \in SUBSET Items : Close(F, C)

Spec == Init /\ [][Next]_vars
=============================================================================
