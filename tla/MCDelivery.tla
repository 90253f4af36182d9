----------------------------- MODULE MCDelivery -----------------------------
(***************************************************************************)
(* Finite instances of Delivery.                                           *)
(***************************************************************************)
EXTENDS Delivery, TLC

CONSTANTS e1, u1, u2, c1, w1, w2

\* One event for one channel: two workers take over each other's claims while
\* the channel is switched, deleted and recovered around them.
OneChannel  == {c1}
OneOwner    == c1 :> u1
OneUser     == {u1}
OneRequest  == {[event |-> e1, user |-> u1]}

\* The same event_id requested for the owner of the channel and for another
\* user: whoever comes first owns it.
TwoUsers    == {u1, u2}
ConflictingRequests == [event : {e1}, user : {u1, u2}]
=============================================================================
