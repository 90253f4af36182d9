--------------------------- MODULE MCPersonalPosts ---------------------------
(***************************************************************************)
(* Two users and one client, one feed, and three posts, two of which were  *)
(* published at the same moment.                                           *)
(***************************************************************************)
EXTENDS PersonalPosts

CONSTANTS u1, u2, k1, f1, p1, p2, p3
TwoUsers == {u1, u2}
ThreePosts == {p1, p2, p3}
Feed == (p1 :> f1) @@ (p2 :> f1) @@ (p3 :> f1)
Moment == (p1 :> 1) @@ (p2 :> 2) @@ (p3 :> 2)
=============================================================================
