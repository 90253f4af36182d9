--------------------------- MODULE MCFeedCatalogue ---------------------------
(***************************************************************************)
(* A finite instance of FeedCatalogue.                                     *)
(***************************************************************************)
EXTENDS FeedCatalogue

ThreeIds == 1..3
=============================================================================
