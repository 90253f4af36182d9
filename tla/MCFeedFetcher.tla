---------------------------- MODULE MCFeedFetcher ----------------------------
(***************************************************************************)
(* Finite instances of FeedFetcher.                                        *)
(***************************************************************************)
EXTENDS FeedFetcher

CONSTANTS f1, f2, f3, a, b, bad

\* An empty feed, feeds with an unusable item, and a feed with two new posts.
SomeDocuments == {<<>>, <<bad, a>>, <<a, b>>}
ShortDocuments == {<<bad, a>>}

=============================================================================
